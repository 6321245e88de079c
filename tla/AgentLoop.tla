----------------------------- MODULE AgentLoop -----------------------------
(***************************************************************************)
(* One workflow run driven by the agent loop (src/src/agentloop/run_loop.rs,*)
(* subagents.rs) over its session log (src/src/workflow/session_log.rs).   *)
(*                                                                         *)
(* A call takes the run's claim, opens an invocation, admits an exchange   *)
(* under a request key, and then alternates provider turns and tools.  All *)
(* of that is recorded by separate transactions on one append-only log,    *)
(* and the claim has no lease: it goes away only through a release that    *)
(* finds the log quiescent.                                                *)
(*                                                                         *)
(* Each transaction is a closure on the blocking pool.  When the future of *)
(* a call is dropped while it waits for such a closure, the closure still  *)
(* runs and commits (live becomes FALSE, the step is still taken).  A tool *)
(* is a blocking closure too: cancellation and the timeout stop the wait,  *)
(* never the tool.                                                         *)
(***************************************************************************)
EXTENDS Naturals, FiniteSets

CONSTANTS
    Keyed,      \* calls of run_turns_keyed: each owns its claim
    Delegates,  \* calls of delegate: claim, invocations, release
    Keys,       \* request keys
    Inputs,     \* request inputs; the fingerprint tells them apart
    MaxTurns,   \* config.max_turns
    MaxTools,   \* bound: tool calls in one assistant message
    MaxInvocations, \* bound: invocations under one delegate's claim
    None

Outcomes == {"completed", "capped", "budget", "canceled", "provider_failed"}

ASSUME LoopAssumption ==
    /\ Keyed \cap Delegates = {}
    /\ MaxTurns \in Nat \ {0} /\ MaxTools \in Nat /\ MaxInvocations \in Nat \ {0}
    /\ None \notin Keyed \cup Delegates \cup Keys \cup Inputs \cup Outcomes

VARIABLES
    \* the log, durable
    claim,      \* owner of the claim without a release, or None
    inv,        \* state of the invocation opened by each call's token
    exch,       \* per key: the exchange row's input and its exchange_done
    intent,     \* control:tool_intent rows
    done,       \* control:tool_done rows
    rows,       \* narrative rows of each key's exchange
    \* the process, lost by a kill
    call,       \* control point and locals of each call
    running,    \* tools whose blocking closure has not returned
    \* history
    effects,    \* provider requests and tool runs that were started
    repeated,   \* ... those started again
    receipts    \* outcomes returned to callers, per key

log == <<claim, inv, exch, intent, done, rows>>
hist == <<effects, repeated, receipts>>
vars == <<claim, inv, exch, intent, done, rows, call, running, effects, repeated,
          receipts>>

Calls == Keyed \cup Delegates
NoExchange == [input |-> None, end |-> None]
Work == Keys \X (1..MaxTurns) \X (0..MaxTools)    \* tool 0 is the provider

\* The control points at which a transaction is waiting to run.
TxPoints == {"case", "begin", "admit", "user", "check", "assistant", "intent",
             "result", "cancel", "end", "receipt", "release"}
\* The call has an invocation of its own open.
Inside == {"admit", "user", "turn", "check", "stream", "assistant", "tool", "intent",
           "exec", "wait", "result", "cancel", "end", "receipt"}
\* ... and is past the admission of its exchange.
Driving == Inside \ {"admit", "receipt"}
Ended == {"returned", "refused", "failed"}
Points == TxPoints \cup Inside \cup Ended \cup {"new", "between"}

\* A call that does not run: submitted not yet, or ended.
Rest(p) == [pc |-> p, key |-> None, input |-> None, live |-> TRUE, cancel |-> FALSE,
            turn |-> 1, tool |-> 1, tools |-> 0, end |-> None, left |-> 0]

Init ==
    /\ claim = None
    /\ inv = [c \in Calls |-> "none"]
    /\ exch = [k \in Keys |-> NoExchange]
    /\ intent = {} /\ done = {}
    /\ rows = [k \in Keys |-> 0]
    /\ call = [c \in Calls |-> Rest("new")]
    /\ running = {}
    /\ effects = {} /\ repeated = {}
    /\ receipts = [k \in Keys |-> {}]

At(c, p) == call[c].pc = p
key(c) == call[c].key
\* The call goes on as r; a dropped call ends with the transaction it left behind.
Become(c, r) ==
    call' = [call EXCEPT ![c] = IF ~@.live THEN Rest("failed")
                                ELSE IF r.pc \in Ended THEN Rest(r.pc) ELSE r]
Goto(c, p) == Become(c, [call[c] EXCEPT !.pc = p])
GotoEnd(c, o) == Become(c, [call[c] EXCEPT !.pc = "end", !.end = o])
Tool(c) == <<key(c), call[c].turn, call[c].tool>>
Request(c) == <<key(c), call[c].turn, 0>>
Start(w) ==
    /\ effects' = effects \cup {w}
    /\ repeated' = IF w \in effects THEN repeated \cup {w} ELSE repeated

-----------------------------------------------------------------------------
(* session_log.rs: what a transaction finds in the log                     *)

acquire(c) == claim = None
verify_owner(c) == claim = c
\* Mutant: a finished exchange is taken to have finished its tools.
tools_quiescent_Ended == \A w \in intent \ done : exch[w[1]].end # None
tools_quiescent == intent \subseteq done
exchange_pending == \E k \in Keys : exch[k] # NoExchange /\ exch[k].end = None
check_idle ==
    /\ \A c \in Calls : inv[c] # "open"
    /\ ~exchange_pending
    /\ tools_quiescent
verify_invocation(c) == verify_owner(c) /\ inv[c] = "open"
finish_invocation(c) == verify_invocation(c) /\ tools_quiescent
\* The idle check of a release in the transaction that closed invocation c.
release_after(c) ==
    /\ \A d \in Calls \ {c} : inv[d] # "open"
    /\ ~exchange_pending
    /\ tools_quiescent
\* Mutant: the request key is not looked up.
admit_new_Again(c) == tools_quiescent /\ ~exchange_pending
admit_new(c) == tools_quiescent /\ exch[key(c)] = NoExchange /\ ~exchange_pending
admit_known(c) == tools_quiescent /\ exch[key(c)].input = call[c].input

-----------------------------------------------------------------------------
(* run_invocation: claim and invocation in one transaction for a call that *)
(* owns its claim; a delegate's claim is a transaction before it.          *)

Submit(c) ==
    /\ At(c, "new")
    /\ \E k \in Keys, i \in Inputs :
          Become(c, [call[c] EXCEPT !.key = k, !.input = i,
                        !.pc = IF c \in Delegates THEN "case" ELSE "begin",
                        !.left = IF c \in Delegates THEN MaxInvocations ELSE 1])
    /\ UNCHANGED <<log, running, hist>>

\* change_claim(acquire): the delegate's own transaction.
AcquireCase(c) ==
    /\ At(c, "case")
    /\ \/ acquire(c) /\ claim' = c /\ Goto(c, "begin")
       \/ ~acquire(c) /\ claim' = claim /\ Goto(c, "refused")
    /\ UNCHANGED <<inv, exch, intent, done, rows, running, hist>>

\* Mutant: the claim is appended without reading the log.
Begin_Blind(c) ==
    /\ At(c, "begin")
    /\ claim' = c
    /\ inv' = [inv EXCEPT ![c] = "open"]
    /\ Become(c, [call[c] EXCEPT !.pc = "admit", !.left = @ - 1])
    /\ UNCHANGED <<exch, intent, done, rows, running, hist>>

Begin(c) ==
    /\ At(c, "begin")
    /\ LET owned == IF c \in Keyed THEN acquire(c) ELSE verify_owner(c)
       IN \/ /\ owned /\ check_idle
             /\ claim' = c
             /\ inv' = [inv EXCEPT ![c] = "open"]
             /\ Become(c, [call[c] EXCEPT !.pc = "admit", !.left = @ - 1])
          \/ /\ ~(owned /\ check_idle)
             /\ Goto(c, "refused")
             /\ UNCHANGED <<claim, inv>>
    /\ UNCHANGED <<exch, intent, done, rows, running, hist>>

Admit(c) ==
    /\ At(c, "admit") /\ verify_invocation(c)
    /\ \/ /\ admit_new(c)
          /\ exch' = [exch EXCEPT ![key(c)] = [input |-> call[c].input, end |-> None]]
          /\ Goto(c, "user")
       \/ /\ admit_known(c)
          /\ exch' = exch
          /\ Goto(c, "receipt")
    /\ UNCHANGED <<claim, inv, intent, done, rows, running, hist>>

\* The admission is refused: the key is known with another fingerprint, or the
\* harness no longer matches the bound policy (at any time).  The transaction
\* rolls back, and one more closes the invocation and releases the claim if the
\* call took it.
AdmitRefused(c) ==
    /\ At(c, "admit") /\ finish_invocation(c)
    /\ c \in Keyed => release_after(c)
    /\ inv' = [inv EXCEPT ![c] = "done"]
    /\ claim' = IF c \in Keyed THEN None ELSE claim
    /\ Goto(c, "failed")
    /\ UNCHANGED <<exch, intent, done, rows, running, hist>>

-----------------------------------------------------------------------------
(* drive_exchange                                                          *)

\* append_owned with one narrative row of the exchange, then on to r.
Append(c, r) ==
    /\ \/ verify_owner(c) /\ rows' = [rows EXCEPT ![key(c)] = @ + 1] /\ Become(c, r)
       \/ ~verify_owner(c) /\ rows' = rows /\ Goto(c, "failed")
    /\ UNCHANGED <<claim, inv, exch, running, hist>>

UserRow(c) ==
    /\ At(c, "user")
    /\ Append(c, [call[c] EXCEPT !.pc = "turn", !.turn = 1])
    /\ UNCHANGED <<intent, done>>

\* The head of a turn: cap, cancellation, budget.
Turn(c) ==
    /\ At(c, "turn")
    /\ \/ call[c].turn > MaxTurns /\ GotoEnd(c, "capped")
       \/ call[c].turn <= MaxTurns /\ call[c].cancel /\ Goto(c, "cancel")
       \/ /\ call[c].turn <= MaxTurns /\ ~call[c].cancel
          /\ GotoEnd(c, "budget") \/ Goto(c, "check")
    /\ UNCHANGED <<log, running, hist>>

\* check_owner, the harness turn and the request to the provider.
Stream(c) ==
    /\ At(c, "check")
    /\ \/ /\ verify_owner(c) /\ call[c].live /\ ~call[c].cancel
          /\ Start(Request(c))
          /\ Goto(c, "stream")
       \/ /\ verify_owner(c) /\ call[c].cancel
          /\ Goto(c, "cancel")
          /\ UNCHANGED <<effects, repeated>>
       \/ /\ ~verify_owner(c) \/ ~call[c].live
          /\ Goto(c, "failed")
          /\ UNCHANGED <<effects, repeated>>
    /\ UNCHANGED <<log, running, receipts>>

\* What admitted_stream returns: a message with n tool calls, a provider
\* failure, a spent budget, or the cancellation.
StreamEnds(c) ==
    /\ At(c, "stream")
    /\ \/ \E n \in 0..MaxTools :
             Become(c, [call[c] EXCEPT !.pc = "assistant", !.tool = 1, !.tools = n])
       \/ \E o \in {"provider_failed", "budget"} : GotoEnd(c, o)
       \/ call[c].cancel /\ Goto(c, "cancel")
    /\ UNCHANGED <<log, running, hist>>

\* The assistant row; a budget spent by the message ends the exchange, and so
\* does a message without tool calls.
AssistantRow(c) ==
    /\ At(c, "assistant")
    /\ \/ Append(c, [call[c] EXCEPT !.pc = "end", !.end = "budget"])
       \/ /\ call[c].tools = 0
          /\ Append(c, [call[c] EXCEPT !.pc = "end", !.end = "completed"])
       \/ call[c].tools > 0 /\ Append(c, [call[c] EXCEPT !.pc = "tool"])
    /\ UNCHANGED <<intent, done>>

\* The loop over the message's tool calls.
NextTool(c) ==
    /\ At(c, "tool")
    /\ \/ /\ call[c].tool > call[c].tools
          /\ Become(c, [call[c] EXCEPT !.pc = "turn", !.turn = @ + 1])
       \/ /\ call[c].tool <= call[c].tools
          /\ Goto(c, IF call[c].cancel THEN "cancel" ELSE "intent")
    /\ UNCHANGED <<log, running, hist>>

ToolIntent(c) ==
    /\ At(c, "intent")
    /\ \/ verify_owner(c) /\ intent' = intent \cup {Tool(c)} /\ Goto(c, "exec")
       \/ ~verify_owner(c) /\ intent' = intent /\ Goto(c, "failed")
    /\ UNCHANGED <<claim, inv, exch, done, rows, running, hist>>

\* execute_tool: a cancelled call starts nothing.
ExecuteTool(c) ==
    /\ At(c, "exec")
    /\ \/ /\ call[c].cancel /\ Goto(c, "cancel")
          /\ UNCHANGED <<running, effects, repeated>>
       \/ /\ ~call[c].cancel /\ Goto(c, "wait")
          /\ running' = running \cup {Tool(c)} /\ Start(Tool(c))
    /\ UNCHANGED <<log, receipts>>

\* The wait ends with the tool, or with the cancellation while the tool goes on.
ToolWait(c) ==
    /\ At(c, "wait")
    /\ \/ Tool(c) \notin running /\ Goto(c, "result")
       \/ call[c].cancel /\ Goto(c, "cancel")
    /\ UNCHANGED <<log, running, hist>>

ToolReturns(w) ==
    /\ running' = running \ {w}
    /\ UNCHANGED <<log, call, hist>>

\* tool_result and control:tool_done in one transaction.
ToolResult(c) ==
    /\ At(c, "result")
    /\ Append(c, [call[c] EXCEPT !.pc = "tool", !.tool = @ + 1])
    /\ done' = IF verify_owner(c) THEN done \cup {Tool(c)} ELSE done
    /\ UNCHANGED intent

\* journal_canceled.
CancelRow(c) ==
    /\ At(c, "cancel")
    /\ Append(c, [call[c] EXCEPT !.pc = "end", !.end = "canceled"])
    /\ UNCHANGED <<intent, done>>

-----------------------------------------------------------------------------
(* The end of an invocation                                                *)

ExchangeDone(c) ==
    /\ At(c, "end")
    /\ \/ /\ verify_owner(c)
          /\ exch' = [exch EXCEPT ![key(c)].end = call[c].end]
          /\ Goto(c, "receipt")
       \/ ~verify_owner(c) /\ exch' = exch /\ Goto(c, "failed")
    /\ UNCHANGED <<claim, inv, intent, done, rows, running, hist>>

\* What receipt requires of the log before it returns an outcome.
receipt_ready(c) ==
    /\ finish_invocation(c)
    /\ exch[key(c)].end # None
    /\ c \in Keyed => release_after(c)

Receipt(c) ==
    /\ At(c, "receipt")
    /\ \/ /\ receipt_ready(c)
          /\ inv' = [inv EXCEPT ![c] = "done"]
          /\ claim' = IF c \in Keyed THEN None ELSE claim
          /\ receipts' = [receipts EXCEPT ![key(c)] = @ \cup {exch[key(c)].end}]
          /\ Goto(c, IF c \in Keyed THEN "returned" ELSE "between")
       \/ /\ ~receipt_ready(c)
          /\ Goto(c, "failed")
          /\ UNCHANGED <<inv, claim, receipts>>
    /\ UNCHANGED <<exch, intent, done, rows, running, effects, repeated>>

\* A delegate's parent goes on under the claim it holds, or gives it back.
Between(c) ==
    /\ At(c, "between")
    /\ \/ /\ call[c].left > 0
          /\ \E k \in Keys, i \in Inputs :
                Become(c, [call[c] EXCEPT !.pc = "begin", !.key = k, !.input = i])
       \/ Goto(c, "release")
    /\ UNCHANGED <<log, running, hist>>

\* change_claim(release).
ReleaseCase(c) ==
    /\ At(c, "release")
    /\ \/ verify_owner(c) /\ check_idle /\ claim' = None /\ Goto(c, "returned")
       \/ ~(verify_owner(c) /\ check_idle) /\ claim' = claim /\ Goto(c, "failed")
    /\ UNCHANGED <<inv, exch, intent, done, rows, running, hist>>

-----------------------------------------------------------------------------
(* Faults                                                                  *)

Active(c) == call[c].pc \notin Ended \cup {"new"}

\* The caller's cancellation token.
Cancel(c) ==
    /\ Active(c) /\ ~call[c].cancel
    /\ call' = [call EXCEPT ![c].cancel = TRUE]
    /\ UNCHANGED <<log, running, hist>>

\* The future is dropped while its transaction is queued on the blocking pool.
Drop(c) ==
    /\ call[c].pc \in TxPoints /\ call[c].live
    /\ call' = [call EXCEPT ![c].live = FALSE]
    /\ UNCHANGED <<log, running, hist>>

\* An error path that returns without touching the log: a hook that denies, a
\* harness turn that is refused, a budget authority that is gone, a tool that
\* times out, a database that refuses; or the future dropped between two
\* transactions.
Fail(c) ==
    /\ Active(c)
    /\ call' = [call EXCEPT ![c] = Rest("failed")]
    /\ UNCHANGED <<log, running, hist>>

\* The process dies and is started again: calls and tools are gone.
Kill ==
    /\ \E c \in Calls : Active(c)
    /\ call' = [c \in Calls |-> IF Active(c) THEN Rest("failed") ELSE call[c]]
    /\ running' = {}
    /\ UNCHANGED <<log, hist>>

-----------------------------------------------------------------------------
Next ==
    \/ \E c \in Calls :
          \/ Submit(c) \/ AcquireCase(c) \/ Begin(c) \/ Admit(c) \/ AdmitRefused(c)
          \/ UserRow(c) \/ Turn(c) \/ Stream(c) \/ StreamEnds(c) \/ AssistantRow(c)
          \/ NextTool(c) \/ ToolIntent(c) \/ ExecuteTool(c) \/ ToolWait(c)
          \/ ToolResult(c) \/ CancelRow(c) \/ ExchangeDone(c) \/ Receipt(c)
          \/ Between(c) \/ ReleaseCase(c)
          \/ Cancel(c) \/ Drop(c) \/ Fail(c)
    \/ \E w \in running : ToolReturns(w)
    \/ Kill

Spec == Init /\ [][Next]_vars

-----------------------------------------------------------------------------
(* Properties                                                              *)

CallRecord ==
    [pc : Points, key : Keys \cup {None}, input : Inputs \cup {None},
     live : BOOLEAN, cancel : BOOLEAN, turn : 1..(MaxTurns + 1),
     tool : 1..(MaxTools + 1), tools : 0..MaxTools, end : Outcomes \cup {None},
     left : Nat]

\* Every field of the log and of the calls keeps its type, no tool is recorded
\* done or runs without its intent row.
TypeOK ==
    /\ claim \in Calls \cup {None}
    /\ inv \in [Calls -> {"none", "open", "done"}]
    /\ exch \in [Keys -> [input : Inputs \cup {None}, end : Outcomes \cup {None}]]
    /\ intent \subseteq Work /\ done \subseteq intent /\ running \subseteq intent
    /\ rows \in [Keys -> Nat]
    /\ call \in [Calls -> CallRecord]
    /\ effects \subseteq Work /\ repeated \subseteq effects
    /\ receipts \in [Keys -> SUBSET Outcomes]

\* Two calls never work on the run at once: from the moment one has opened its
\* invocation until it has closed it, every other call is before its own or
\* refused, whatever was dropped, cancelled or killed meanwhile.
SoleDriver ==
    \A c, d \in Calls : call[c].pc \in Inside /\ call[d].pc \in Inside => c = d

\* A tool whose waiter is gone (cancelled, timed out, dropped) keeps the run: as
\* long as it may still be acting, the claim is held and no call works on any
\* exchange but the tool's own.
DetachedToolKeepsRun ==
    \A w \in running :
        /\ claim # None
        /\ \A c \in Calls : call[c].pc \in Driving => key(c) = w[1]

\* A request key's provider requests and tool runs are started at most once, over
\* all the retries, restarts and dropped calls that use the key.
EffectsOnce == repeated = {}

\* A call that took its own claim never leaves the run owned without an open
\* invocation of that call: the two come and go in one transaction.
ClaimExplained == \A c \in Keyed : claim = c => inv[c] = "open"

\* A step that leaves the exchange of key k as it is and starts nothing for it.
LeavesExchange(k) ==
    /\ exch'[k] = exch[k] /\ rows'[k] = rows[k]
    /\ receipts'[k] = {exch[k].end}
    /\ \A w \in Work : w[1] = k =>
          /\ w \in intent' <=> w \in intent
          /\ w \in effects' <=> w \in effects

\* Once a receipt for a key was returned, its exchange is final: no outcome, row
\* or tool record of that exchange changes, no work is started for it, and every
\* later receipt carries the same outcome.
ReceiptFinal == [][\A k \in Keys : receipts[k] # {} => LeavesExchange(k)]_vars

-----------------------------------------------------------------------------
(* An inductive invariant                                                  *)

\* The locals of a call are what its control point needs them to be.
LocalsOK(c) ==
    LET r == call[c]
    IN  /\ r.pc \notin Ended \cup {"new"} => r.key \in Keys /\ r.input \in Inputs
        /\ r.pc \in {"case", "begin"} => r.left > 0
        /\ r.pc \in {"case", "between", "release"} => c \in Delegates
        /\ r.pc \in {"check", "stream", "assistant", "tool", "intent", "exec", "wait", "result"}
              => r.turn <= MaxTurns
        /\ r.pc = "assistant" => r.tool = 1
        /\ r.pc = "tool" => r.tool <= r.tools + 1
        /\ r.pc \in {"intent", "exec", "wait", "result"} => r.tool <= r.tools
        /\ r.pc = "end" => r.end \in Outcomes

\* A call inside its invocation owns the run, and the exchange it drives is open.
OwnerOK(c) ==
    /\ call[c].pc \in Inside => claim = c /\ inv[c] = "open"
    /\ call[c].pc \in Driving => exch[key(c)].input # None /\ exch[key(c)].end = None

\* The work of a call's key that lies before its turn, and before its tool.
Before(c, w) == w[2] < call[c].turn
BeforeTool(c, w) == Before(c, w) \/ (w[2] = call[c].turn /\ w[3] < call[c].tool)
UpToTool(c, w) == Before(c, w) \/ (w[2] = call[c].turn /\ w[3] <= call[c].tool)

\* What has been started or announced under the key of a driving call is behind it.
PositionOK(c) ==
    \A w \in Work : w[1] = key(c) =>
        LET begun == w \in effects \/ w \in intent
        IN  /\ call[c].pc = "user" => ~begun
            /\ call[c].pc \in {"turn", "check"} /\ begun => Before(c, w)
            /\ call[c].pc \in {"stream", "assistant"} /\ begun
                  => Before(c, w) \/ (w[2] = call[c].turn /\ w[3] = 0)
            /\ call[c].pc \in {"tool", "intent"} /\ begun => BeforeTool(c, w)
            /\ call[c].pc = "exec" /\ w \in effects => BeforeTool(c, w)
            /\ call[c].pc \in {"exec", "wait", "result"} /\ begun => UpToTool(c, w)

\* A call between the intent of its tool and the tool's result.
ToolOK(c) ==
    /\ call[c].pc \in {"exec", "wait", "result"} => Tool(c) \in intent \ done
    /\ call[c].pc = "result" => Tool(c) \notin running

\* A tool without its result keeps the run and every driver but its own out.
ToolsHeld ==
    \A w \in intent \ done :
        /\ claim # None
        /\ \A c \in Calls : call[c].pc \in Driving => key(c) = w[1]

\* Work is done only for admitted keys, and what was answered is the outcome.
ExchangesOK ==
    /\ \A w \in effects \cup intent : exch[w[1]].input # None
    /\ \A k \in Keys : exch[k].input = None => exch[k].end = None
    /\ \A k \in Keys : receipts[k] # {} => exch[k].end # None /\ receipts[k] = {exch[k].end}

CallOK(c) == LocalsOK(c) /\ OwnerOK(c) /\ PositionOK(c) /\ ToolOK(c)

LoopInv ==
    /\ \A c \in Calls : CallOK(c)
    /\ running \cap done = {}
    /\ ToolsHeld /\ ExchangesOK /\ EffectsOnce /\ ClaimExplained
=============================================================================
