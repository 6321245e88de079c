--------------------------- MODULE AgentLoopProofs ---------------------------
(***************************************************************************)
(* For every set of calls, keys and inputs and every bound on turns, tools *)
(* and invocations: one call at a time works on the run, a tool whose      *)
(* waiter is gone keeps the run, no provider request or tool is started    *)
(* twice under a key, and an answered exchange is final.  All of them      *)
(* follow from LoopInv.  Its core is OwnerOK: a call inside its invocation *)
(* is the claim's owner, so while a call steps inside, every other call is *)
(* outside and what the step writes to the log concerns nobody else.       *)
(***************************************************************************)
EXTENDS AgentLoop, TLAPS

-----------------------------------------------------------------------------
(* The control points, and where a step may leave a call *)

\* A resting record is a call record, and asks nothing of the log.
LEMMA RestTyped ==
    ASSUME NEW p \in Ended \cup {"new"}
    PROVE  Rest(p) \in CallRecord /\ Rest(p).pc = p
  BY LoopAssumption DEF Rest, CallRecord, Points, Ended

\* The groups of control points: Driving lies within Inside, Inside apart from
\* the points of a call that has ended or is not submitted.
LEMMA PointGroups ==
    /\ Driving \subseteq Inside
    /\ Inside \cap (Ended \cup {"new", "case", "begin", "between", "release"}) = {}
    /\ {"user", "turn", "check", "stream", "assistant", "tool", "intent", "exec", "wait",
        "result", "cancel", "end"} = Driving
  BY DEF Driving, Inside, Ended

\* A call that continues as r is at r, or it has ended; no other call moves.
LEMMA BecomeStep ==
    ASSUME TypeOK, NEW c \in Calls, NEW r \in CallRecord, Become(c, r)
    PROVE  /\ call' \in [Calls -> CallRecord]
           /\ \A d \in Calls \ {c} : call'[d] = call[d]
           /\ call'[c] = r \/ call'[c].pc \in Ended
<1> DEFINE s == IF ~call[c].live THEN Rest("failed")
                ELSE IF r.pc \in Ended THEN Rest(r.pc) ELSE r
<1>1. call' = [call EXCEPT ![c] = s]
  BY DEF Become
<1>2. s \in CallRecord /\ (s = r \/ s.pc \in Ended)
  BY RestTyped DEF Ended
<1> QED
  BY <1>1, <1>2 DEF TypeOK

\* A call that has ended satisfies its part of the invariant.
LEMMA EndedOK ==
    ASSUME NEW c \in Calls, call[c].pc \in Ended
    PROVE  CallOK(c) /\ call[c].pc \notin Driving
  BY PointGroups DEF CallOK, LocalsOK, OwnerOK, PositionOK, ToolOK, Ended

\* ... the same after a step.
LEMMA EndedOKNext ==
    ASSUME NEW c \in Calls, (call[c].pc)' \in Ended
    PROVE  CallOK(c)' /\ (call[c].pc)' \notin Driving
  BY PointGroups DEF CallOK, LocalsOK, OwnerOK, PositionOK, ToolOK, Ended

\* While the claim is c's or nobody's, every other call is outside.
LEMMA OthersOutside ==
    ASSUME LoopInv, NEW c \in Calls, claim \in {c, None}, NEW d \in Calls \ {c}
    PROVE  call[d].pc \notin Inside
  BY LoopAssumption DEF LoopInv, CallOK, OwnerOK, Calls

\* A call that does not move keeps its part of the invariant when it is outside,
\* or when the step writes nothing.
LEMMA OthersKeep ==
    ASSUME LoopInv, NEW d \in Calls, call'[d] = call[d],
           \/ call[d].pc \notin Inside
           \/ UNCHANGED <<log, running, effects>>
    PROVE  CallOK(d)'
<1>1. CASE call[d].pc \notin Inside
  BY <1>1, PointGroups DEF LoopInv, CallOK, LocalsOK, OwnerOK, PositionOK, ToolOK
<1>2. CASE UNCHANGED <<log, running, effects>>
  BY <1>2 DEF LoopInv, CallOK, LocalsOK, OwnerOK, PositionOK, ToolOK, Before, BeforeTool,
              UpToTool, Tool, key, log
<1> QED
  BY <1>1, <1>2

-----------------------------------------------------------------------------
(* Steps that write nothing *)

\* A step of one call that leaves the log and the tools alone keeps everything,
\* when the call arrives where its locals allow it and keeps its exchange.
LEMMA QuietStep ==
    ASSUME TypeOK, LoopInv, NEW c \in Calls, UNCHANGED <<log, running, hist>>,
           call' \in [Calls -> CallRecord],
           \A d \in Calls \ {c} : call'[d] = call[d],
           CallOK(c)',
           (call[c].pc)' \in Driving => call[c].pc \in Driving /\ key(c)' = key(c)
    PROVE  TypeOK' /\ LoopInv'
<1>1. TypeOK'
  BY DEF TypeOK, log, hist
<1>2. \A d \in Calls : CallOK(d)'
  BY OthersKeep DEF hist
<1>3. ToolsHeld'
  BY DEF LoopInv, ToolsHeld, key, log
<1> QED
  BY <1>1, <1>2, <1>3 DEF LoopInv, ExchangesOK, EffectsOnce, ClaimExplained, log, hist

\* The call ends: on an error path, refused, or dropped with its transaction.
LEMMA QuietEnd ==
    ASSUME TypeOK, LoopInv, NEW c \in Calls, UNCHANGED <<log, running, hist>>,
           call' \in [Calls -> CallRecord],
           \A d \in Calls \ {c} : call'[d] = call[d],
           (call[c].pc)' \in Ended
    PROVE  TypeOK' /\ LoopInv'
  BY EndedOKNext, QuietStep

\* The call goes on as r.
LEMMA QuietBecome ==
    ASSUME TypeOK, LoopInv, NEW c \in Calls, UNCHANGED <<log, running, hist>>,
           NEW r \in CallRecord, Become(c, r),
           call'[c] = r => /\ CallOK(c)'
                           /\ r.pc \in Driving => call[c].pc \in Driving /\ r.key = key(c)
    PROVE  TypeOK' /\ LoopInv'
<1>1. /\ call' \in [Calls -> CallRecord]
      /\ \A d \in Calls \ {c} : call'[d] = call[d]
  BY BecomeStep
<1>2. CASE call'[c] = r
  BY <1>1, <1>2, QuietStep DEF key
<1>3. CASE call'[c].pc \in Ended
  BY <1>1, <1>3, QuietEnd
<1> QED
  BY <1>2, <1>3, BecomeStep

\* A call record with another control point is a call record.
LEMMA PointMoved ==
    ASSUME NEW r \in CallRecord, NEW p \in Points
    PROVE  [r EXCEPT !.pc = p] \in CallRecord /\ [r EXCEPT !.pc = p].pc = p
  BY DEF CallRecord

\* A call record that has taken up a key and an input.
LEMMA KeyTaken ==
    ASSUME NEW r \in CallRecord, NEW p \in Points, NEW k \in Keys, NEW i \in Inputs
    PROVE  [r EXCEPT !.pc = p, !.key = k, !.input = i] \in CallRecord
  BY DEF CallRecord

\* The call is refused or fails where it stands.
LEMMA QuietFail ==
    ASSUME TypeOK, LoopInv, NEW c \in Calls, UNCHANGED <<log, running, hist>>,
           NEW p \in Ended, Goto(c, p)
    PROVE  TypeOK' /\ LoopInv'
<1>0. call[c] \in CallRecord /\ p \in Points
  BY DEF TypeOK, Points
<1>1. [call[c] EXCEPT !.pc = p] \in CallRecord
  BY <1>0, PointMoved
<1>2. (call[c].pc)' \in Ended
  BY <1>1, BecomeStep DEF Goto, CallRecord
<1> QED
  BY <1>1, <1>2, BecomeStep, QuietEnd DEF Goto

\* A call enters with its key and its input; the log is as it was.
LEMMA SubmitStep ==
    ASSUME TypeOK, LoopInv, NEW c \in Calls, Submit(c)
    PROVE  TypeOK' /\ LoopInv'
<1>1. PICK k \in Keys, i \in Inputs :
         Become(c, [call[c] EXCEPT !.key = k, !.input = i,
                       !.pc = IF c \in Delegates THEN "case" ELSE "begin",
                       !.left = IF c \in Delegates THEN MaxInvocations ELSE 1])
  BY DEF Submit
<1> DEFINE p == IF c \in Delegates THEN "case" ELSE "begin"
           n == IF c \in Delegates THEN MaxInvocations ELSE 1
           r == [call[c] EXCEPT !.key = k, !.input = i, !.pc = p, !.left = n]
<1>0. p \in Points /\ n \in Nat /\ n > 0
  BY LoopAssumption DEF Points, TxPoints
<1>a. call[c] \in CallRecord
  BY DEF TypeOK
<1>2. r \in CallRecord
  <2> HIDE DEF p, n
  <2> QED
    BY <1>0, <1>a DEF CallRecord
<1>3. r.key = k /\ r.input = i /\ r.left > 0 /\ r.pc = p
  <2> HIDE DEF p, n
  <2> QED
    BY <1>0, <1>a DEF CallRecord
<1>4. ASSUME call'[c] = r PROVE CallOK(c)' /\ r.pc \notin Driving
  BY <1>3, <1>4, PointGroups DEF CallOK, LocalsOK, OwnerOK, PositionOK, ToolOK
<1> QED
  BY <1>1, <1>2, <1>4, QuietBecome DEF Submit

\* A delegate's parent takes its next key and input, or goes to give the claim back.
LEMMA BetweenStep ==
    ASSUME TypeOK, LoopInv, NEW c \in Calls, Between(c)
    PROVE  TypeOK' /\ LoopInv'
<1>1. CASE Goto(c, "release")
  <2> DEFINE r == [call[c] EXCEPT !.pc = "release"]
  <2>1. r \in CallRecord /\ r.pc = "release" /\ r.key = key(c) /\ r.input = call[c].input
    BY DEF TypeOK, CallRecord, Points, TxPoints, key
  <2>2. call[c].key \in Keys /\ call[c].input \in Inputs /\ c \in Delegates
    BY DEF Between, At, LoopInv, CallOK, LocalsOK, Ended
  <2>3. ASSUME call'[c] = r PROVE CallOK(c)' /\ r.pc \notin Driving
    BY <2>1, <2>2, <2>3, PointGroups
    DEF CallOK, LocalsOK, OwnerOK, PositionOK, ToolOK, key
  <2> QED
    BY <1>1, <2>1, <2>3, QuietBecome DEF Between, Goto
<1>2. ASSUME call[c].left > 0, NEW k \in Keys, NEW i \in Inputs,
             Become(c, [call[c] EXCEPT !.pc = "begin", !.key = k, !.input = i])
      PROVE  TypeOK' /\ LoopInv'
  <2> DEFINE r == [call[c] EXCEPT !.pc = "begin", !.key = k, !.input = i]
  <2>0. call[c] \in CallRecord /\ "begin" \in Points
    BY DEF TypeOK, Points, TxPoints
  <2>1. r \in CallRecord /\ r.pc = "begin" /\ r.key = k /\ r.input = i
        /\ r.left = call[c].left
    <3>1. r \in CallRecord
      BY <2>0, KeyTaken
    <3>2. r.pc = "begin" /\ r.key = k /\ r.input = i /\ r.left = call[c].left
      BY <2>0 DEF CallRecord
    <3> QED BY <3>1, <3>2
  <2>2. ASSUME call'[c] = r PROVE CallOK(c)' /\ r.pc \notin Driving
    BY <1>2, <2>1, <2>2, PointGroups DEF CallOK, LocalsOK, OwnerOK, PositionOK, ToolOK
  <2> QED
    BY <1>2, <2>1, <2>2, QuietBecome DEF Between
<1> QED
  BY <1>1, <1>2 DEF Between

\* A driving call moves on to another point of the same exchange.
LEMMA QuietDrive ==
    ASSUME TypeOK, LoopInv, NEW c \in Calls, UNCHANGED <<log, running, hist>>,
           NEW r \in CallRecord, Become(c, r),
           call[c].pc \in Driving, r.pc \in Driving, r.key = key(c),
           call'[c] = r => LocalsOK(c)' /\ PositionOK(c)' /\ ToolOK(c)'
    PROVE  TypeOK' /\ LoopInv'
<1>1. ASSUME call'[c] = r PROVE CallOK(c)'
  <2>1. OwnerOK(c)'
    BY <1>1, PointGroups DEF LoopInv, CallOK, OwnerOK, key, log
  <2> QED
    BY <1>1, <2>1 DEF CallOK
<1> QED
  BY <1>1, QuietBecome DEF key

\* The locals of a call past its submission.
LEMMA Located ==
    ASSUME TypeOK, LoopInv, NEW c \in Calls, call[c].pc \in Inside
    PROVE  /\ call[c] \in CallRecord /\ key(c) \in Keys /\ call[c].input \in Inputs
           /\ claim = c /\ inv[c] = "open"
  BY PointGroups DEF TypeOK, LoopInv, CallOK, LocalsOK, OwnerOK, key, Ended

\* What moving the control point, and setting the outcome, does to the locals.
LEMMA GotoRecord ==
    ASSUME NEW r \in CallRecord, NEW p \in Points
    PROVE  LET s == [r EXCEPT !.pc = p]
           IN  /\ s \in CallRecord /\ s.pc = p
               /\ s.key = r.key /\ s.input = r.input /\ s.turn = r.turn
               /\ s.tool = r.tool /\ s.tools = r.tools
               /\ s.cancel = r.cancel /\ s.live = r.live /\ s.left = r.left
  BY DEF CallRecord

\* The record of a call that ends: its key and its input are those it came with.
LEMMA EndRecord ==
    ASSUME NEW r \in CallRecord, NEW o \in Outcomes
    PROVE  LET s == [r EXCEPT !.pc = "end", !.end = o]
           IN  /\ s \in CallRecord /\ s.pc = "end" /\ s.end = o
               /\ s.key = r.key /\ s.input = r.input
  BY DEF CallRecord, Points, TxPoints

\* A driving call is led to the end of its exchange, or to its cancellation row:
\* two points that ask nothing of what was started.
LEMMA QuietToEnd ==
    ASSUME TypeOK, LoopInv, NEW c \in Calls, UNCHANGED <<log, running, hist>>,
           call[c].pc \in Driving, NEW o \in Outcomes, GotoEnd(c, o)
    PROVE  TypeOK' /\ LoopInv'
<1> DEFINE r == [call[c] EXCEPT !.pc = "end", !.end = o]
<1>0. call[c] \in CallRecord /\ key(c) \in Keys /\ call[c].input \in Inputs
  BY Located, PointGroups
<1>1. /\ r \in CallRecord /\ r.pc = "end" /\ r.end = o
      /\ r.key = call[c].key /\ r.input = call[c].input
  BY <1>0, EndRecord
<1>2. ASSUME call'[c] = r PROVE LocalsOK(c)' /\ PositionOK(c)' /\ ToolOK(c)'
  BY <1>0, <1>1, <1>2 DEF LocalsOK, PositionOK, ToolOK, key
<1>3. Become(c, r) /\ r.pc \in Driving
  BY <1>1, PointGroups DEF GotoEnd
<1> QED
  BY <1>1, <1>2, <1>3, QuietDrive DEF key

\* A driving call that is told to cancel owes only its cancellation row.
LEMMA QuietToCancel ==
    ASSUME TypeOK, LoopInv, NEW c \in Calls, UNCHANGED <<log, running, hist>>,
           call[c].pc \in Driving, Goto(c, "cancel")
    PROVE  TypeOK' /\ LoopInv'
<1> DEFINE r == [call[c] EXCEPT !.pc = "cancel"]
<1>0. call[c] \in CallRecord /\ key(c) \in Keys /\ call[c].input \in Inputs
  BY Located, PointGroups
<1>1. "cancel" \in Points
  BY DEF Points, TxPoints
<1>2. r \in CallRecord /\ r.pc = "cancel" /\ r.key = call[c].key /\ r.input = call[c].input
  BY <1>0, <1>1, GotoRecord
<1>3. ASSUME call'[c] = r PROVE LocalsOK(c)' /\ PositionOK(c)' /\ ToolOK(c)'
  BY <1>0, <1>2, <1>3 DEF LocalsOK, PositionOK, ToolOK, key
<1>4. Become(c, r) /\ r.pc \in Driving
  BY <1>2, PointGroups DEF Goto
<1> QED
  BY <1>2, <1>3, <1>4, QuietDrive DEF key

\* The head of a turn moves the call and nothing else.
LEMMA TurnStep ==
    ASSUME TypeOK, LoopInv, NEW c \in Calls, Turn(c)
    PROVE  TypeOK' /\ LoopInv'
<1>0. call[c].pc = "turn" /\ call[c].pc \in Driving
  BY PointGroups DEF Turn, At
<1>1. CASE call[c].turn <= MaxTurns /\ Goto(c, "check")
  <2> DEFINE r == [call[c] EXCEPT !.pc = "check"]
  <2>0. call[c] \in CallRecord /\ key(c) \in Keys /\ call[c].input \in Inputs
    BY <1>0, Located, PointGroups
  <2>1. "check" \in Points
    BY DEF Points, TxPoints
  <2>2. /\ r \in CallRecord /\ r.pc = "check" /\ r.key = call[c].key
        /\ r.input = call[c].input /\ r.turn = call[c].turn
    BY <2>0, <2>1, GotoRecord
  <2>3. ASSUME call'[c] = r PROVE LocalsOK(c)' /\ PositionOK(c)' /\ ToolOK(c)'
    <3>1. PositionOK(c)'
      BY <1>0, <2>2, <2>3 DEF LoopInv, CallOK, PositionOK, Turn, Before, log, hist, key
    <3> QED
      BY <1>1, <2>0, <2>2, <2>3, <3>1 DEF LocalsOK, ToolOK, key
  <2>4. Become(c, r) /\ r.pc \in Driving
    BY <1>1, <2>2, PointGroups DEF Goto
  <2> QED
    BY <1>0, <2>2, <2>3, <2>4, QuietDrive DEF Turn, key
<1> QED
  BY <1>0, <1>1, QuietToEnd, QuietToCancel DEF Turn, Outcomes

\* The stream's end moves the call to its assistant row, its cancellation or its end.
LEMMA StreamEndsStep ==
    ASSUME TypeOK, LoopInv, NEW c \in Calls, StreamEnds(c)
    PROVE  TypeOK' /\ LoopInv'
<1>0. call[c].pc = "stream" /\ call[c].pc \in Driving
  BY PointGroups DEF StreamEnds, At
<1>1. ASSUME NEW n \in 0..MaxTools,
             Become(c, [call[c] EXCEPT !.pc = "assistant", !.tool = 1, !.tools = n])
      PROVE  TypeOK' /\ LoopInv'
  <2> DEFINE r == [call[c] EXCEPT !.pc = "assistant", !.tool = 1, !.tools = n]
  <2>0. call[c] \in CallRecord /\ key(c) \in Keys /\ call[c].input \in Inputs
    BY <1>0, Located, PointGroups
  <2>1. "assistant" \in Points /\ 1 \in 1..(MaxTools + 1)
    BY LoopAssumption DEF Points, TxPoints
  <2>2. /\ r \in CallRecord /\ r.pc = "assistant" /\ r.key = call[c].key
        /\ r.input = call[c].input /\ r.turn = call[c].turn /\ r.tool = 1
    BY <2>0, <2>1 DEF CallRecord
  <2>3. ASSUME call'[c] = r PROVE LocalsOK(c)' /\ PositionOK(c)' /\ ToolOK(c)'
    <3>1. PositionOK(c)'
      <4>1. /\ call'[c].pc = "assistant" /\ call'[c].key = call[c].key
            /\ call'[c].turn = call[c].turn
        BY <2>2, <2>3
      <4>2. UNCHANGED <<effects, intent>>
        BY DEF StreamEnds, log, hist
      <4>3. PositionOK(c)
        BY DEF LoopInv, CallOK
      <4> HIDE DEF r
      <4> QED
        BY <1>0, <4>1, <4>2, <4>3 DEF PositionOK, Before, key
    <3>2. call[c].turn <= MaxTurns
      BY <1>0 DEF LoopInv, CallOK, LocalsOK
    <3> QED
      BY <2>0, <2>2, <2>3, <3>1, <3>2 DEF LocalsOK, ToolOK, key
  <2>4. r.pc \in Driving
    BY <2>2, PointGroups
  <2> QED
    BY <1>0, <1>1, <2>2, <2>3, <2>4, QuietDrive DEF StreamEnds, key
<1> QED
  BY <1>0, <1>1, QuietToEnd, QuietToCancel DEF StreamEnds, Outcomes

\* The loop moves to the next tool of the turn, or past the last one.
LEMMA NextToolStep ==
    ASSUME TypeOK, LoopInv, NEW c \in Calls, NextTool(c)
    PROVE  TypeOK' /\ LoopInv'
<1>0. call[c].pc = "tool" /\ call[c].pc \in Driving
  BY PointGroups DEF NextTool, At
<1>1. call[c] \in CallRecord /\ key(c) \in Keys /\ call[c].input \in Inputs
  BY <1>0, Located, PointGroups
<1>2. call[c].turn <= MaxTurns /\ call[c].tool <= call[c].tools + 1
  BY <1>0 DEF LoopInv, CallOK, LocalsOK
<1>3. CASE Become(c, [call[c] EXCEPT !.pc = "turn", !.turn = @ + 1])
  <2> DEFINE r == [call[c] EXCEPT !.pc = "turn", !.turn = @ + 1]
  <2>1. "turn" \in Points /\ call[c].turn + 1 \in 1..(MaxTurns + 1)
    BY <1>1, <1>2, LoopAssumption DEF Points, Inside, CallRecord
  <2>2. /\ r \in CallRecord /\ r.pc = "turn" /\ r.key = call[c].key
        /\ r.input = call[c].input /\ r.turn = call[c].turn + 1
    BY <1>1, <2>1 DEF CallRecord
  <2>3. ASSUME call'[c] = r PROVE LocalsOK(c)' /\ PositionOK(c)' /\ ToolOK(c)'
    <3>1. PositionOK(c)'
      BY <1>0, <1>1, <2>2, <2>3
      DEF LoopInv, CallOK, PositionOK, NextTool, Before, BeforeTool, log, hist, key, Work,
          CallRecord
    <3> QED
      BY <1>1, <2>2, <2>3, <3>1 DEF LocalsOK, ToolOK, key
  <2>4. r.pc \in Driving
    BY <2>2, PointGroups
  <2> QED
    BY <1>0, <1>3, <2>2, <2>3, <2>4, QuietDrive DEF NextTool, key
<1>4. CASE call[c].tool <= call[c].tools /\ Goto(c, "intent")
  <2> DEFINE r == [call[c] EXCEPT !.pc = "intent"]
  <2>1. "intent" \in Points
    BY DEF Points, TxPoints
  <2>2. /\ r \in CallRecord /\ r.pc = "intent" /\ r.key = call[c].key
        /\ r.input = call[c].input /\ r.turn = call[c].turn /\ r.tool = call[c].tool
        /\ r.tools = call[c].tools
    BY <1>1, <2>1, GotoRecord
  <2>3. ASSUME call'[c] = r PROVE LocalsOK(c)' /\ PositionOK(c)' /\ ToolOK(c)'
    <3>1. PositionOK(c)'
      BY <1>0, <2>2, <2>3
      DEF LoopInv, CallOK, PositionOK, NextTool, Before, BeforeTool, log, hist, key
    <3> QED
      BY <1>1, <1>2, <1>4, <2>2, <2>3, <3>1 DEF LocalsOK, ToolOK, key
  <2>4. Become(c, r) /\ r.pc \in Driving
    BY <1>4, <2>2, PointGroups DEF Goto
  <2> QED
    BY <1>0, <2>2, <2>3, <2>4, QuietDrive DEF NextTool, key
<1> QED
  BY <1>0, <1>3, <1>4, QuietToCancel DEF NextTool

\* The wait ends with the tool, or leaves it running behind the cancellation.
LEMMA ToolWaitStep ==
    ASSUME TypeOK, LoopInv, NEW c \in Calls, ToolWait(c)
    PROVE  TypeOK' /\ LoopInv'
<1>0. call[c].pc = "wait" /\ call[c].pc \in Driving
  BY PointGroups DEF ToolWait, At
<1>1. CASE Tool(c) \notin running /\ Goto(c, "result")
  <2> DEFINE r == [call[c] EXCEPT !.pc = "result"]
  <2>0. call[c] \in CallRecord /\ key(c) \in Keys /\ call[c].input \in Inputs
    BY <1>0, Located, PointGroups
  <2>1. "result" \in Points
    BY DEF Points, TxPoints
  <2>2. /\ r \in CallRecord /\ r.pc = "result" /\ r.key = call[c].key
        /\ r.input = call[c].input /\ r.turn = call[c].turn /\ r.tool = call[c].tool
        /\ r.tools = call[c].tools
    BY <2>0, <2>1, GotoRecord
  <2>3. ASSUME call'[c] = r PROVE LocalsOK(c)' /\ PositionOK(c)' /\ ToolOK(c)'
    <3>1. PositionOK(c)'
      BY <1>0, <2>2, <2>3
      DEF LoopInv, CallOK, PositionOK, ToolWait, Before, UpToTool, log, hist, key
    <3>2. LocalsOK(c)'
      BY <1>0, <2>0, <2>2, <2>3 DEF LoopInv, CallOK, LocalsOK, key
    <3>3. ToolOK(c)'
      BY <1>0, <1>1, <2>2, <2>3 DEF LoopInv, CallOK, ToolOK, Tool, key, ToolWait, log
    <3> QED
      BY <3>1, <3>2, <3>3
  <2>4. Become(c, r) /\ r.pc \in Driving
    BY <1>1, <2>2, PointGroups DEF Goto
  <2> QED
    BY <1>0, <2>2, <2>3, <2>4, QuietDrive DEF ToolWait, key
<1> QED
  BY <1>0, <1>1, QuietToCancel DEF ToolWait

-----------------------------------------------------------------------------
(* Faults *)

\* The cancellation token and the drop change one flag that nothing rests on.
LEMMA FlagStep ==
    ASSUME TypeOK, LoopInv, NEW c \in Calls, Cancel(c) \/ Drop(c)
    PROVE  TypeOK' /\ LoopInv'
<1>1. /\ call' \in [Calls -> CallRecord]
      /\ \A d \in Calls \ {c} : call'[d] = call[d]
      /\ call'[c].pc = call[c].pc /\ call'[c].key = call[c].key
      /\ call'[c].input = call[c].input /\ call'[c].turn = call[c].turn
      /\ call'[c].tool = call[c].tool /\ call'[c].tools = call[c].tools
      /\ call'[c].end = call[c].end /\ call'[c].left = call[c].left
  <2>0. call \in [Calls -> CallRecord] /\ call[c] \in CallRecord
    BY DEF TypeOK
  <2>1. CASE call' = [call EXCEPT ![c] = [call[c] EXCEPT !.cancel = TRUE]]
    <3>1. [call[c] EXCEPT !.cancel = TRUE] \in CallRecord
      BY <2>0 DEF CallRecord
    <3>2. call'[c] = [call[c] EXCEPT !.cancel = TRUE]
      BY <2>0, <2>1
    <3> QED
      BY <2>0, <2>1, <3>1, <3>2 DEF CallRecord
  <2>2. CASE call' = [call EXCEPT ![c] = [call[c] EXCEPT !.live = FALSE]]
    <3>1. [call[c] EXCEPT !.live = FALSE] \in CallRecord
      BY <2>0 DEF CallRecord
    <3>2. call'[c] = [call[c] EXCEPT !.live = FALSE]
      BY <2>0, <2>2
    <3> QED
      BY <2>0, <2>2, <3>1, <3>2 DEF CallRecord
  <2> QED
    BY <2>1, <2>2 DEF Cancel, Drop
<1>2. UNCHANGED <<log, running, hist>>
  BY DEF Cancel, Drop
<1>3. CallOK(c)'
  <2>1. LocalsOK(c)' /\ OwnerOK(c)' /\ ToolOK(c)'
    BY <1>1, <1>2 DEF LoopInv, CallOK, LocalsOK, OwnerOK, ToolOK, Tool, key, log
  <2>2. PositionOK(c)'
    BY <1>1, <1>2
    DEF LoopInv, CallOK, PositionOK, Before, BeforeTool, UpToTool, key, log, hist
  <2> QED
    BY <2>1, <2>2 DEF CallOK
<1> QED
  BY <1>1, <1>2, <1>3, QuietStep DEF key

\* A call that fails lets go of everything but what it wrote.
LEMMA FailStep ==
    ASSUME TypeOK, LoopInv, NEW c \in Calls, Fail(c)
    PROVE  TypeOK' /\ LoopInv'
<1>1. Rest("failed") \in CallRecord /\ Rest("failed").pc \in Ended
  BY RestTyped DEF Ended
<1>2. /\ call' \in [Calls -> CallRecord]
      /\ \A d \in Calls \ {c} : call'[d] = call[d]
      /\ (call[c].pc)' \in Ended
  BY <1>1 DEF Fail, TypeOK
<1> QED
  BY <1>2, QuietEnd DEF Fail

\* A kill ends every active call and every running tool; the log stays.
LEMMA KillStep ==
    ASSUME TypeOK, LoopInv, Kill
    PROVE  TypeOK' /\ LoopInv'
<1>1. Rest("failed") \in CallRecord /\ Rest("failed").pc \in Ended
  BY RestTyped DEF Ended
<1>2. \A c \in Calls : call'[c] = IF Active(c) THEN Rest("failed") ELSE call[c]
  BY DEF Kill
<1>3. TypeOK'
  BY <1>1 DEF TypeOK, Kill, log, hist
<1>4. ASSUME NEW c \in Calls PROVE CallOK(c)' /\ (call[c].pc)' \notin Driving
  <2>1. CASE Active(c)
    BY <1>1, <1>2, <2>1, EndedOKNext
  <2>2. CASE ~Active(c)
    BY <1>2, <2>2, PointGroups
    DEF Active, LoopInv, CallOK, LocalsOK, OwnerOK, PositionOK, ToolOK
  <2> QED
    BY <2>1, <2>2
<1>5. ToolsHeld'
  BY <1>4 DEF LoopInv, ToolsHeld, Kill, log
<1> QED
  BY <1>3, <1>4, <1>5
  DEF LoopInv, ExchangesOK, EffectsOnce, ClaimExplained, Kill, log, hist

\* A tool, awaited or left behind, is no longer running.
LEMMA ToolReturnsStep ==
    ASSUME TypeOK, LoopInv, NEW w \in running, ToolReturns(w)
    PROVE  TypeOK' /\ LoopInv'
<1>1. TypeOK'
  BY DEF TypeOK, ToolReturns, log, hist
<1>2. \A c \in Calls : CallOK(c)'
  BY DEF LoopInv, CallOK, LocalsOK, OwnerOK, PositionOK, ToolOK, Before, BeforeTool,
         UpToTool, Tool, key, ToolReturns, log, hist
<1>3. ToolsHeld'
  BY DEF LoopInv, ToolsHeld, ToolReturns, key, log
<1> QED
  BY <1>1, <1>2, <1>3
  DEF LoopInv, ExchangesOK, EffectsOnce, ClaimExplained, ToolReturns, log, hist

-----------------------------------------------------------------------------
(* The claim and the invocation *)

\* Nobody owns the run, so no tool is left and no call is inside.
LEMMA AcquireCaseStep ==
    ASSUME TypeOK, LoopInv, NEW c \in Calls, AcquireCase(c)
    PROVE  TypeOK' /\ LoopInv'
<1>0. call[c].pc = "case" /\ call[c] \in CallRecord /\ c \in Delegates
      /\ call[c].key \in Keys /\ call[c].input \in Inputs /\ call[c].left > 0
  BY DEF AcquireCase, At, TypeOK, LoopInv, CallOK, LocalsOK, Ended
<1>1. CASE claim = None /\ claim' = c /\ Goto(c, "begin")
  <2> DEFINE r == [call[c] EXCEPT !.pc = "begin"]
  <2>1. "begin" \in Points
    BY DEF Points, TxPoints
  <2>2. /\ r \in CallRecord /\ r.pc = "begin" /\ r.key = call[c].key
        /\ r.input = call[c].input /\ r.left = call[c].left
    BY <1>0, <2>1, GotoRecord
  <2>3. /\ call' \in [Calls -> CallRecord]
        /\ \A d \in Calls \ {c} : call'[d] = call[d]
        /\ call'[c] = r \/ call'[c].pc \in Ended
    BY <1>1, <2>2, BecomeStep DEF Goto
  <2>4. CallOK(c)' /\ (call[c].pc)' \notin Driving
    <3>1. CASE call'[c] = r
      BY <1>0, <2>2, <3>1, PointGroups DEF CallOK, LocalsOK, OwnerOK, PositionOK, ToolOK
    <3> QED
      BY <2>3, <3>1, EndedOKNext
  <2>5. \A d \in Calls : CallOK(d)'
    BY <1>1, <2>3, <2>4, OthersOutside, OthersKeep
  <2>6. TypeOK'
    BY <1>1, <2>3 DEF TypeOK, AcquireCase, hist
  <2>7. ToolsHeld'
    BY <1>1 DEF LoopInv, ToolsHeld, AcquireCase
  <2>8. ClaimExplained'
    BY <1>0, <1>1, LoopAssumption DEF ClaimExplained
  <2> QED
    BY <2>5, <2>6, <2>7, <2>8 DEF LoopInv, ExchangesOK, EffectsOnce, AcquireCase, hist
<1>2. CASE claim' = claim /\ Goto(c, "refused")
  BY <1>2, QuietFail DEF AcquireCase, log, Ended
<1> QED
  BY <1>1, <1>2 DEF AcquireCase, acquire

\* The invocation opens under a claim that is free or the delegate's own, over a
\* log without an open tool.
LEMMA BeginStep ==
    ASSUME TypeOK, LoopInv, NEW c \in Calls, Begin(c)
    PROVE  TypeOK' /\ LoopInv'
<1>0. call[c].pc = "begin" /\ call[c] \in CallRecord
      /\ call[c].key \in Keys /\ call[c].input \in Inputs /\ call[c].left > 0
  BY DEF Begin, At, TypeOK, LoopInv, CallOK, LocalsOK, Ended
<1>1. CASE /\ claim \in {c, None} /\ check_idle
           /\ claim' = c
           /\ inv' = [inv EXCEPT ![c] = "open"]
           /\ Become(c, [call[c] EXCEPT !.pc = "admit", !.left = @ - 1])
  <2> DEFINE r == [call[c] EXCEPT !.pc = "admit", !.left = @ - 1]
  <2>1. "admit" \in Points /\ call[c].left - 1 \in Nat
    BY <1>0 DEF Points, TxPoints, CallRecord
  <2>2. /\ r \in CallRecord /\ r.pc = "admit" /\ r.key = call[c].key
        /\ r.input = call[c].input
    BY <1>0, <2>1 DEF CallRecord
  <2>3. /\ call' \in [Calls -> CallRecord]
        /\ \A d \in Calls \ {c} : call'[d] = call[d]
        /\ call'[c] = r \/ call'[c].pc \in Ended
    BY <1>1, <2>2, BecomeStep
  <2>4. inv'[c] = "open" /\ inv' \in [Calls -> {"none", "open", "done"}]
    BY <1>1 DEF TypeOK
  <2>5. CallOK(c)' /\ (call[c].pc)' \notin Driving
    <3>1. CASE call'[c] = r
      <4>1. "admit" \notin Driving /\ "admit" \in Inside
        BY DEF Driving, Inside
      <4> QED
        BY <1>0, <1>1, <2>2, <2>4, <3>1, <4>1
        DEF CallOK, LocalsOK, OwnerOK, PositionOK, ToolOK
    <3> QED
      BY <2>3, <3>1, EndedOKNext
  <2>6. \A d \in Calls : CallOK(d)'
    BY <1>1, <2>3, <2>5, OthersOutside, OthersKeep
  <2>7. TypeOK'
    BY <1>1, <2>3, <2>4 DEF TypeOK, Begin, hist
  <2>8. ToolsHeld'
    BY <1>1 DEF ToolsHeld, Begin, check_idle, tools_quiescent
  <2>9. ClaimExplained'
    BY <1>1, <2>4 DEF ClaimExplained
  <2> QED
    BY <2>6, <2>7, <2>8, <2>9 DEF LoopInv, ExchangesOK, EffectsOnce, Begin, hist
<1>2. CASE Goto(c, "refused") /\ UNCHANGED <<claim, inv>>
  BY <1>2, QuietFail DEF Begin, log, Ended
<1> QED
  BY <1>1, <1>2 DEF Begin, acquire, verify_owner

\* A call inside gives its invocation, and a keyed call its claim, back over a log
\* without an open tool.  Whatever it records of the exchange it leaves is final.
LEMMA ClosingStep ==
    ASSUME TypeOK, LoopInv, NEW c \in Calls, call[c].pc \in Inside, tools_quiescent,
           inv' = [inv EXCEPT ![c] = "done"],
           claim' = IF c \in Keyed THEN None ELSE claim,
           UNCHANGED <<exch, intent, done, rows, running, effects, repeated>>,
           call' \in [Calls -> CallRecord],
           \A d \in Calls \ {c} : call'[d] = call[d],
           CallOK(c)', (call[c].pc)' \notin Driving,
           receipts' \in [Keys -> SUBSET Outcomes],
           \A k \in Keys : receipts'[k] # {} => exch[k].end # None /\ receipts'[k] = {exch[k].end}
    PROVE  TypeOK' /\ LoopInv'
<1>0. claim = c
  BY Located
<1>1. TypeOK'
  BY DEF TypeOK
<1>2. \A d \in Calls : CallOK(d)'
  BY <1>0, OthersOutside, OthersKeep
<1>3. ToolsHeld'
  BY DEF ToolsHeld, tools_quiescent
<1>4. ClaimExplained'
  BY <1>0, LoopAssumption DEF ClaimExplained, Calls
<1>5. ExchangesOK'
  BY DEF LoopInv, ExchangesOK
<1> QED
  BY <1>1, <1>2, <1>3, <1>4, <1>5 DEF LoopInv, EffectsOnce

\* A refused admission closes the invocation, with its claim if the call took it.
LEMMA AdmitRefusedStep ==
    ASSUME TypeOK, LoopInv, NEW c \in Calls, AdmitRefused(c)
    PROVE  TypeOK' /\ LoopInv'
<1>1. call[c] \in CallRecord /\ call[c].pc \in Inside
  BY DEF TypeOK, AdmitRefused, At, Inside
<1> DEFINE r == [call[c] EXCEPT !.pc = "failed"]
<1>2. r \in CallRecord /\ r.pc \in Ended
  <2>1. "failed" \in Points /\ "failed" \in Ended
    BY DEF Points, Ended
  <2> QED
    BY <1>1, <2>1, GotoRecord
<1>3. /\ call' \in [Calls -> CallRecord]
      /\ \A d \in Calls \ {c} : call'[d] = call[d]
      /\ (call[c].pc)' \in Ended
  BY <1>2, BecomeStep DEF AdmitRefused, Goto
<1>4. \A k \in Keys : receipts'[k] # {} => exch[k].end # None /\ receipts'[k] = {exch[k].end}
  BY DEF LoopInv, ExchangesOK, AdmitRefused, hist
<1> QED
  BY <1>1, <1>3, <1>4, EndedOKNext, ClosingStep
  DEF AdmitRefused, finish_invocation, hist, TypeOK

\* The receipt closes the invocation with the end its exchange recorded.
LEMMA ReceiptStep ==
    ASSUME TypeOK, LoopInv, NEW c \in Calls, Receipt(c)
    PROVE  TypeOK' /\ LoopInv'
<1>0. call[c].pc = "receipt" /\ call[c].pc \in Inside
  BY DEF Receipt, At, Inside
<1>1. call[c] \in CallRecord /\ key(c) \in Keys /\ call[c].input \in Inputs
  BY <1>0, Located
<1>2. CASE /\ receipt_ready(c)
           /\ inv' = [inv EXCEPT ![c] = "done"]
           /\ claim' = IF c \in Keyed THEN None ELSE claim
           /\ receipts' = [receipts EXCEPT ![key(c)] = @ \cup {exch[key(c)].end}]
           /\ Goto(c, IF c \in Keyed THEN "returned" ELSE "between")
  <2> DEFINE p == IF c \in Keyed THEN "returned" ELSE "between"
             r == [call[c] EXCEPT !.pc = p]
  <2>1. p \in Points
    BY DEF Points, Ended
  <2>2. r \in CallRecord /\ r.pc = p /\ r.key = call[c].key /\ r.input = call[c].input
    <3> HIDE DEF p
    <3> QED BY <1>1, <2>1, GotoRecord
  <2>3. /\ call' \in [Calls -> CallRecord]
        /\ \A d \in Calls \ {c} : call'[d] = call[d]
        /\ call'[c] = r \/ call'[c].pc \in Ended
    BY <1>2, <2>2, BecomeStep DEF Goto
  <2>4. CallOK(c)' /\ (call[c].pc)' \notin Driving
    <3>1. CASE call'[c] = r /\ c \notin Keyed
      <4>1. c \in Delegates
        BY <3>1 DEF Calls
      <4> QED
        BY <1>1, <2>2, <3>1, <4>1, PointGroups
        DEF CallOK, LocalsOK, OwnerOK, PositionOK, ToolOK, key
    <3>2. CASE call'[c] = r /\ c \in Keyed
      BY <2>2, <3>2, EndedOKNext DEF Ended
    <3> QED
      BY <2>3, <3>1, <3>2, EndedOKNext
  <2>5. exch[key(c)].end \in Outcomes
    BY <1>1, <1>2 DEF receipt_ready, TypeOK
  <2>6. receipts' \in [Keys -> SUBSET Outcomes]
    BY <1>1, <1>2, <2>5 DEF TypeOK
  <2>7. \A k \in Keys :
           receipts'[k] # {} => exch[k].end # None /\ receipts'[k] = {exch[k].end}
    BY <1>1, <1>2 DEF LoopInv, ExchangesOK, receipt_ready, TypeOK
  <2> QED
    BY <1>0, <1>2, <2>3, <2>4, <2>6, <2>7, ClosingStep
    DEF Receipt, receipt_ready, finish_invocation
<1>3. CASE Goto(c, "failed") /\ UNCHANGED <<inv, claim, receipts>>
  BY <1>3, QuietFail DEF Receipt, log, hist, Ended
<1> QED
  BY <1>2, <1>3 DEF Receipt

\* The claim is given back by its owner with nothing open, or not at all.
LEMMA ReleaseCaseStep ==
    ASSUME TypeOK, LoopInv, NEW c \in Calls, ReleaseCase(c)
    PROVE  TypeOK' /\ LoopInv'
<1>0. call[c] \in CallRecord /\ c \in Delegates
  BY DEF ReleaseCase, At, TypeOK, LoopInv, CallOK, LocalsOK
<1>1. CASE verify_owner(c) /\ check_idle /\ claim' = None /\ Goto(c, "returned")
  <2> DEFINE r == [call[c] EXCEPT !.pc = "returned"]
  <2>1. r \in CallRecord /\ r.pc \in Ended
    <3>1. "returned" \in Points /\ "returned" \in Ended
      BY DEF Points, Ended
    <3> QED
      BY <1>0, <3>1, GotoRecord
  <2>2. /\ call' \in [Calls -> CallRecord]
        /\ \A d \in Calls \ {c} : call'[d] = call[d]
        /\ (call[c].pc)' \in Ended
    BY <1>1, <2>1, BecomeStep DEF Goto
  <2>3. \A d \in Calls : CallOK(d)'
    BY <1>1, <2>2, EndedOKNext, OthersOutside, OthersKeep DEF verify_owner
  <2>4. TypeOK'
    BY <1>1, <2>2 DEF TypeOK, ReleaseCase, hist
  <2>5. ToolsHeld'
    BY <1>1 DEF ToolsHeld, ReleaseCase, check_idle, tools_quiescent
  <2>6. ClaimExplained'
    BY <1>1, LoopAssumption DEF ClaimExplained
  <2> QED
    BY <2>3, <2>4, <2>5, <2>6 DEF LoopInv, ExchangesOK, EffectsOnce, ReleaseCase, hist
<1>2. CASE claim' = claim /\ Goto(c, "failed")
  BY <1>2, QuietFail DEF ReleaseCase, log, Ended
<1> QED
  BY <1>1, <1>2 DEF ReleaseCase

-----------------------------------------------------------------------------
(* The exchange.  The step's call is the owner, so it alone drives; what a step *)
(* must show is that its own place in the exchange stays right.                 *)

\* A step of the driving call c that goes on with the same key, after which every
\* open tool is still one of that key's.
LEMMA DrivingStep ==
    ASSUME TypeOK, LoopInv, NEW c \in Calls, call[c].pc \in Inside,
           UNCHANGED <<claim, inv, receipts>>,
           call' \in [Calls -> CallRecord],
           \A d \in Calls \ {c} : call'[d] = call[d],
           CallOK(c)',
           \A w \in intent' \ done' : (call[c].pc)' \in Driving => key(c)' = w[1],
           ExchangesOK', EffectsOnce', running' \cap done' = {}, TypeOK'
    PROVE  LoopInv'
<1>0. claim = c /\ claim # None
  BY Located, LoopAssumption DEF Calls
<1>1. \A d \in Calls : CallOK(d)'
  BY <1>0, OthersOutside, OthersKeep
<1>2. \A d \in Calls \ {c} : (call[d].pc)' \notin Driving
  BY <1>0, OthersOutside, PointGroups
<1>3. ToolsHeld'
  BY <1>0, <1>2 DEF ToolsHeld
<1>4. ClaimExplained'
  BY DEF LoopInv, ClaimExplained
<1> QED
  BY <1>1, <1>3, <1>4 DEF LoopInv

\* The admission: of a new key, whose exchange opens with nothing begun; or of a
\* known one, which is only read.
LEMMA AdmitStep ==
    ASSUME TypeOK, LoopInv, NEW c \in Calls, Admit(c)
    PROVE  TypeOK' /\ LoopInv'
<1>0. call[c].pc = "admit" /\ call[c].pc \in Inside
  BY DEF Admit, At, Inside
<1>1. /\ call[c] \in CallRecord /\ key(c) \in Keys /\ call[c].input \in Inputs
      /\ claim = c /\ inv[c] = "open"
  BY <1>0, Located
<1>2. CASE /\ admit_new(c)
           /\ exch' = [exch EXCEPT ![key(c)] = [input |-> call[c].input, end |-> None]]
           /\ Goto(c, "user")
  <2> DEFINE r == [call[c] EXCEPT !.pc = "user"]
  <2>1. "user" \in Points
    BY DEF Points, TxPoints
  <2>2. /\ r \in CallRecord /\ r.pc = "user" /\ r.key = call[c].key
        /\ r.input = call[c].input
    BY <1>1, <2>1, GotoRecord
  <2>3. /\ call' \in [Calls -> CallRecord]
        /\ \A d \in Calls \ {c} : call'[d] = call[d]
        /\ call'[c] = r \/ call'[c].pc \in Ended
    BY <1>2, <2>2, BecomeStep DEF Goto
  <2>4. /\ exch' \in [Keys -> [input : Inputs \cup {None}, end : Outcomes \cup {None}]]
        /\ exch'[key(c)].input # None /\ exch'[key(c)].end = None
        /\ \A k \in Keys : k # key(c) => exch'[k] = exch[k]
        /\ exch[key(c)].input = None /\ exch[key(c)].end = None
    BY <1>1, <1>2, LoopAssumption DEF TypeOK, admit_new, NoExchange
  <2>5. \A w \in Work : w[1] = key(c) => w \notin effects /\ w \notin intent
    BY <2>4 DEF LoopInv, ExchangesOK
  <2>6. CallOK(c)'
    <3>1. CASE call'[c] = r
      <4>1. LocalsOK(c)' /\ ToolOK(c)'
        BY <1>1, <2>2, <3>1 DEF LocalsOK, ToolOK, key
      <4>2. OwnerOK(c)'
        BY <1>1, <2>2, <2>4, <3>1 DEF OwnerOK, Admit, key
      <4>3. PositionOK(c)'
        BY <2>2, <2>5, <3>1 DEF PositionOK, Admit, key, hist
      <4> QED
        BY <4>1, <4>2, <4>3 DEF CallOK
    <3> QED
      BY <2>3, <3>1, EndedOKNext
  <2>7. TypeOK'
    BY <2>3, <2>4 DEF TypeOK, Admit, hist
  <2>8. ExchangesOK'
    <3>1. \A w \in effects \cup intent : w \in Work /\ w[1] \in Keys
      BY DEF TypeOK, Work
    <3> QED
      BY <2>4, <3>1 DEF LoopInv, ExchangesOK, Admit, hist
  <2>9. intent' \ done' = {} /\ running' \cap done' = {} /\ EffectsOnce'
    BY <1>2 DEF Admit, admit_new, tools_quiescent, LoopInv, EffectsOnce, hist
  <2> QED
    BY <1>0, <2>3, <2>6, <2>7, <2>8, <2>9, DrivingStep DEF Admit, hist
<1>3. CASE exch' = exch /\ Goto(c, "receipt")
  <2> DEFINE r == [call[c] EXCEPT !.pc = "receipt"]
  <2>1. "receipt" \in Points /\ "receipt" \notin Driving
    BY DEF Points, TxPoints, Driving
  <2>2. /\ r \in CallRecord /\ r.pc = "receipt" /\ r.key = call[c].key
        /\ r.input = call[c].input
    BY <1>1, <2>1, GotoRecord
  <2>3. ASSUME call'[c] = r PROVE CallOK(c)' /\ r.pc \notin Driving
    BY <1>1, <2>1, <2>2, <2>3
    DEF CallOK, LocalsOK, OwnerOK, PositionOK, ToolOK, key, Admit
  <2> QED
    BY <1>3, <2>2, <2>3, QuietBecome DEF Admit, Goto, log
<1> QED
  BY <1>2, <1>3 DEF Admit

\* Where the owner stands in a transaction that appends a row: it cannot have lost
\* the claim, so the row is written.
LEMMA AppendWrites ==
    ASSUME TypeOK, LoopInv, NEW c \in Calls, call[c].pc \in Driving, NEW r, Append(c, r)
    PROVE  /\ rows' = [rows EXCEPT ![key(c)] = @ + 1] /\ rows' \in [Keys -> Nat]
           /\ Become(c, r)
           /\ UNCHANGED <<claim, inv, exch, running, hist>>
<1>1. verify_owner(c) /\ key(c) \in Keys
  BY Located, PointGroups DEF verify_owner
<1> QED
  BY <1>1 DEF Append, TypeOK

\* A row is appended and nothing else is recorded: the call moves on as r.
LEMMA AppendStep ==
    ASSUME TypeOK, LoopInv, NEW c \in Calls, call[c].pc \in Driving,
           NEW r \in CallRecord, Append(c, r), UNCHANGED <<intent, done>>,
           r.pc \in Driving, r.key = key(c),
           call'[c] = r => LocalsOK(c)' /\ PositionOK(c)' /\ ToolOK(c)'
    PROVE  TypeOK' /\ LoopInv'
<1>0. call[c].pc \in Inside
  BY PointGroups
<1>1. /\ rows' \in [Keys -> Nat] /\ Become(c, r)
      /\ UNCHANGED <<claim, inv, exch, running, hist>>
  BY AppendWrites
<1>2. /\ call' \in [Calls -> CallRecord]
      /\ \A d \in Calls \ {c} : call'[d] = call[d]
      /\ call'[c] = r \/ call'[c].pc \in Ended
  BY <1>1, BecomeStep
<1>3. CallOK(c)' /\ ((call[c].pc)' \in Driving => key(c)' = key(c))
  <2>1. CASE call'[c] = r
    <3>1. OwnerOK(c)'
      BY <1>0, <1>1, <2>1 DEF LoopInv, CallOK, OwnerOK, key
    <3> QED
      BY <2>1, <3>1 DEF CallOK, key
  <2> QED
    BY <1>2, <2>1, EndedOKNext
<1>4. TypeOK'
  BY <1>1, <1>2 DEF TypeOK, hist
<1>5. \A w \in intent \ done : key(c) = w[1]
  BY DEF LoopInv, ToolsHeld
<1>6. ExchangesOK' /\ EffectsOnce' /\ running' \cap done' = {}
  BY <1>1 DEF LoopInv, ExchangesOK, EffectsOnce, hist
<1> QED
  BY <1>0, <1>1, <1>2, <1>3, <1>4, <1>5, <1>6, DrivingStep DEF hist

\* The user's row is written by the owner of the claim, or the call fails.
LEMMA UserRowStep ==
    ASSUME TypeOK, LoopInv, NEW c \in Calls, UserRow(c)
    PROVE  TypeOK' /\ LoopInv'
<1> DEFINE r == [call[c] EXCEPT !.pc = "turn", !.turn = 1]
<1>0. call[c].pc = "user" /\ call[c].pc \in Driving
  BY PointGroups DEF UserRow, At
<1>1. call[c] \in CallRecord /\ key(c) \in Keys /\ call[c].input \in Inputs
  BY <1>0, Located, PointGroups
<1>2. "turn" \in Points /\ 1 \in 1..(MaxTurns + 1)
  BY LoopAssumption DEF Points, Inside
<1>3. /\ r \in CallRecord /\ r.pc = "turn" /\ r.key = call[c].key
      /\ r.input = call[c].input
  BY <1>1, <1>2 DEF CallRecord
<1>4. Append(c, r) /\ UNCHANGED <<intent, done, effects>> /\ r.pc \in Driving
  BY <1>0, <1>3, AppendWrites, PointGroups DEF UserRow, hist
<1>5. ASSUME call'[c] = r PROVE LocalsOK(c)' /\ PositionOK(c)' /\ ToolOK(c)'
  <2>1. PositionOK(c)'
    BY <1>0, <1>3, <1>4, <1>5 DEF LoopInv, CallOK, PositionOK, key
  <2> QED
    BY <1>1, <1>3, <1>5, <2>1 DEF LocalsOK, ToolOK, key
<1> QED
  BY <1>0, <1>3, <1>4, <1>5, AppendStep DEF key

\* A row with which the exchange comes to its end.
LEMMA AppendEnd ==
    ASSUME TypeOK, LoopInv, NEW c \in Calls, call[c].pc \in Driving, NEW o \in Outcomes,
           Append(c, [call[c] EXCEPT !.pc = "end", !.end = o]), UNCHANGED <<intent, done>>
    PROVE  TypeOK' /\ LoopInv'
<1> DEFINE r == [call[c] EXCEPT !.pc = "end", !.end = o]
<1>0. call[c] \in CallRecord /\ key(c) \in Keys /\ call[c].input \in Inputs
  BY Located, PointGroups
<1>1. /\ r \in CallRecord /\ r.pc = "end" /\ r.end = o
      /\ r.key = call[c].key /\ r.input = call[c].input
  BY <1>0, EndRecord
<1>2. ASSUME call'[c] = r PROVE LocalsOK(c)' /\ PositionOK(c)' /\ ToolOK(c)'
  BY <1>0, <1>1, <1>2 DEF LocalsOK, PositionOK, ToolOK, key
<1>3. r.pc \in Driving
  BY <1>1, PointGroups
<1> QED
  BY <1>1, <1>2, <1>3, AppendStep DEF key

\* The cancellation row leads its call to the end of the exchange.
LEMMA CancelRowStep ==
    ASSUME TypeOK, LoopInv, NEW c \in Calls, CancelRow(c)
    PROVE  TypeOK' /\ LoopInv'
  BY AppendEnd, PointGroups DEF CancelRow, At, Outcomes

\* The assistant's row leads its call to its tools, or to the end of the exchange.
LEMMA AssistantRowStep ==
    ASSUME TypeOK, LoopInv, NEW c \in Calls, AssistantRow(c)
    PROVE  TypeOK' /\ LoopInv'
<1>0. call[c].pc = "assistant" /\ call[c].pc \in Driving
  BY PointGroups DEF AssistantRow, At
<1>1. CASE Append(c, [call[c] EXCEPT !.pc = "tool"])
  <2> DEFINE r == [call[c] EXCEPT !.pc = "tool"]
  <2>1. call[c] \in CallRecord /\ key(c) \in Keys /\ call[c].input \in Inputs
    BY <1>0, Located, PointGroups
  <2>2. "tool" \in Points
    BY DEF Points, Inside
  <2>3. /\ r \in CallRecord /\ r.pc = "tool" /\ r.key = call[c].key
        /\ r.input = call[c].input /\ r.turn = call[c].turn /\ r.tool = call[c].tool
        /\ r.tools = call[c].tools
    BY <2>1, <2>2, GotoRecord
  <2>4. UNCHANGED <<intent, done, effects>> /\ r.pc \in Driving
    BY <1>0, <1>1, <2>3, AppendWrites, PointGroups DEF AssistantRow, hist
  <2>5. call[c].turn <= MaxTurns /\ call[c].tool = 1
    BY <1>0 DEF LoopInv, CallOK, LocalsOK
  <2>6. ASSUME call'[c] = r PROVE LocalsOK(c)' /\ PositionOK(c)' /\ ToolOK(c)'
    <3>1. PositionOK(c)'
      BY <1>0, <2>3, <2>4, <2>5, <2>6
      DEF LoopInv, CallOK, PositionOK, Before, BeforeTool, key
    <3> QED
      BY <2>1, <2>3, <2>5, <2>6, <3>1 DEF LocalsOK, ToolOK, key, CallRecord
  <2> QED
    BY <1>0, <1>1, <2>3, <2>4, <2>6, AppendStep DEF key
<1> QED
  BY <1>0, <1>1, AppendEnd DEF AssistantRow, Outcomes

\* The request to the provider: the first piece of work of a new turn.
LEMMA StreamStep ==
    ASSUME TypeOK, LoopInv, NEW c \in Calls, Stream(c)
    PROVE  TypeOK' /\ LoopInv'
<1>0. call[c].pc = "check" /\ call[c].pc \in Driving /\ call[c].pc \in Inside
  BY PointGroups DEF Stream, At
<1>1. CASE Start(Request(c)) /\ Goto(c, "stream")
  <2> DEFINE r == [call[c] EXCEPT !.pc = "stream"]
  <2>1. call[c] \in CallRecord /\ key(c) \in Keys /\ call[c].input \in Inputs
    BY <1>0, Located
  <2>2. "stream" \in Points
    BY DEF Points, Inside
  <2>3. /\ r \in CallRecord /\ r.pc = "stream" /\ r.key = call[c].key
        /\ r.input = call[c].input /\ r.turn = call[c].turn
    BY <2>1, <2>2, GotoRecord
  <2>4. /\ call' \in [Calls -> CallRecord]
        /\ \A d \in Calls \ {c} : call'[d] = call[d]
        /\ call'[c] = r \/ call'[c].pc \in Ended
    BY <1>1, <2>3, BecomeStep DEF Goto
  <2>5. call[c].turn <= MaxTurns /\ call[c].turn \in 1..(MaxTurns + 1)
    BY <1>0, <2>1 DEF LoopInv, CallOK, LocalsOK, CallRecord
  <2>6. Request(c) \in Work
    BY <2>1, <2>5, LoopAssumption DEF Request, Work
  <2>7. Request(c) \notin effects
    BY <1>0, <2>5, <2>6 DEF LoopInv, CallOK, PositionOK, Before, Request
  <2>8. effects' = effects \cup {Request(c)} /\ repeated' = repeated
    BY <1>1, <2>7 DEF Start
  <2>9. CallOK(c)' /\ ((call[c].pc)' \in Driving => key(c)' = key(c))
    <3>1. CASE call'[c] = r
      <4>1. LocalsOK(c)' /\ ToolOK(c)'
        BY <2>1, <2>3, <2>5, <3>1 DEF LocalsOK, ToolOK, key
      <4>2. OwnerOK(c)'
        BY <1>0, <2>3, <3>1 DEF LoopInv, CallOK, OwnerOK, Stream, key, log
      <4>3. PositionOK(c)'
        BY <1>0, <2>3, <2>8, <3>1
        DEF LoopInv, CallOK, PositionOK, Before, Request, Stream, key, log
      <4> QED
        BY <2>3, <3>1, <4>1, <4>2, <4>3 DEF CallOK, key
    <3> QED
      BY <2>4, <3>1, EndedOKNext
  <2>10. TypeOK'
    BY <2>4, <2>6, <2>8 DEF TypeOK, Stream, log
  <2>11. \A w \in intent \ done : key(c) = w[1]
    BY <1>0 DEF LoopInv, ToolsHeld
  <2>12. exch[Request(c)[1]].input # None
    BY <1>0 DEF LoopInv, CallOK, OwnerOK, Request
  <2>13. ExchangesOK' /\ EffectsOnce' /\ running' \cap done' = {}
    BY <2>8, <2>12 DEF LoopInv, ExchangesOK, EffectsOnce, Stream, log
  <2> QED
    BY <1>0, <2>4, <2>9, <2>10, <2>11, <2>13, DrivingStep DEF Stream, log
<1>2. CASE Goto(c, "cancel") /\ UNCHANGED <<effects, repeated>>
  BY <1>0, <1>2, QuietToCancel DEF Stream, hist
<1>3. CASE Goto(c, "failed") /\ UNCHANGED <<effects, repeated>>
  BY <1>3, QuietFail DEF Stream, hist, Ended
<1> QED
  BY <1>1, <1>2, <1>3 DEF Stream

\* The tool at which a call stands is a piece of the work of its key.
LEMMA ToolInWork ==
    ASSUME TypeOK, LoopInv, NEW c \in Calls,
           call[c].pc \in {"intent", "exec", "wait", "result"}
    PROVE  /\ Tool(c) \in Work /\ Tool(c)[1] = key(c)
           /\ Tool(c)[2] = call[c].turn /\ Tool(c)[3] = call[c].tool
           /\ call[c].turn \in 1..MaxTurns /\ call[c].tool \in 1..MaxTools
<1>1. call[c] \in CallRecord /\ key(c) \in Keys
  BY Located, PointGroups
<1>2. call[c].turn <= MaxTurns /\ call[c].tool <= call[c].tools
  BY DEF LoopInv, CallOK, LocalsOK
<1>3. call[c].turn \in 1..MaxTurns /\ call[c].tool \in 1..MaxTools
  BY <1>1, <1>2, LoopAssumption DEF CallRecord
<1> QED
  BY <1>1, <1>3 DEF Tool, Work

\* The intent row: the tool is announced before it is started.
LEMMA ToolIntentStep ==
    ASSUME TypeOK, LoopInv, NEW c \in Calls, ToolIntent(c)
    PROVE  TypeOK' /\ LoopInv'
<1>0. call[c].pc = "intent" /\ call[c].pc \in Driving /\ call[c].pc \in Inside
  BY PointGroups DEF ToolIntent, At
<1>1. CASE intent' = intent \cup {Tool(c)} /\ Goto(c, "exec")
  <2> DEFINE r == [call[c] EXCEPT !.pc = "exec"]
  <2>1. call[c] \in CallRecord /\ key(c) \in Keys /\ call[c].input \in Inputs
    BY <1>0, Located
  <2>2. "exec" \in Points
    BY DEF Points, Inside
  <2>3. /\ r \in CallRecord /\ r.pc = "exec" /\ r.key = call[c].key
        /\ r.input = call[c].input /\ r.turn = call[c].turn /\ r.tool = call[c].tool
        /\ r.tools = call[c].tools
    BY <2>1, <2>2, GotoRecord
  <2>4. /\ call' \in [Calls -> CallRecord]
        /\ \A d \in Calls \ {c} : call'[d] = call[d]
        /\ call'[c] = r \/ call'[c].pc \in Ended
    BY <1>1, <2>3, BecomeStep DEF Goto
  <2>5. /\ Tool(c) \in Work /\ Tool(c)[1] = key(c)
        /\ Tool(c)[2] = call[c].turn /\ Tool(c)[3] = call[c].tool
        /\ call[c].turn \in 1..MaxTurns /\ call[c].tool \in 1..MaxTools
    BY <1>0, ToolInWork
  <2>6. Tool(c) \notin done
    <3>1. Tool(c) \notin intent
      BY <1>0, <2>5 DEF LoopInv, CallOK, PositionOK, Before, BeforeTool
    <3> QED
      BY <3>1 DEF TypeOK
  <2>7. CallOK(c)' /\ ((call[c].pc)' \in Driving => key(c)' = key(c))
    <3>1. CASE call'[c] = r
      <4>1. LocalsOK(c)'
        BY <1>0, <2>1, <2>3, <3>1 DEF LoopInv, CallOK, LocalsOK, key
      <4>2. OwnerOK(c)'
        BY <1>0, <2>3, <3>1 DEF LoopInv, CallOK, OwnerOK, ToolIntent, key
      <4>3. PositionOK(c)'
        <5> SUFFICES ASSUME NEW w \in Work, w[1] = key(c), w \in effects \/ w \in intent'
                     PROVE  UpToTool(c, w) /\ (w \in effects => BeforeTool(c, w))
          BY <2>3, <3>1
          DEF PositionOK, ToolIntent, key, hist, Before, BeforeTool, UpToTool
        <5>1. w \in effects \/ w \in intent => BeforeTool(c, w)
          BY <1>0 DEF LoopInv, CallOK, PositionOK
        <5>2. w[2] \in Nat /\ w[3] \in Nat
          BY DEF Work
        <5> QED
          BY <1>1, <2>5, <5>1, <5>2 DEF Before, BeforeTool, UpToTool
      <4>4. ToolOK(c)'
        <5>1. Tool(c)' = Tool(c)
          BY <2>3, <3>1 DEF Tool, key
        <5> QED
          BY <1>1, <2>3, <2>6, <3>1, <5>1 DEF ToolOK, ToolIntent
      <4> QED
        BY <2>3, <3>1, <4>1, <4>2, <4>3, <4>4 DEF CallOK, key
    <3> QED
      BY <2>4, <3>1, EndedOKNext
  <2>8. TypeOK'
    BY <1>1, <2>4, <2>5 DEF TypeOK, ToolIntent, hist
  <2>9. \A w \in intent' \ done' : key(c) = w[1]
    BY <1>0, <1>1, <2>5 DEF LoopInv, ToolsHeld, ToolIntent
  <2>10. ExchangesOK' /\ EffectsOnce' /\ running' \cap done' = {}
    BY <1>0, <1>1, <2>5
    DEF LoopInv, CallOK, OwnerOK, ExchangesOK, EffectsOnce, ToolIntent, hist
  <2> QED
    BY <1>0, <2>4, <2>7, <2>8, <2>9, <2>10, DrivingStep DEF ToolIntent, hist
<1>2. CASE intent' = intent /\ Goto(c, "failed")
  BY <1>2, QuietFail DEF ToolIntent, log, Ended
<1> QED
  BY <1>1, <1>2 DEF ToolIntent

\* The tool is started: announced, not yet done, and never started before.
LEMMA ExecuteToolStep ==
    ASSUME TypeOK, LoopInv, NEW c \in Calls, ExecuteTool(c)
    PROVE  TypeOK' /\ LoopInv'
<1>0. call[c].pc = "exec" /\ call[c].pc \in Driving /\ call[c].pc \in Inside
  BY PointGroups DEF ExecuteTool, At
<1>1. CASE Goto(c, "wait") /\ running' = running \cup {Tool(c)} /\ Start(Tool(c))
  <2> DEFINE r == [call[c] EXCEPT !.pc = "wait"]
  <2>1. call[c] \in CallRecord /\ key(c) \in Keys /\ call[c].input \in Inputs
    BY <1>0, Located
  <2>2. "wait" \in Points
    BY DEF Points, Inside
  <2>3. /\ r \in CallRecord /\ r.pc = "wait" /\ r.key = call[c].key
        /\ r.input = call[c].input /\ r.turn = call[c].turn /\ r.tool = call[c].tool
        /\ r.tools = call[c].tools
    BY <2>1, <2>2, GotoRecord
  <2>4. /\ call' \in [Calls -> CallRecord]
        /\ \A d \in Calls \ {c} : call'[d] = call[d]
        /\ call'[c] = r \/ call'[c].pc \in Ended
    BY <1>1, <2>3, BecomeStep DEF Goto
  <2>5. /\ Tool(c) \in Work /\ Tool(c)[1] = key(c)
        /\ Tool(c)[2] = call[c].turn /\ Tool(c)[3] = call[c].tool
        /\ call[c].turn \in 1..MaxTurns /\ call[c].tool \in 1..MaxTools
    BY <1>0, ToolInWork
  <2>6. Tool(c) \notin effects
    BY <1>0, <2>5 DEF LoopInv, CallOK, PositionOK, Before, BeforeTool
  <2>7. effects' = effects \cup {Tool(c)} /\ repeated' = repeated
    BY <1>1, <2>6 DEF Start
  <2>8. Tool(c) \in intent \ done
    BY <1>0 DEF LoopInv, CallOK, ToolOK
  <2>9. CallOK(c)' /\ ((call[c].pc)' \in Driving => key(c)' = key(c))
    <3>1. CASE call'[c] = r
      <4>1. LocalsOK(c)'
        BY <1>0, <2>1, <2>3, <3>1 DEF LoopInv, CallOK, LocalsOK, key
      <4>2. OwnerOK(c)'
        BY <1>0, <2>3, <3>1 DEF LoopInv, CallOK, OwnerOK, ExecuteTool, key, log
      <4>3. PositionOK(c)'
        BY <1>0, <2>3, <2>5, <2>7, <3>1
        DEF LoopInv, CallOK, PositionOK, Before, BeforeTool, UpToTool, ExecuteTool, key, log
      <4>4. ToolOK(c)'
        <5>1. Tool(c)' = Tool(c)
          BY <2>3, <3>1 DEF Tool, key
        <5> QED
          BY <2>3, <2>8, <3>1, <5>1 DEF ToolOK, ExecuteTool, log
      <4> QED
        BY <2>3, <3>1, <4>1, <4>2, <4>3, <4>4 DEF CallOK, key
    <3> QED
      BY <2>4, <3>1, EndedOKNext
  <2>10. TypeOK'
    BY <1>1, <2>4, <2>5, <2>7, <2>8 DEF TypeOK, ExecuteTool, log
  <2>11. \A w \in intent \ done : key(c) = w[1]
    BY <1>0 DEF LoopInv, ToolsHeld
  <2>12. ExchangesOK' /\ EffectsOnce' /\ running' \cap done' = {}
    BY <1>1, <2>7, <2>8 DEF LoopInv, ExchangesOK, EffectsOnce, ExecuteTool, log
  <2> QED
    BY <1>0, <2>4, <2>9, <2>10, <2>11, <2>12, DrivingStep DEF ExecuteTool, log
<1>2. CASE Goto(c, "cancel") /\ UNCHANGED <<running, effects, repeated>>
  BY <1>0, <1>2, QuietToCancel DEF ExecuteTool, hist
<1> QED
  BY <1>1, <1>2 DEF ExecuteTool

\* The result and its tool_done row, once the tool no longer runs.
LEMMA ToolResultStep ==
    ASSUME TypeOK, LoopInv, NEW c \in Calls, ToolResult(c)
    PROVE  TypeOK' /\ LoopInv'
<1> DEFINE r == [call[c] EXCEPT !.pc = "tool", !.tool = @ + 1]
<1>0. call[c].pc = "result" /\ call[c].pc \in Driving /\ call[c].pc \in Inside
  BY PointGroups DEF ToolResult, At
<1>1. call[c] \in CallRecord /\ key(c) \in Keys /\ call[c].input \in Inputs /\ claim = c
  BY <1>0, Located
<1>2. /\ Tool(c) \in Work /\ Tool(c)[1] = key(c)
      /\ Tool(c)[2] = call[c].turn /\ Tool(c)[3] = call[c].tool
      /\ call[c].turn \in 1..MaxTurns /\ call[c].tool \in 1..MaxTools
  BY <1>0, ToolInWork
<1>3. "tool" \in Points /\ call[c].tool + 1 \in 1..(MaxTools + 1)
  BY <1>2, LoopAssumption DEF Points, Inside
<1>4. /\ r \in CallRecord /\ r.pc = "tool" /\ r.key = call[c].key
      /\ r.input = call[c].input /\ r.turn = call[c].turn /\ r.tool = call[c].tool + 1
      /\ r.tools = call[c].tools
  BY <1>1, <1>3 DEF CallRecord
<1>5. /\ rows' \in [Keys -> Nat] /\ Become(c, r)
      /\ UNCHANGED <<claim, inv, exch, running, hist>>
  BY <1>0, AppendWrites DEF ToolResult
<1>6. done' = done \cup {Tool(c)} /\ intent' = intent
  BY <1>1 DEF ToolResult, verify_owner
<1>7. Tool(c) \in intent /\ Tool(c) \notin running
  BY <1>0 DEF LoopInv, CallOK, ToolOK
<1>8. /\ call' \in [Calls -> CallRecord]
      /\ \A d \in Calls \ {c} : call'[d] = call[d]
      /\ call'[c] = r \/ call'[c].pc \in Ended
  BY <1>4, <1>5, BecomeStep
<1>9. CallOK(c)' /\ ((call[c].pc)' \in Driving => key(c)' = key(c))
  <2>1. CASE call'[c] = r
    <3>1. LocalsOK(c)'
      BY <1>0, <1>1, <1>2, <1>4, <2>1 DEF LoopInv, CallOK, LocalsOK, key, CallRecord
    <3>2. OwnerOK(c)'
      BY <1>0, <1>4, <1>5, <2>1 DEF LoopInv, CallOK, OwnerOK, key
    <3>3. PositionOK(c)'
      BY <1>0, <1>2, <1>4, <1>5, <1>6, <2>1
      DEF LoopInv, CallOK, PositionOK, Before, BeforeTool, UpToTool, key, hist, Work
    <3>4. ToolOK(c)'
      BY <1>4, <2>1 DEF ToolOK
    <3> QED
      BY <1>4, <2>1, <3>1, <3>2, <3>3, <3>4 DEF CallOK, key
  <2> QED
    BY <1>8, <2>1, EndedOKNext
<1>10. TypeOK'
  BY <1>5, <1>6, <1>7, <1>8 DEF TypeOK, hist
<1>11. \A w \in intent' \ done' : key(c) = w[1]
  BY <1>0, <1>6 DEF LoopInv, ToolsHeld
<1>12. ExchangesOK' /\ EffectsOnce' /\ running' \cap done' = {}
  BY <1>5, <1>6, <1>7 DEF LoopInv, ExchangesOK, EffectsOnce, hist
<1> QED
  BY <1>0, <1>5, <1>8, <1>9, <1>10, <1>11, <1>12, DrivingStep DEF hist

\* The exchange gets its outcome, once.
LEMMA ExchangeDoneStep ==
    ASSUME TypeOK, LoopInv, NEW c \in Calls, ExchangeDone(c)
    PROVE  TypeOK' /\ LoopInv'
<1>0. call[c].pc = "end" /\ call[c].pc \in Driving /\ call[c].pc \in Inside
  BY PointGroups DEF ExchangeDone, At
<1>1. CASE exch' = [exch EXCEPT ![key(c)].end = call[c].end] /\ Goto(c, "receipt")
  <2> DEFINE r == [call[c] EXCEPT !.pc = "receipt"]
  <2>1. call[c] \in CallRecord /\ key(c) \in Keys /\ call[c].input \in Inputs
    BY <1>0, Located
  <2>2. "receipt" \in Points /\ "receipt" \notin Driving /\ "receipt" \in Inside
    BY DEF Points, Inside, Driving
  <2>3. /\ r \in CallRecord /\ r.pc = "receipt" /\ r.key = call[c].key
        /\ r.input = call[c].input
    BY <2>1, <2>2, GotoRecord
  <2>4. /\ call' \in [Calls -> CallRecord]
        /\ \A d \in Calls \ {c} : call'[d] = call[d]
        /\ call'[c] = r \/ call'[c].pc \in Ended
    BY <1>1, <2>3, BecomeStep DEF Goto
  <2>5. call[c].end \in Outcomes /\ exch[key(c)].input # None /\ exch[key(c)].end = None
    BY <1>0 DEF LoopInv, CallOK, LocalsOK, OwnerOK
  <2>6. /\ exch' \in [Keys -> [input : Inputs \cup {None}, end : Outcomes \cup {None}]]
        /\ exch'[key(c)].input = exch[key(c)].input
        /\ \A k \in Keys : k # key(c) => exch'[k] = exch[k]
    BY <1>1, <2>1, <2>5 DEF TypeOK
  <2>7. CallOK(c)' /\ (call[c].pc)' \notin Driving
    <3>1. CASE call'[c] = r
      <4>1. LocalsOK(c)' /\ ToolOK(c)' /\ PositionOK(c)'
        BY <2>1, <2>3, <3>1 DEF LocalsOK, ToolOK, PositionOK, key
      <4>2. OwnerOK(c)'
        BY <1>0, <2>2, <2>3, <3>1 DEF LoopInv, CallOK, OwnerOK, ExchangeDone
      <4> QED
        BY <2>2, <2>3, <3>1, <4>1, <4>2 DEF CallOK
    <3> QED
      BY <2>4, <3>1, EndedOKNext
  <2>8. TypeOK'
    BY <2>4, <2>6 DEF TypeOK, ExchangeDone, hist
  <2>9. receipts[key(c)] = {}
    BY <2>1, <2>5 DEF LoopInv, ExchangesOK
  <2>10. ExchangesOK'
    <3>1. \A w \in effects \cup intent : w \in Work /\ w[1] \in Keys
      BY DEF TypeOK, Work
    <3> QED
      BY <2>5, <2>6, <2>9, <3>1 DEF LoopInv, ExchangesOK, ExchangeDone, hist
  <2>11. EffectsOnce' /\ running' \cap done' = {}
    BY DEF LoopInv, EffectsOnce, ExchangeDone, hist
  <2> QED
    BY <1>0, <2>4, <2>7, <2>8, <2>10, <2>11, DrivingStep DEF ExchangeDone, hist
<1>2. CASE exch' = exch /\ Goto(c, "failed")
  BY <1>2, QuietFail DEF ExchangeDone, log, Ended
<1> QED
  BY <1>1, <1>2 DEF ExchangeDone

-----------------------------------------------------------------------------
(* The invariant and what follows from it *)

\* An empty log, no call and no tool satisfy the invariant.
LEMMA LoopInit == Init => TypeOK /\ LoopInv
<1> SUFFICES ASSUME Init PROVE TypeOK /\ LoopInv
  OBVIOUS
<1>1. \A c \in Calls : call[c] = Rest("new") /\ call[c].pc = "new"
  BY RestTyped DEF Init
<1>2. TypeOK
  BY RestTyped DEF Init, TypeOK, NoExchange
<1>3. \A c \in Calls : CallOK(c)
  BY <1>1, PointGroups DEF CallOK, LocalsOK, OwnerOK, PositionOK, ToolOK
<1>4. ToolsHeld /\ ExchangesOK /\ EffectsOnce /\ ClaimExplained /\ running \cap done = {}
  BY LoopAssumption
  DEF Init, ToolsHeld, ExchangesOK, EffectsOnce, ClaimExplained, NoExchange
<1> QED
  BY <1>2, <1>3, <1>4 DEF LoopInv

\* Every action keeps the types and the invariant.
LEMMA LoopNext ==
    ASSUME TypeOK, LoopInv, [Next]_vars
    PROVE  TypeOK' /\ LoopInv'
<1>1. CASE Next
  BY <1>1, SubmitStep, AcquireCaseStep, BeginStep, AdmitStep, AdmitRefusedStep, UserRowStep,
     TurnStep, StreamStep, StreamEndsStep, AssistantRowStep, NextToolStep, ToolIntentStep,
     ExecuteToolStep, ToolWaitStep, ToolResultStep, CancelRowStep, ExchangeDoneStep,
     ReceiptStep, BetweenStep, ReleaseCaseStep, FlagStep, FailStep, ToolReturnsStep, KillStep
  DEF Next
<1>2. CASE UNCHANGED vars
  <2>1. TypeOK'
    BY <1>2 DEF TypeOK, vars
  <2>2. \A c \in Calls : CallOK(c)'
    BY <1>2, OthersKeep DEF vars, log
  <2>3. ToolsHeld'
    BY <1>2 DEF LoopInv, ToolsHeld, key, vars
  <2> QED
    BY <1>2, <2>1, <2>2, <2>3 DEF LoopInv, ExchangesOK, EffectsOnce, ClaimExplained, vars
<1> QED
  BY <1>1, <1>2

\* The inductive invariant holds in every behaviour.
LEMMA LoopInvariant == Spec => [](TypeOK /\ LoopInv)
  BY LoopInit, LoopNext, PTL DEF Spec

\* Every field of the log and of the calls keeps its type, and no tool runs or is
\* recorded done without the intent row that ToolIntent wrote.
THEOREM LoopTypeCorrect == Spec => []TypeOK
  BY LoopInvariant, PTL

\* One call at a time is between the opening and the closing of its invocation:
\* run_invocation's claim excludes every other, whatever is dropped or killed.
THEOREM SoleDriverHolds == Spec => []SoleDriver
<1>1. LoopInv => SoleDriver
  BY DEF LoopInv, CallOK, OwnerOK, SoleDriver
<1> QED
  BY <1>1, LoopInvariant, PTL

\* A tool that nobody waits for keeps the claim held and every exchange but its
\* own closed, as long as its blocking closure may act.
THEOREM DetachedToolKeepsRunHolds == Spec => []DetachedToolKeepsRun
<1>1. TypeOK /\ LoopInv => DetachedToolKeepsRun
  <2> SUFFICES ASSUME TypeOK, LoopInv, NEW w \in running
               PROVE  /\ claim # None
                      /\ \A c \in Calls : call[c].pc \in Driving => key(c) = w[1]
    BY DEF DetachedToolKeepsRun
  <2>1. w \in intent \ done
    BY DEF TypeOK, LoopInv
  <2> QED
    BY <2>1 DEF LoopInv, ToolsHeld
<1> QED
  BY <1>1, LoopInvariant, PTL

\* No provider request and no tool run is started twice under a request key.
THEOREM EffectsOnceHolds == Spec => []EffectsOnce
<1>1. LoopInv => EffectsOnce
  BY DEF LoopInv
<1> QED
  BY <1>1, LoopInvariant, PTL

\* A keyed call's claim is never left without its open invocation: begin writes
\* the two in one transaction, and the release takes both.
THEOREM ClaimExplainedHolds == Spec => []ClaimExplained
<1>1. LoopInv => ClaimExplained
  BY DEF LoopInv
<1> QED
  BY <1>1, LoopInvariant, PTL

\* An exchange whose outcome is recorded has no driver, so no step changes it.
LEMMA AnsweredFinal ==
    ASSUME TypeOK, LoopInv, Next, NEW k \in Keys, receipts[k] # {}
    PROVE  LeavesExchange(k)
<1>1. exch[k].end # None /\ receipts[k] = {exch[k].end}
  BY DEF LoopInv, ExchangesOK
<1>2. ASSUME NEW c \in Calls, call[c].pc \in Driving PROVE key(c) \in Keys \ {k}
  BY <1>1, <1>2, Located, PointGroups DEF LoopInv, CallOK, OwnerOK
<1>3. UNCHANGED <<log, hist>> => LeavesExchange(k)
  BY <1>1 DEF log, hist, LeavesExchange
<1>4. ASSUME NEW c \in Calls, NEW r, Append(c, r), call[c].pc \in Driving,
             intent' = intent
      PROVE  LeavesExchange(k)
  BY <1>1, <1>2, <1>4, AppendWrites DEF TypeOK, hist, LeavesExchange
<1>5. ASSUME NEW c \in Calls, UserRow(c) \/ AssistantRow(c) \/ CancelRow(c) \/ ToolResult(c)
      PROVE  LeavesExchange(k)
  BY <1>4, <1>5, PointGroups DEF UserRow, AssistantRow, CancelRow, ToolResult, At
<1>6. ASSUME NEW c \in Calls, AcquireCase(c) \/ Begin(c) \/ AdmitRefused(c) \/ ReleaseCase(c)
      PROVE  LeavesExchange(k)
  BY <1>1, <1>6 DEF AcquireCase, Begin, AdmitRefused, ReleaseCase, hist, LeavesExchange
<1>7. ASSUME NEW c \in Calls, Admit(c) PROVE LeavesExchange(k)
  <2>1. exch'[k] = exch[k]
    <3>1. key(c) \in Keys
      BY <1>7, Located DEF Admit, At, Inside
    <3>2. CASE admit_new(c)
      BY <1>1, <1>7, <3>1, <3>2 DEF Admit, admit_new, NoExchange, TypeOK
    <3> QED
      BY <1>7, <3>2 DEF Admit
  <2> QED
    BY <1>1, <1>7, <2>1 DEF Admit, hist, LeavesExchange
<1>8. ASSUME NEW c \in Calls, ExchangeDone(c) PROVE LeavesExchange(k)
  <2>1. key(c) \in Keys \ {k}
    BY <1>2, <1>8, PointGroups DEF ExchangeDone, At
  <2> QED
    BY <1>1, <1>8, <2>1 DEF ExchangeDone, hist, TypeOK, LeavesExchange
<1>9. ASSUME NEW c \in Calls, Stream(c) PROVE LeavesExchange(k)
  <2>1. key(c) \in Keys \ {k} /\ Request(c)[1] = key(c)
    BY <1>2, <1>9, PointGroups DEF Stream, At, Request
  <2> QED
    BY <1>1, <1>9, <2>1 DEF Stream, Start, log, LeavesExchange
<1>10. ASSUME NEW c \in Calls, ToolIntent(c) \/ ExecuteTool(c) PROVE LeavesExchange(k)
  <2>1. key(c) \in Keys \ {k} /\ Tool(c)[1] = key(c)
    BY <1>2, <1>10, PointGroups DEF ToolIntent, ExecuteTool, At, Tool
  <2> QED
    BY <1>1, <1>10, <2>1 DEF ToolIntent, ExecuteTool, Start, log, hist, LeavesExchange
<1>11. ASSUME NEW c \in Calls, Receipt(c) PROVE LeavesExchange(k)
  <2>1. key(c) \in Keys
    BY <1>11, Located DEF Receipt, At, Inside
  <2>2. receipts'[k] = {exch[k].end}
    BY <1>1, <1>11, <2>1 DEF Receipt, TypeOK
  <2> QED
    BY <1>11, <2>2 DEF Receipt, LeavesExchange
<1>12. ASSUME NEW c \in Calls,
              \/ Submit(c) \/ Turn(c) \/ StreamEnds(c) \/ NextTool(c) \/ ToolWait(c)
              \/ Between(c) \/ Cancel(c) \/ Drop(c) \/ Fail(c)
       PROVE  LeavesExchange(k)
  BY <1>3, <1>12
  DEF Submit, Turn, StreamEnds, NextTool, ToolWait, Between, Cancel, Drop, Fail
<1>13. ASSUME NEW w \in running, ToolReturns(w) PROVE LeavesExchange(k)
  BY <1>3, <1>13 DEF ToolReturns
<1>14. CASE Kill
  BY <1>3, <1>14 DEF Kill
<1> QED
  BY <1>5, <1>6, <1>7, <1>8, <1>9, <1>10, <1>11, <1>12, <1>13, <1>14 DEF Next

\* An answered exchange is final: nothing of it changes, no work is started for
\* it, and every later receipt for its key carries the outcome already returned.
THEOREM ReceiptFinalHolds == Spec => ReceiptFinal
<1>1. TypeOK /\ LoopInv /\ [Next]_vars =>
        [\A k \in Keys : receipts[k] # {} => LeavesExchange(k)]_vars
  BY AnsweredFinal
<1> QED
  BY <1>1, LoopInvariant, PTL DEF Spec, ReceiptFinal
=============================================================================
