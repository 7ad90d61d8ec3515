------------------------------ MODULE AgentRun ------------------------------
(***************************************************************************)
(* The agent core: the class Agent (packages/agent/src/agent.ts) and the   *)
(* agent loop it runs (packages/agent/src/agent-loop.ts).                  *)
(*                                                                         *)
(* One Agent owns a transcript, two queues of user messages and at most    *)
(* one active run.  A run is a coroutine, the loop; in parallel mode every *)
(* tool call of a batch is a coroutine too.  All of them share one thread, *)
(* so a step of the specification is the code between two awaits.          *)
(*                                                                         *)
(* An emitted event changes the state at once, then each listener is       *)
(* awaited in turn, and only then does the emitter resume: out[co] is the  *)
(* event that coroutine co is emitting, and a coroutine acts only while it *)
(* emits nothing.  pc is what the loop does next.                          *)
(***************************************************************************)
EXTENDS Integers, Sequences, FiniteSets

CONSTANTS
  ListenerCount,  \* listeners are numbered in the order they subscribed
  Fatal,          \* the listeners subscribed with failureMode "fatal"
  ToolExecution,  \* "parallel" or "sequential"
  SequentialTools, \* whether there are tools with executionMode "sequential"
  SteeringMode,   \* QueueMode of the steering queue: "all" or "one-at-a-time"
  FollowUpMode,   \* QueueMode of the follow-up queue
  TurnLimit,      \* executionLimits.maxTurns, 0 when there is none
  CallLimit,      \* executionLimits.maxAcceptedToolCalls, 0 when there is none
  MaxBatch,       \* bound: tool calls in one assistant message
  MaxCalls,       \* bound: tool calls altogether
  MaxTexts,       \* bound: user messages altogether
  MaxRuns,        \* bound: runs altogether
  MaxFailures     \* bound: listener invocations that fail

QueueMode == {"all", "one-at-a-time"}

ASSUME AgentRunAssumption ==
  /\ ListenerCount \in Nat
  /\ Fatal \subseteq 1 .. ListenerCount
  /\ ToolExecution \in {"parallel", "sequential"} /\ SequentialTools \in BOOLEAN
  /\ SteeringMode \in QueueMode /\ FollowUpMode \in QueueMode
  /\ TurnLimit \in Nat /\ CallLimit \in Nat
  /\ MaxBatch \in Nat /\ MaxCalls \in Nat /\ MaxTexts \in Nat
  /\ MaxRuns \in Nat /\ MaxFailures \in Nat

Listener == 1 .. ListenerCount
Call == 1 .. MaxCalls          \* tool-call ids, in the order they are requested
Text == 1 .. MaxTexts          \* user messages, in the order they are sent
Run == 1 .. MaxRuns
Loop == 0                      \* the coroutine of runLoop
Coroutine == {Loop} \cup Call

VARIABLES
  activeRun,        \* the run in progress, 0 when the agent is idle
  runs,             \* runs started
  lastTermination,  \* lastRunDiagnostics.termination.reason
  steeringQueue, followUpQueue,
  sent,             \* user messages sent
  dropped,          \* those the user cleared from a queue
  abort,            \* abort[r]: whether and why the signal of run r is aborted
  critical,         \* critical[r]: activeRun.criticalFailure is set in run r
  failed,           \* failed[r]: activeRun.failedListeners of run r
  failures,         \* listener invocations that failed so far
  termination,      \* diagnostics.termination of the active run
  endSeen,          \* endSeen[l]: agent_end events l handled in the last run
  out,              \* out[co]: the event that coroutine co is emitting
  transcript,       \* _state.messages
  pendingToolCalls,
  phase,            \* phase[c]: requestedToolCalls(c).phase, "none" if absent
  turnOpen, terminal,
  resulted,         \* emittedToolResultIds
  pc,               \* what the loop does next
  ctx,              \* currentContext.messages
  prompts, pending, \* prompts and pendingMessages still to be emitted
  skipPoll,         \* skipInitialSteeringPoll
  firstTurn, hasMore, turnsStarted,
  accepted,         \* toolCallsAccepted
  used,             \* tool-call ids requested so far
  batch, next,      \* the calls of the last response, and the current one
  plan,             \* how the batch is handled
  response,         \* stopReason of the last response
  verdict,          \* the termination that terminalizeFailure reports
  fixups,           \* the synthesized results it has still to emit
  tool, outcome,    \* of each call: how far it is, and its result
  executed          \* calls whose execute() was invoked

runVars == <<activeRun, runs, lastTermination>>
queueVars == <<steeringQueue, followUpQueue, sent, dropped>>
signalVars == <<abort, critical, failed, failures>>
endVars == <<termination, endSeen>>
emitVars == <<out, transcript, pendingToolCalls, phase, turnOpen, terminal>>
inputVars == <<prompts, pending, skipPoll>>
turnVars == <<firstTurn, hasMore, turnsStarted>>
batchVars == <<accepted, used, batch, plan, response>>
failVars == <<verdict, fixups>>
toolVars == <<tool, outcome, executed>>

vars == <<activeRun, runs, lastTermination, steeringQueue, followUpQueue, sent,
          dropped, abort, critical, failed, failures, termination, endSeen, out,
          transcript, pendingToolCalls, phase, turnOpen, terminal, resulted, pc,
          ctx, prompts, pending, skipPoll, firstTurn, hasMore, turnsStarted,
          accepted, used, batch, next, plan, response, verdict, fixups, tool,
          outcome, executed>>

-----------------------------------------------------------------------------
(* Messages and events *)

Stop == {"stop", "length", "error", "aborted"}
ToolFailurePhase == {"not-started", "execution-status-unknown",
                     "executed-but-post-processing-failed"}
Outcome == {"ok", "terminate", "error"} \cup ToolFailurePhase
Reason == {"completed", "aborted", "error", "limit"}

\* One shape for the three roles: calls and stop are an assistant's, call and
\* outcome a tool result's, text a user's.
User(t) == [role |-> "user", text |-> t, calls |-> <<>>, stop |-> "stop",
            call |-> 0, outcome |-> "ok"]
Assistant(cs, s) == [role |-> "assistant", text |-> 0, calls |-> cs, stop |-> s,
                     call |-> 0, outcome |-> "ok"]
Result(c, o) == [role |-> "toolResult", text |-> 0, calls |-> <<>>,
                 stop |-> "stop", call |-> c, outcome |-> o]

Message ==
  {m \in [role : {"user", "assistant", "toolResult"}, text : {0} \cup Text,
          calls : Seq(Call), stop : Stop, call : {0} \cup Call, outcome : Outcome] :
     m.role = "toolResult" => m.call \in Call}

NoMessage == User(0)
CallsOf(m) == {m.calls[i] : i \in DOMAIN m.calls}

Plain(t) == [type |-> t, msg |-> NoMessage, call |-> 0, reason |-> "completed"]
MessageStart(m) == [Plain("message_start") EXCEPT !.msg = m]
MessageEnd(m) == [Plain("message_end") EXCEPT !.msg = m]
ToolStart(c) == [Plain("tool_execution_start") EXCEPT !.call = c]
ToolEnd(c) == [Plain("tool_execution_end") EXCEPT !.call = c]
AgentEnd(r) == [Plain("agent_end") EXCEPT !.reason = r]

EventType == {"none", "agent_start", "turn_start", "turn_end", "message_start",
              "message_end", "tool_execution_start", "tool_execution_end",
              "agent_end"}
Event == [type : EventType, msg : Message, call : {0} \cup Call, reason : Reason]

\* run is the run captured as activeRun; todo the listeners not yet awaited.
Emission == [ev : Event, run : {0} \cup Run, todo : SUBSET Listener,
             fatal : BOOLEAN]

Emitting(ev, run) == [ev |-> ev, run |-> run, todo |-> Listener, fatal |-> FALSE]
Quiet == [ev |-> Plain("none"), run |-> 0, todo |-> {}, fatal |-> FALSE]
IsQuiet(co) == out[co].ev.type = "none"

\* agent_end goes to the fatal listeners first, other events in subscription order.
Precedes(ev, l, m) ==
  IF ev.type = "agent_end" /\ (l \in Fatal) # (m \in Fatal)
  THEN l \in Fatal
  ELSE l <= m

-----------------------------------------------------------------------------
(* Emitting an event *)

\* Slip: a replaced result is appended once more.
RecordedTwice(ms, m) == Append(ms, m)

\* A tool result whose call already has one replaces it where it stands.
Recorded(ms, m) ==
  LET same == {i \in DOMAIN ms : ms[i].role = "toolResult" /\ ms[i].call = m.call}
  IN IF m.role # "toolResult" \/ same = {} THEN Append(ms, m)
     ELSE [ms EXCEPT ![CHOOSE i \in same : \A j \in same : i <= j] = m]

\* Only a call whose request has been emitted is tracked ("none" before).
PhaseSet(cs, p) ==
  [c \in Call |-> IF c \in cs /\ phase[c] # "none" THEN p ELSE phase[c]]

\* AgentRunLifecycle.observe, as far as calls are concerned.
ObservedPhase(ev) ==
  CASE ev.type = "message_end" /\ ev.msg.role = "assistant" ->
         [c \in Call |-> IF phase[c] = "none" /\ c \in CallsOf(ev.msg)
                         THEN "not-started" ELSE phase[c]]
    [] ev.type = "tool_execution_start" -> PhaseSet({ev.call}, "not-started")
    [] ev.type = "tool_execution_end" ->
         PhaseSet({ev.call}, "executed-but-post-processing-failed")
    [] OTHER -> phase

Observe(ev) ==
  /\ phase' = ObservedPhase(ev)
  /\ turnOpen' = (ev.type = "turn_start" \/ (turnOpen /\ ev.type # "turn_end"))
  /\ terminal' = (terminal \/ ev.type = "agent_end")

\* What Agent.processEvents changes before it awaits the first listener.
Process(ev) ==
  /\ transcript' = IF ev.type = "message_end" THEN Recorded(transcript, ev.msg)
                   ELSE transcript
  /\ pendingToolCalls' =
       CASE ev.type = "tool_execution_start" -> pendingToolCalls \cup {ev.call}
         [] ev.type = "tool_execution_end" -> pendingToolCalls \ {ev.call}
         [] OTHER -> pendingToolCalls

\* The loop emits ev, and goes on at label l once its listeners have settled.
LoopEmits(ev, l) ==
  /\ Observe(ev)
  /\ Process(ev)
  /\ out' = [out EXCEPT ![Loop] = Emitting(ev, activeRun)]
  /\ pc' = l

\* Coroutines of the tool calls cs emit their tool_execution_end.
ToolsEmitEnd(cs) ==
  /\ phase' = PhaseSet(cs, "executed-but-post-processing-failed")
  /\ pendingToolCalls' = pendingToolCalls \ cs
  /\ out' = [co \in Coroutine |->
               IF co \in cs THEN Emitting(ToolEnd(co), activeRun) ELSE out[co]]
  /\ UNCHANGED <<transcript, turnOpen, terminal>>

At(l) == pc = l /\ IsQuiet(Loop)
GoTo(l) == pc' = l /\ UNCHANGED emitVars
Aborted == abort[activeRun] # "none"

-----------------------------------------------------------------------------
(* Awaiting the listeners of an event *)

\* The labels at which terminalizeFailure goes on after a safeEmit.
SafeLabel == {"unmatched", "fix", "fixEnd", "failEnd", "failTurn", "failAgent",
              "failEnded"}

Skipped(e, l) == l \in failed[e.run] \/ (e.fatal /\ l \notin Fatal)

Awaited(e, l, fails) == [e EXCEPT !.todo = @ \ {l}, !.fatal = @ \/ fails]

\* The listener of co's event that processEvents comes to next.
NextListener(co, l) ==
  /\ l \in out[co].todo
  /\ \A m \in out[co].todo : Precedes(out[co].ev, l, m)

Skip(co, l) ==
  /\ NextListener(co, l) /\ Skipped(out[co], l)
  /\ out' = [out EXCEPT ![co] = Awaited(@, l, FALSE)]
  /\ UNCHANGED <<runVars, queueVars, signalVars, endVars, transcript,
                 pendingToolCalls, phase, turnOpen, terminal, resulted, pc, ctx,
                 inputVars, turnVars, batchVars, next, failVars, toolVars>>

Deliver(co, l) ==
  /\ NextListener(co, l) /\ ~Skipped(out[co], l)
  /\ out' = [out EXCEPT ![co] = Awaited(@, l, FALSE)]
  /\ endSeen' = IF out[co].ev.type = "agent_end"
                THEN [endSeen EXCEPT ![l] = @ + 1] ELSE endSeen
  /\ UNCHANGED <<runVars, queueVars, signalVars, termination, transcript,
                 pendingToolCalls, phase, turnOpen, terminal, resulted, pc, ctx,
                 inputVars, turnVars, batchVars, next, failVars, toolVars>>

\* recordListenerError adds to the run that is active when the listener fails,
\* everything else concerns the run that was active when the event was emitted.
Fail(co, l) ==
  LET r == out[co].run
  IN /\ NextListener(co, l) /\ ~Skipped(out[co], l)
     /\ failures < MaxFailures
     /\ failures' = failures + 1
     /\ failed' = [q \in Run |-> IF q = activeRun \/ (q = r /\ l \in Fatal)
                                 THEN failed[q] \cup {l} ELSE failed[q]]
     /\ critical' = [critical EXCEPT ![r] = @ \/ l \in Fatal]
     /\ abort' = [abort EXCEPT ![r] = IF @ = "none" /\ l \in Fatal
                                      THEN "listener" ELSE @]
     /\ out' = [out EXCEPT ![co] = Awaited(@, l, l \in Fatal)]
     /\ UNCHANGED <<runVars, queueVars, endVars, transcript, pendingToolCalls,
                    phase, turnOpen, terminal, resulted, pc, ctx, inputVars,
                    turnVars, batchVars, next, failVars, toolVars>>

\* Slip: a call that is being executed still counts as not started.
CommittedPhaseForgotten(ev) == phase

CommittedPhase(ev) ==
  IF ev.type = "tool_execution_start"
  THEN PhaseSet({ev.call}, "execution-status-unknown") ELSE phase

\* The listeners have settled and none failed fatally: AgentRunLifecycle.commit.
Commit(co) ==
  LET e == out[co]
  IN /\ ~IsQuiet(co) /\ e.todo = {} /\ ~e.fatal
     /\ out' = [out EXCEPT ![co] = Quiet]
     /\ phase' = CommittedPhase(e.ev)
     /\ resulted' = IF e.ev.type = "message_end" /\ e.ev.msg.role = "toolResult"
                    THEN resulted \cup {e.ev.msg.call} ELSE resulted
     /\ termination' = IF e.ev.type = "agent_end" THEN e.ev.reason ELSE termination
     /\ tool' = IF co \in Call THEN [tool EXCEPT ![co] = "done"] ELSE tool
     /\ UNCHANGED <<runVars, queueVars, signalVars, endSeen, transcript,
                    pendingToolCalls, turnOpen, terminal, pc, ctx, inputVars,
                    turnVars, batchVars, next, failVars, outcome, executed>>

\* A fatal listener failed: lifecycle.emit rolls back and throws.  In the loop
\* that ends in the catch of runAgentLoop, unless it is already terminalizing.
Throw(co) ==
  /\ ~IsQuiet(co) /\ out[co].todo = {} /\ out[co].fatal
  /\ out' = [out EXCEPT ![co] = Quiet]
  /\ terminal' = (terminal /\ out[co].ev.type # "agent_end")
  /\ IF co \in Call
     THEN tool' = [tool EXCEPT ![co] = "thrown"] /\ UNCHANGED pc
     ELSE pc' = (IF pc \in SafeLabel THEN pc ELSE "catchFatal") /\ UNCHANGED tool
  /\ UNCHANGED <<runVars, queueVars, signalVars, endVars, transcript,
                 pendingToolCalls, phase, turnOpen, resulted, ctx, inputVars,
                 turnVars, batchVars, next, failVars, outcome, executed>>

-----------------------------------------------------------------------------
(* The public methods of Agent *)

\* Slip: "one-at-a-time" takes one message and empties the queue.
RemainingNothing(q, mode) == <<>>

Drained(q, mode) == IF mode = "all" \/ q = <<>> THEN q ELSE <<Head(q)>>
Remaining(q, mode) == IF mode = "all" \/ q = <<>> THEN <<>> ELSE Tail(q)

Users(ts) == [i \in 1 .. Len(ts) |-> User(ts[i])]

\* runWithLifecycle, down to the emission of agent_start.
StartRun(ps, skip) ==
  /\ activeRun = 0 /\ runs < MaxRuns
  /\ runs' = runs + 1 /\ activeRun' = runs + 1
  /\ termination' = "none"
  /\ endSeen' = [l \in Listener |-> 0]
  /\ out' = [out EXCEPT ![Loop] = Emitting(Plain("agent_start"), runs + 1)]
  /\ phase' = [c \in Call |-> "none"]
  /\ turnOpen' = FALSE /\ terminal' = FALSE /\ resulted' = {}
  /\ pc' = "started"
  /\ ctx' = transcript \o Users(ps)
  /\ prompts' = ps /\ pending' = <<>> /\ skipPoll' = skip
  /\ firstTurn' = TRUE /\ hasMore' = TRUE /\ turnsStarted' = 1
  /\ accepted' = 0
  /\ UNCHANGED <<lastTermination, signalVars, transcript, pendingToolCalls, used,
                 batch, plan, response, next, failVars, toolVars>>

Prompt ==
  /\ sent < MaxTexts /\ sent' = sent + 1
  /\ StartRun(<<sent + 1>>, FALSE)
  /\ UNCHANGED <<steeringQueue, followUpQueue, dropped>>

LastRole == transcript[Len(transcript)].role

\* continue(): from a user message or a tool result ...
ContinueFromTranscript ==
  /\ transcript # <<>> /\ LastRole # "assistant"
  /\ StartRun(<<>>, FALSE)
  /\ UNCHANGED queueVars

\* ... and from an assistant message, with what is queued.
ContinueFromQueues ==
  /\ transcript # <<>> /\ LastRole = "assistant"
  /\ \/ /\ steeringQueue # <<>>
        /\ StartRun(Drained(steeringQueue, SteeringMode), TRUE)
        /\ steeringQueue' = Remaining(steeringQueue, SteeringMode)
        /\ UNCHANGED followUpQueue
     \/ /\ steeringQueue = <<>> /\ followUpQueue # <<>>
        /\ StartRun(Drained(followUpQueue, FollowUpMode), FALSE)
        /\ followUpQueue' = Remaining(followUpQueue, FollowUpMode)
        /\ UNCHANGED steeringQueue
  /\ UNCHANGED <<sent, dropped>>

Outside == <<runVars, signalVars, endVars, emitVars, resulted, pc, ctx, inputVars,
             turnVars, batchVars, next, failVars, toolVars>>

Steer ==
  /\ sent < MaxTexts /\ sent' = sent + 1
  /\ steeringQueue' = Append(steeringQueue, sent + 1)
  /\ UNCHANGED <<Outside, followUpQueue, dropped>>

FollowUp ==
  /\ sent < MaxTexts /\ sent' = sent + 1
  /\ followUpQueue' = Append(followUpQueue, sent + 1)
  /\ UNCHANGED <<Outside, steeringQueue, dropped>>

ElementsOf(s) == {s[i] : i \in DOMAIN s}

ClearSteeringQueue ==
  /\ steeringQueue # <<>>
  /\ dropped' = dropped \cup ElementsOf(steeringQueue)
  /\ steeringQueue' = <<>>
  /\ UNCHANGED <<Outside, followUpQueue, sent>>

ClearFollowUpQueue ==
  /\ followUpQueue # <<>>
  /\ dropped' = dropped \cup ElementsOf(followUpQueue)
  /\ followUpQueue' = <<>>
  /\ UNCHANGED <<Outside, steeringQueue, sent>>

Abort ==
  /\ activeRun # 0 /\ abort[activeRun] = "none"
  /\ abort' = [abort EXCEPT ![activeRun] = "user"]
  /\ UNCHANGED <<runVars, queueVars, critical, failed, failures, endVars, emitVars,
                 resulted, pc, ctx, inputVars, turnVars, batchVars, next, failVars,
                 toolVars>>

-----------------------------------------------------------------------------
(* runAgentLoop: agent_start, turn_start, the prompts; then runLoop *)

\* What a step of the loop leaves to the other actors, and what most steps keep.
LoopFrame == UNCHANGED <<runVars, signalVars, endVars, resulted>>
LoopKeeps == LoopFrame /\ UNCHANGED <<queueVars, ctx, inputVars, turnVars, batchVars,
                                     next, failVars, toolVars>>

RunStarted ==
  /\ At("started") /\ LoopEmits(Plain("turn_start"), "prompts")
  /\ LoopKeeps

PromptStart ==
  /\ At("prompts") /\ prompts # <<>>
  /\ LoopEmits(MessageStart(User(Head(prompts))), "promptEnd")
  /\ LoopKeeps

PromptEnd ==
  /\ At("promptEnd")
  /\ LoopEmits(MessageEnd(User(Head(prompts))), "prompts")
  /\ prompts' = Tail(prompts)
  /\ LoopFrame /\ UNCHANGED <<queueVars, ctx, pending, skipPoll, turnVars, batchVars,
                              next, failVars, toolVars>>

\* getSteeringMessages: the initial poll may be skipped.
InitialPoll ==
  /\ At("prompts") /\ prompts = <<>>
  /\ GoTo("top")
  /\ skipPoll' = FALSE
  /\ IF skipPoll THEN pending' = <<>> /\ UNCHANGED steeringQueue
     ELSE /\ pending' = Drained(steeringQueue, SteeringMode)
          /\ steeringQueue' = Remaining(steeringQueue, SteeringMode)
  /\ LoopFrame /\ UNCHANGED <<followUpQueue, sent, dropped, ctx, prompts, turnVars,
                              batchVars, next, failVars, toolVars>>

InnerGoesOn == hasMore \/ pending # <<>>
GivesUp == Aborted /\ pending = <<>>
TurnsExhausted == TurnLimit # 0 /\ turnsStarted >= TurnLimit

Ends(r) ==
  /\ LoopEmits(AgentEnd(r), "ended")
  /\ LoopKeeps

TurnAborted == At("top") /\ InnerGoesOn /\ GivesUp /\ Ends("aborted")

TurnsLimited ==
  /\ At("top") /\ InnerGoesOn /\ ~GivesUp /\ ~firstTurn /\ TurnsExhausted
  /\ Ends("limit")

FirstTurn ==
  /\ At("top") /\ InnerGoesOn /\ ~GivesUp /\ firstTurn
  /\ firstTurn' = FALSE
  /\ GoTo("inject")
  /\ LoopFrame /\ UNCHANGED <<queueVars, ctx, inputVars, hasMore, turnsStarted,
                              batchVars, next, failVars, toolVars>>

NextTurn ==
  /\ At("top") /\ InnerGoesOn /\ ~GivesUp /\ ~firstTurn /\ ~TurnsExhausted
  /\ turnsStarted' = turnsStarted + 1
  /\ LoopEmits(Plain("turn_start"), "inject")
  /\ LoopFrame /\ UNCHANGED <<queueVars, ctx, inputVars, firstTurn, hasMore,
                              batchVars, next, failVars, toolVars>>

\* getFollowUpMessages, where the agent would otherwise stop.
FollowUps ==
  /\ At("top") /\ ~InnerGoesOn /\ followUpQueue # <<>>
  /\ GoTo("top")
  /\ pending' = Drained(followUpQueue, FollowUpMode)
  /\ followUpQueue' = Remaining(followUpQueue, FollowUpMode)
  /\ hasMore' = TRUE
  /\ LoopFrame /\ UNCHANGED <<steeringQueue, sent, dropped, ctx, prompts, skipPoll,
                              firstTurn, turnsStarted, batchVars, next, failVars,
                              toolVars>>

NoFollowUps ==
  /\ At("top") /\ ~InnerGoesOn /\ followUpQueue = <<>>
  /\ Ends(IF Aborted THEN "aborted" ELSE "completed")

InjectStart ==
  /\ At("inject") /\ pending # <<>>
  /\ LoopEmits(MessageStart(User(Head(pending))), "injectEnd")
  /\ LoopKeeps

\* The context grows once the listeners have settled; nothing reads it before.
InjectEnd ==
  /\ At("injectEnd")
  /\ LoopEmits(MessageEnd(User(Head(pending))), "inject")
  /\ ctx' = Append(ctx, User(Head(pending)))
  /\ pending' = Tail(pending)
  /\ LoopFrame /\ UNCHANGED <<queueVars, prompts, skipPoll, turnVars, batchVars,
                              next, failVars, toolVars>>

-----------------------------------------------------------------------------
(* streamAssistantResponse, and what runLoop does with the response *)

StreamStart ==
  /\ At("inject") /\ pending = <<>>
  /\ LoopEmits(MessageStart(Assistant(<<>>, "stop")), "streaming")
  /\ LoopKeeps

\* The hooks before the request, the request or the stream itself may throw.
StreamThrows ==
  /\ At("streaming") \/ (At("inject") /\ pending = <<>>)
  /\ GoTo("catch")
  /\ LoopKeeps

\* A provider reports "aborted" only when the signal is.  The partial message
\* that stood for the response in the context is replaced by the final one.
StreamDone(n, s) ==
  LET m == Assistant([i \in 1 .. n |-> used + i], s)
  IN /\ At("streaming")
     /\ used + n <= MaxCalls
     /\ s = "aborted" => Aborted
     /\ LoopEmits(MessageEnd(m), "response")
     /\ ctx' = Append(ctx, m)
     /\ used' = used + n
     /\ batch' = m.calls /\ response' = s
     /\ LoopFrame /\ UNCHANGED <<queueVars, inputVars, turnVars, accepted, plan, next,
                                 failVars, toolVars>>

ResponseFailed ==
  /\ At("response") /\ response \in {"error", "aborted"}
  /\ LoopEmits(Plain("turn_end"), "failedTurn")
  /\ LoopKeeps

FailedTurn == At("failedTurn") /\ Ends(response)

NoCalls ==
  /\ At("response") /\ response \notin {"error", "aborted"} /\ batch = <<>>
  /\ LoopEmits(Plain("turn_end"), "turnEnded")
  /\ hasMore' = FALSE /\ plan' = "none"
  /\ LoopFrame /\ UNCHANGED <<queueVars, ctx, inputVars, firstTurn, turnsStarted,
                              accepted, used, batch, response, next, failVars,
                              toolVars>>

OverLimit == CallLimit # 0 /\ accepted + Len(batch) > CallLimit

\* executeToolCalls: one sequential tool makes its whole batch sequential.
ExecutionModes ==
  {ToolExecution} \cup IF SequentialTools THEN {"sequential"} ELSE {}

\* Slip: the calls of a truncated response are executed.
BatchPlansIgnoringLength == IF OverLimit THEN {"limit"} ELSE ExecutionModes

\* A batch over the limit and a truncated one are failed, not executed.
BatchPlans ==
  IF OverLimit THEN {"limit"} ELSE IF response = "length" THEN {"truncated"}
  ELSE ExecutionModes

PlanBatch ==
  /\ At("response") /\ response \notin {"error", "aborted"} /\ batch # <<>>
  /\ GoTo("calls")
  /\ hasMore' = FALSE /\ next' = 1
  /\ plan' \in BatchPlans
  /\ accepted' = IF OverLimit THEN accepted ELSE accepted + Len(batch)
  /\ LoopFrame /\ UNCHANGED <<queueVars, ctx, inputVars, firstTurn, turnsStarted,
                              used, batch, response, failVars, toolVars>>

-----------------------------------------------------------------------------
(* The tool calls of a batch *)

InParallel == plan = "parallel"
ToBeExecuted == plan \in {"parallel", "sequential"}
Current == batch[next]
BatchCalls == ElementsOf(batch)

CallStart ==
  /\ At("calls") /\ next <= Len(batch)
  /\ LoopEmits(ToolStart(Current), "called")
  /\ LoopKeeps

\* The call ends without being executed.  In parallel mode its result message
\* waits for the whole batch, otherwise it is next.
EndsAtOnce ==
  /\ outcome' = [outcome EXCEPT ![Current] = "error"]
  /\ tool' = [tool EXCEPT ![Current] = "done"]
  /\ LoopEmits(ToolEnd(Current), IF InParallel THEN "calls" ELSE "result")
  /\ next' = IF InParallel THEN next + 1 ELSE next
  /\ LoopFrame /\ UNCHANGED <<queueVars, ctx, inputVars, turnVars, batchVars,
                              failVars, executed>>

CallFailed == At("called") /\ plan \in {"limit", "truncated"} /\ EndsAtOnce

CallAborted == At("called") /\ ToBeExecuted /\ Aborted /\ EndsAtOnce

\* prepareToolCall, which awaits beforeToolCall.
CallPrepares ==
  /\ At("called") /\ ToBeExecuted /\ ~Aborted
  /\ GoTo("preparing")
  /\ LoopKeeps

\* Not found, invalid, blocked, failed or aborted in the meantime.
CallImmediate == At("preparing") /\ EndsAtOnce

CallPrepared ==
  /\ At("preparing") /\ ~Aborted
  /\ tool' = [tool EXCEPT ![Current] = "prepared"]
  /\ IF InParallel THEN GoTo("calls") /\ next' = next + 1
     ELSE GoTo("awaitTool") /\ UNCHANGED next
  /\ LoopFrame /\ UNCHANGED <<queueVars, ctx, inputVars, turnVars, batchVars, failVars,
                              outcome, executed>>

\* executeToolCallsSequential does not look at the signal again.
SequentialExecute ==
  /\ At("awaitTool") /\ tool[Current] = "prepared"
  /\ GoTo("awaitTool")
  /\ tool' = [tool EXCEPT ![Current] = "running"]
  /\ executed' = executed \cup {Current}
  /\ LoopFrame /\ UNCHANGED <<queueVars, ctx, inputVars, turnVars, batchVars, next,
                              failVars, outcome>>

\* Slip: the loop does not wait for the tool it started.
SequentialReturnEarly(o) ==
  /\ At("awaitTool") /\ tool[Current] = "running"
  /\ outcome' = [outcome EXCEPT ![Current] = o]
  /\ LoopEmits(ToolEnd(Current), "result")
  /\ LoopFrame /\ UNCHANGED <<queueVars, ctx, inputVars, turnVars, batchVars, next,
                              failVars, tool, executed>>

SequentialReturn(o) ==
  /\ At("awaitTool") /\ tool[Current] = "running"
  /\ tool' = [tool EXCEPT ![Current] = "done"]
  /\ outcome' = [outcome EXCEPT ![Current] = o]
  /\ LoopEmits(ToolEnd(Current), "result")
  /\ LoopFrame /\ UNCHANGED <<queueVars, ctx, inputVars, turnVars, batchVars, next,
                              failVars, executed>>

PreparedCalls == {c \in BatchCalls : tool[c] = "prepared"}

\* Slip: the closures do not look at the signal.
CallsToExecuteUnchecked == PreparedCalls

\* The closures of the prepared calls start together: they all execute, or the
\* signal is aborted by now and they all end with an aborted result.
CallsToExecute == IF Aborted THEN {} ELSE PreparedCalls
CallsToEnd == PreparedCalls \ CallsToExecute

ParallelExecute ==
  /\ At("calls") /\ next > Len(batch) /\ InParallel
  /\ pc' = "join"
  /\ ToolsEmitEnd(CallsToEnd)
  /\ tool' = [c \in Call |-> IF c \in CallsToEnd THEN "ending"
                             ELSE IF c \in CallsToExecute THEN "running" ELSE tool[c]]
  /\ outcome' = [c \in Call |-> IF c \in CallsToEnd THEN "error" ELSE outcome[c]]
  /\ executed' = executed \cup CallsToExecute
  /\ LoopFrame /\ UNCHANGED <<queueVars, ctx, inputVars, turnVars, batchVars, next,
                              failVars>>

\* The loop itself waits for c.
InSequence(c) == pc = "awaitTool" /\ c = Current

\* The coroutine of a tool call goes on, whatever became of its run: without an
\* active run processEvents throws.
ParallelReturn(c, o) ==
  /\ tool[c] = "running" /\ ~InSequence(c)
  /\ outcome' = [outcome EXCEPT ![c] = o]
  /\ IF activeRun = 0
     THEN /\ tool' = [tool EXCEPT ![c] = "thrown"]
          /\ phase' = PhaseSet({c}, "executed-but-post-processing-failed")
          /\ UNCHANGED <<out, transcript, pendingToolCalls, turnOpen, terminal>>
     ELSE ToolsEmitEnd({c}) /\ tool' = [tool EXCEPT ![c] = "ending"]
  /\ UNCHANGED <<runVars, queueVars, signalVars, endVars, resulted, pc, ctx,
                 inputVars, turnVars, batchVars, next, failVars, executed>>

\* Slip: the batch waits after a failure.
EveryCallThrows == \A c \in BatchCalls : tool[c] = "thrown"

\* Promise.all waits for every call, or for the first that throws.
BatchSettled == \A c \in BatchCalls : tool[c] = "done"
BatchThrows == \E c \in BatchCalls : tool[c] = "thrown"

Join ==
  /\ At("join") /\ BatchSettled
  /\ GoTo("result") /\ next' = 1
  /\ LoopFrame /\ UNCHANGED <<queueVars, ctx, inputVars, turnVars, batchVars, failVars,
                              toolVars>>

JoinThrows ==
  /\ At("join") /\ BatchThrows
  /\ GoTo("catchFatal")
  /\ LoopKeeps

ResultStart ==
  /\ At("result") /\ next <= Len(batch)
  /\ LoopEmits(MessageStart(Result(Current, outcome[Current])), "resultEnd")
  /\ LoopKeeps

ResultEnd ==
  /\ At("resultEnd")
  /\ LoopEmits(MessageEnd(Result(Current, outcome[Current])),
               IF InParallel THEN "result" ELSE "calls")
  /\ next' = next + 1
  /\ LoopFrame /\ UNCHANGED <<queueVars, ctx, inputVars, turnVars, batchVars, failVars,
                              toolVars>>

\* shouldTerminateToolBatch; the limit terminates, a truncated response does not.
BatchTerminates ==
  \/ plan = "limit"
  \/ ToBeExecuted /\ \A c \in BatchCalls : outcome[c] = "terminate"

\* Slip: only successful results reach the context.
SuccessfulResults ==
  SelectSeq([i \in 1 .. Len(batch) |-> Result(batch[i], outcome[batch[i]])],
            LAMBDA m : m.outcome # "error")
BatchResults == [i \in 1 .. Len(batch) |-> Result(batch[i], outcome[batch[i]])]

BatchDone ==
  /\ At(IF InParallel THEN "result" ELSE "calls") /\ next > Len(batch)
  /\ LoopEmits(Plain("turn_end"), "turnEnded")
  /\ hasMore' = ~BatchTerminates
  /\ ctx' = ctx \o BatchResults
  /\ LoopFrame /\ UNCHANGED <<queueVars, inputVars, firstTurn, turnsStarted, batchVars,
                              next, failVars, toolVars>>

CallsLimited == At("turnEnded") /\ plan = "limit" /\ Ends("limit")

\* prepareNextTurn may throw.
PrepareNextTurnThrows ==
  /\ At("turnEnded") /\ plan # "limit"
  /\ GoTo("catch")
  /\ LoopKeeps

PollSteering ==
  /\ At("turnEnded") /\ plan # "limit"
  /\ GoTo("top")
  /\ pending' = Drained(steeringQueue, SteeringMode)
  /\ steeringQueue' = Remaining(steeringQueue, SteeringMode)
  /\ LoopFrame /\ UNCHANGED <<followUpQueue, sent, dropped, ctx, prompts, skipPoll,
                              turnVars, batchVars, next, failVars, toolVars>>

-----------------------------------------------------------------------------
(* The catch of runAgentLoop: terminalizeFailure; then finishRun *)

Catch ==
  /\ pc \in {"catch", "catchFatal"} /\ IsQuiet(Loop)
  /\ IF terminal THEN GoTo("ended") /\ UNCHANGED verdict
     ELSE /\ verdict' = IF pc = "catch" /\ abort[activeRun] = "user"
                        THEN "aborted" ELSE "error"
          /\ IF turnOpen THEN GoTo("unmatched")
             ELSE LoopEmits(Plain("turn_start"), "unmatched")
  /\ LoopFrame /\ UNCHANGED <<queueVars, ctx, inputVars, turnVars, batchVars, next,
                              fixups, toolVars>>

\* Slips: calls that have a result, or that were not requested, get one.
UnmatchedOrNot == {c \in Call : phase[c] # "none"}
UnmatchedOrUnknown == Call \ resulted

\* The calls without a result; theirs is synthesized from the phase they are in now.
Unmatched == {c \in Call : phase[c] # "none" /\ c \notin resulted}

SynthesizeResults ==
  /\ At("unmatched")
  /\ GoTo("fix")
  /\ fixups' = {Result(c, phase[c]) : c \in Unmatched}
  /\ LoopFrame /\ UNCHANGED <<queueVars, ctx, inputVars, turnVars, batchVars, next,
                              verdict, toolVars>>

\* They are emitted in the order in which the calls were requested.
FirstFix(m) == m \in fixups /\ \A n \in fixups : m.call <= n.call

FixStart(m) ==
  /\ At("fix") /\ FirstFix(m)
  /\ LoopEmits(MessageStart(m), "fixEnd")
  /\ LoopKeeps

FixEnd(m) ==
  /\ At("fixEnd") /\ FirstFix(m)
  /\ LoopEmits(MessageEnd(m), "fix")
  /\ fixups' = fixups \ {m}
  /\ LoopFrame /\ UNCHANGED <<queueVars, ctx, inputVars, turnVars, batchVars, next,
                              verdict, toolVars>>

FailureMessage == Assistant(<<>>, verdict)

FailStart ==
  /\ At("fix") /\ fixups = {}
  /\ LoopEmits(MessageStart(FailureMessage), "failEnd")
  /\ LoopKeeps

FailEnd ==
  /\ At("failEnd")
  /\ LoopEmits(MessageEnd(FailureMessage), "failTurn")
  /\ LoopKeeps

FailTurn ==
  /\ At("failTurn")
  /\ IF turnOpen THEN LoopEmits(Plain("turn_end"), "failAgent")
     ELSE GoTo("failAgent")
  /\ LoopKeeps

FailAgent ==
  /\ At("failAgent")
  /\ LoopEmits(AgentEnd(verdict), "failEnded")
  /\ LoopKeeps

FinalTermination ==
  IF termination # "none" THEN termination
  ELSE IF critical[activeRun] THEN "error"
  ELSE IF Aborted THEN "aborted" ELSE "completed"

FinishRun ==
  /\ pc \in {"ended", "failEnded"} /\ IsQuiet(Loop)
  /\ activeRun' = 0
  /\ lastTermination' = FinalTermination
  /\ pendingToolCalls' = {}
  /\ pc' = "idle"
  /\ UNCHANGED <<runs, queueVars, signalVars, endVars, out, transcript, phase, turnOpen,
                 terminal, resulted, ctx, inputVars, turnVars, batchVars, next,
                 failVars, toolVars>>

-----------------------------------------------------------------------------
Init ==
  /\ activeRun = 0 /\ runs = 0 /\ lastTermination = "none"
  /\ steeringQueue = <<>> /\ followUpQueue = <<>> /\ sent = 0 /\ dropped = {}
  /\ abort = [r \in Run |-> "none"] /\ critical = [r \in Run |-> FALSE]
  /\ failed = [r \in Run |-> {}] /\ failures = 0
  /\ termination = "none" /\ endSeen = [l \in Listener |-> 0]
  /\ out = [co \in Coroutine |-> Quiet]
  /\ transcript = <<>> /\ pendingToolCalls = {}
  /\ phase = [c \in Call |-> "none"] /\ turnOpen = FALSE /\ terminal = FALSE
  /\ resulted = {} /\ pc = "idle" /\ ctx = <<>>
  /\ prompts = <<>> /\ pending = <<>> /\ skipPoll = FALSE
  /\ firstTurn = TRUE /\ hasMore = TRUE /\ turnsStarted = 1
  /\ accepted = 0 /\ used = 0 /\ batch = <<>> /\ next = 1 /\ plan = "none"
  /\ response = "stop" /\ verdict = "error" /\ fixups = {}
  /\ tool = [c \in Call |-> "none"] /\ outcome = [c \in Call |-> "error"]
  /\ executed = {}

RunSteps ==
  RunStarted \/ PromptStart \/ PromptEnd \/ InitialPoll \/ TurnAborted
  \/ TurnsLimited \/ FirstTurn \/ NextTurn \/ FollowUps \/ NoFollowUps
  \/ InjectStart \/ InjectEnd

StreamSteps ==
  StreamStart \/ StreamThrows \/ (\E n \in 0 .. MaxBatch, s \in Stop : StreamDone(n, s))
  \/ ResponseFailed \/ FailedTurn \/ NoCalls \/ PlanBatch

BatchSteps ==
  CallStart \/ CallFailed \/ CallAborted \/ CallPrepares \/ CallImmediate
  \/ CallPrepared \/ SequentialExecute
  \/ (\E o \in {"ok", "terminate", "error"} : SequentialReturn(o))
  \/ ParallelExecute \/ Join \/ JoinThrows \/ ResultStart \/ ResultEnd \/ BatchDone
  \/ CallsLimited \/ PrepareNextTurnThrows \/ PollSteering

FailureSteps ==
  Catch \/ SynthesizeResults \/ (\E m \in fixups : FixStart(m) \/ FixEnd(m))
  \/ FailStart \/ FailEnd \/ FailTurn \/ FailAgent \/ FinishRun

LoopStep == RunSteps \/ StreamSteps \/ BatchSteps \/ FailureSteps

ToolStep == \E c \in Call, o \in {"ok", "terminate", "error"} : ParallelReturn(c, o)

ListenerStep ==
  \E co \in Coroutine :
     \/ Commit(co) \/ Throw(co)
     \/ \E l \in Listener : Skip(co, l) \/ Deliver(co, l) \/ Fail(co, l)

UserStep ==
  Prompt \/ ContinueFromTranscript \/ ContinueFromQueues \/ Steer \/ FollowUp
  \/ ClearSteeringQueue \/ ClearFollowUpQueue \/ Abort

Next == UserStep \/ LoopStep \/ ToolStep \/ ListenerStep

Spec == Init /\ [][Next]_vars

\* The runtime resumes every coroutine whose await has settled.  Listeners, hooks,
\* tools and provider streams are assumed to settle; the user owes nothing.
Fairness ==
  WF_vars(LoopStep) /\ WF_vars(ToolStep) /\ WF_vars(ListenerStep)

FairSpec == Spec /\ Fairness

-----------------------------------------------------------------------------
(* Properties *)

Label == {"idle", "started", "prompts", "promptEnd", "top", "inject", "injectEnd",
          "streaming", "response", "failedTurn", "calls", "called", "preparing",
          "awaitTool", "join", "result", "resultEnd", "turnEnded", "ended",
          "catch", "catchFatal"} \cup SafeLabel

RunType ==
  /\ activeRun \in {0} \cup Run /\ runs \in {0} \cup Run
  /\ lastTermination \in Reason \cup {"none"}

QueueType ==
  /\ steeringQueue \in Seq(Text) /\ followUpQueue \in Seq(Text)
  /\ sent \in 0 .. MaxTexts /\ dropped \subseteq Text

SignalType ==
  /\ abort \in [Run -> {"none", "user", "listener"}]
  /\ critical \in [Run -> BOOLEAN]
  /\ failed \in [Run -> SUBSET Listener]
  /\ failures \in 0 .. MaxFailures

EndType ==
  termination \in Reason \cup {"none"} /\ endSeen \in [Listener -> Nat]

EmitType ==
  /\ out \in [Coroutine -> Emission]
  /\ transcript \in Seq(Message)
  /\ pendingToolCalls \subseteq Call
  /\ phase \in [Call -> ToolFailurePhase \cup {"none"}]
  /\ turnOpen \in BOOLEAN /\ terminal \in BOOLEAN

ContextType ==
  /\ resulted \subseteq Call /\ ctx \in Seq(Message)
  /\ prompts \in Seq(Text) /\ pending \in Seq(Text) /\ skipPoll \in BOOLEAN

TurnType == firstTurn \in BOOLEAN /\ hasMore \in BOOLEAN /\ turnsStarted \in Nat

BatchType ==
  /\ accepted \in Nat /\ used \in 0 .. MaxCalls
  /\ batch \in Seq(Call) /\ next \in Nat \ {0}
  /\ plan \in {"none", "limit", "truncated", "parallel", "sequential"} /\ response \in Stop

FailType == verdict \in {"aborted", "error"} /\ fixups \subseteq Message

ToolType ==
  /\ tool \in [Call -> {"none", "prepared", "running", "ending", "done", "thrown"}]
  /\ outcome \in [Call -> Outcome]
  /\ executed \subseteq Call

\* What the loop relies on when it goes on at a label: the message it is emitting is
\* still there, the current call is one of the batch, a failed turn has a reason.
ControlOK ==
  /\ pc \in Label
  /\ pc = "promptEnd" => prompts # <<>>
  /\ pc = "injectEnd" => pending # <<>>
  /\ pc \in {"called", "preparing", "awaitTool", "resultEnd"} => next <= Len(batch)
  /\ pc = "failedTurn" => response \in {"error", "aborted"}

\* Every variable has its type, and the loop finds at each label what it reads there.
TypeOK ==
  /\ RunType /\ QueueType /\ SignalType /\ EndType /\ EmitType /\ ContextType
  /\ TurnType /\ BatchType /\ FailType /\ ToolType /\ ControlOK

\* The transcript keeps the promise a provider relies on, in every run, whatever
\* the listeners, the tools, the stream and the user do.
Conv == INSTANCE Conversation WITH log <- transcript, busy <- (activeRun # 0)
KeepsConversation == Conv!Spec

\* A request sends exactly the transcript: currentContext.messages, which the loop
\* maintains beside _state.messages, never misses, repeats or reorders a message.
ContextIsTranscript ==
  At("inject") /\ pending = <<>> => ctx = transcript

\* A result tells the truth about execution: a call reported as not started was
\* never executed, and no success is reported for a call that was not.
ResultsAreHonest ==
  \A i \in DOMAIN transcript :
     transcript[i].role = "toolResult" =>
        /\ transcript[i].outcome = "not-started" => transcript[i].call \notin executed
        /\ transcript[i].outcome \in {"ok", "terminate"} =>
              transcript[i].call \in executed

\* A call of a response that was cut off, failed or aborted is never executed.
OnlyFinishedResponsesExecute ==
  \A i \in DOMAIN transcript :
     transcript[i].stop # "stop" => CallsOf(transcript[i]) \cap executed = {}

\* A tool result that every listener has accepted (persistence among them) is final:
\* terminalization after a later failure neither replaces nor removes it.
AcceptedResultsAreFinal ==
  [][\A i \in DOMAIN transcript :
        transcript[i].role = "toolResult" /\ transcript[i].call \in resulted
        => transcript'[i] = transcript[i]]_vars

\* Every user message is in one place: a queue, the hands of a run (prompts, pending), the
\* transcript, or cleared by the user.  None is injected twice, and one can only be lost
\* in the hands of a run that failed or came to a limit before the message was said.
Places(t) ==
  LET Times(q) == Cardinality({i \in DOMAIN q : q[i] = t})
  IN  Times(steeringQueue) + Times(followUpQueue) + Times(prompts) + Times(pending)
        + Cardinality(dropped \cap {t})
        + Cardinality({i \in DOMAIN transcript : transcript[i].role = "user"
                                                 /\ transcript[i].text = t})

MessagesConserved ==
  [][\A t \in 1 .. sent' :
       \/ Places(t)' = IF t > sent THEN 1 ELSE Places(t)
       \/ /\ Places(t) = 1 /\ Places(t)' = 0
          /\ activeRun = 0 /\ lastTermination \in {"error", "limit"}]_vars

\* A run is over when it ends: no tool call executes or emits once agent_end is emitted
\* or the agent is idle, unless a fatal listener failure in a parallel call ended the run.
EndIsFinal ==
  terminal \/ activeRun = 0 =>
    \/ \E c \in Call : tool[c] = "thrown"
    \/ \A c \in Call : tool[c] \notin {"running", "ending"}

\* Every run tells an observer that it ended: an isolated listener that did not fail
\* handles agent_end exactly once, unless the run is reported as an error.  The agent
\* session emits an agent_end of its own in that last case only.
ObserverLearnsEnd ==
  activeRun = 0 /\ runs > 0 =>
    \A l \in Listener \ (Fatal \cup failed[runs]) :
       \/ endSeen[l] = 1
       \/ endSeen[l] = 0 /\ lastTermination = "error"

\* executionLimits: the runs so far executed at most CallLimit calls each, and got
\* at most TurnLimit responses each that did not fail.
LimitsRespected ==
  /\ CallLimit # 0 => Cardinality(executed) <= CallLimit * runs
  /\ TurnLimit # 0 =>
       Cardinality({i \in DOMAIN transcript : Conv!Complete(transcript[i])})
       <= TurnLimit * runs

\* Nobody executes a call once the signal is aborted (parallel mode, where the
\* signal is looked at again when the prepared calls of the batch are started).
NoExecutionAfterAbort ==
  [][executed' # executed => abort[activeRun] = "none"]_vars

\* Every run ends.
RunSettles == activeRun # 0 ~> activeRun = 0

\* However a run ends: no call of it goes on, observers learn of it, and its limits held.
RunsEndProperly == EndIsFinal /\ ObserverLearnsEnd /\ LimitsRespected
=============================================================================
