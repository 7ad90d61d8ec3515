--------------------------- MODULE AgentRunProofs ---------------------------
(***************************************************************************)
(* Theorems about the agent core, for every number of listeners, calls,    *)
(* messages and runs, both execution modes and both queue modes.  The      *)
(* first part is about types and about what may be executed.  The second   *)
(* is about what a run leaves behind: results that tell the truth, results *)
(* that stay and a context that is the transcript.  It rests on ToolInv,   *)
(* which says how far each tool call of the current batch is.  The third   *)
(* is about how a run goes and ends: its transcript is a conversation, no  *)
(* call of it goes on behind its end, every isolated observer learns of    *)
(* the end, the limits were kept, and no message of the user was said      *)
(* twice or forgotten.                                                     *)
(***************************************************************************)
EXTENDS AgentRun, SequenceTheorems, FiniteSetTheorems, FunctionTheorems, TLAPS

-----------------------------------------------------------------------------
(* Messages and events are what they are said to be *)

\* A user message is a message.
LEMMA UserType == \A t \in {0} \cup Text : User(t) \in Message
  BY DEF User, Message, Stop, Outcome, ToolFailurePhase

\* So is an assistant message with any calls and stop reason,
LEMMA AssistantType ==
  \A cs \in Seq(Call), s \in Stop : Assistant(cs, s) \in Message
  BY DEF Assistant, Message, Outcome

\* and the result of any call.
LEMMA ResultType ==
  \A c \in Call, o \in Outcome : Result(c, o) \in Message
  BY DEF Result, Message, Stop

\* The events the loop emits: a tool_execution_start names a call.
Emittable == {ev \in Event : ev.type = "tool_execution_start" => ev.call \in Call}

\* Every event the loop builds is one it may emit.
LEMMA EventTypes ==
  /\ \A t \in EventType \ {"tool_execution_start"} : Plain(t) \in Emittable
  /\ \A m \in Message : MessageStart(m) \in Emittable /\ MessageEnd(m) \in Emittable
  /\ \A c \in Call : ToolStart(c) \in Emittable /\ ToolEnd(c) \in Emittable
  /\ \A r \in Reason : AgentEnd(r) \in Emittable
<1> DEFINE M == Message
<1>1. NoMessage \in M
  BY UserType DEF NoMessage
<1>2. Emittable = {ev \in [type : EventType, msg : M, call : {0} \cup Call, reason : Reason] :
                     ev.type = "tool_execution_start" => ev.call \in Call}
  BY DEF Event, Emittable
<1> HIDE DEF M
<1>3. "completed" \in Reason
  BY DEF Reason
<1>4. \A t \in EventType \ {"tool_execution_start"} : Plain(t) \in Emittable
  BY <1>1, <1>2, <1>3 DEF Plain
<1>5. \A m \in M : MessageStart(m) \in Emittable /\ MessageEnd(m) \in Emittable
  BY <1>1, <1>2, <1>3 DEF Plain, MessageStart, MessageEnd, EventType
<1>6. \A c \in Call : ToolStart(c) \in Emittable /\ ToolEnd(c) \in Emittable
  BY <1>1, <1>2, <1>3 DEF Plain, ToolStart, ToolEnd, EventType
<1>7. \A r \in Reason : AgentEnd(r) \in Emittable
  BY <1>1, <1>2, <1>3 DEF Plain, AgentEnd, EventType
<1>8. QED
  BY <1>4, <1>5, <1>6, <1>7 DEF M

\* A recorded message either joins the transcript or replaces one of its messages.
LEMMA RecordedType ==
  ASSUME NEW ms \in Seq(Message), NEW m \in Message
  PROVE  Recorded(ms, m) \in Seq(Message)
<1> DEFINE M == Message
<1>1. ms \in Seq(M) /\ m \in M
  OBVIOUS
<1> HIDE DEF M
<1>2. Append(ms, m) \in Seq(M)
  BY <1>1
<1>3. ASSUME NEW i PROVE [ms EXCEPT ![i] = m] \in Seq(M)
  <2>1. CASE i \in 1 .. Len(ms)
    BY <1>1, <2>1, ExceptSeq
  <2>2. CASE i \notin 1 .. Len(ms)
    <3>1. [ms EXCEPT ![i] = m] = ms
      BY <1>1, <2>2
    <3>2. QED
      BY <1>1, <3>1
  <2>3. QED
    BY <2>1, <2>2
<1>4. Recorded(ms, m) \in Seq(M)
  BY <1>2, <1>3 DEF Recorded
<1>5. QED
  BY <1>4 DEF M

-----------------------------------------------------------------------------
(* Emitting an event preserves the types *)

\* Emitting an event puts a coroutine into a legal emission.
LEMMA EmittingType ==
  ASSUME NEW ev \in Event, NEW r \in {0} \cup Run
  PROVE  Emitting(ev, r) \in Emission
  BY DEF Emitting, Emission

\* To emit nothing is legal.
LEMMA QuietType == Quiet \in Emission
<1>1. Plain("none") \in Event
  BY EventTypes DEF EventType, Emittable
<1>2. QED
  BY <1>1 DEF Quiet, Emission

\* Setting the failure phase of some calls keeps the type of phase.
LEMMA PhaseSetType ==
  ASSUME EmitType, NEW cs, NEW p \in ToolFailurePhase
  PROVE  PhaseSet(cs, p) \in [Call -> ToolFailurePhase \cup {"none"}]
  BY DEF EmitType, PhaseSet

\* Emitting an event from the loop keeps the type of what an emission changes.
LEMMA LoopEmitsType ==
  ASSUME RunType, EmitType, NEW ev \in Emittable, NEW l, LoopEmits(ev, l)
  PROVE  EmitType' /\ pc' = l
<1>1. pc' = l
  BY DEF LoopEmits
<1>2. Emitting(ev, activeRun) \in Emission
  BY EmittingType DEF RunType, Emittable
<1>3. (out \in [Coroutine -> Emission])'
  BY <1>2 DEF LoopEmits, EmitType
<1>4. (transcript \in Seq(Message))'
  BY RecordedType DEF LoopEmits, Process, EmitType, Emittable, Event
<1>5. (pendingToolCalls \subseteq Call)'
  BY DEF LoopEmits, Process, EmitType, Emittable
<1>6. (phase \in [Call -> ToolFailurePhase \cup {"none"}])'
  BY DEF LoopEmits, Observe, ObservedPhase, PhaseSet, ToolFailurePhase, EmitType
<1>7. (turnOpen \in BOOLEAN /\ terminal \in BOOLEAN)'
  BY DEF LoopEmits, Observe
<1>8. QED
  BY <1>1, <1>3, <1>4, <1>5, <1>6, <1>7 DEF EmitType

-----------------------------------------------------------------------------
(* The type invariant: initial states and the steps of the other actors *)

\* Initially, every variable has its type.
LEMMA InitType == Init => TypeOK
<1> SUFFICES ASSUME Init PROVE TypeOK
  OBVIOUS
<1> USE AgentRunAssumption
<1>1. RunType /\ QueueType /\ SignalType /\ EndType
  BY DEF Init, RunType, QueueType, SignalType, EndType, Listener
<1>0. <<>> \in Seq(Message)
  BY EmptySeq
<1>2. EmitType
  BY <1>0, QuietType DEF Init, EmitType
<1>3. ContextType
  <2>1. resulted \subseteq Call /\ skipPoll \in BOOLEAN
    BY DEF Init
  <2>2. ctx \in Seq(Message) /\ prompts \in Seq(Text) /\ pending \in Seq(Text)
    BY <1>0, EmptySeq DEF Init
  <2>3. QED
    BY <2>1, <2>2 DEF ContextType
<1>7. TurnType
  BY DEF Init, TurnType
<1>4. BatchType /\ FailType /\ ToolType
  BY DEF Init, BatchType, FailType, ToolType, Stop, Outcome
<1>5. ControlOK
  BY DEF Init, ControlOK, Label
<1>6. QED
  BY <1>1, <1>2, <1>3, <1>4, <1>5, <1>7 DEF TypeOK
-----------------------------------------------------------------------------
(* Steps that leave a group of variables alone leave its types alone *)

\* What the loop leaves alone keeps its type.
LEMMA KeptTypes ==
  /\ RunType /\ UNCHANGED runVars => RunType'
  /\ QueueType /\ UNCHANGED queueVars => QueueType'
  /\ SignalType /\ UNCHANGED signalVars => SignalType'
  /\ EndType /\ UNCHANGED endVars => EndType'
  /\ EmitType /\ UNCHANGED emitVars => EmitType'
  /\ ContextType /\ UNCHANGED <<resulted, ctx, inputVars>> => ContextType'
  /\ TurnType /\ UNCHANGED turnVars => TurnType'
  /\ BatchType /\ UNCHANGED <<batchVars, next>> => BatchType'
  /\ FailType /\ UNCHANGED failVars => FailType'
  /\ ToolType /\ UNCHANGED toolVars => ToolType'
<1>1. /\ RunType /\ UNCHANGED runVars => RunType'
      /\ QueueType /\ UNCHANGED queueVars => QueueType'
      /\ SignalType /\ UNCHANGED signalVars => SignalType'
      /\ EndType /\ UNCHANGED endVars => EndType'
  BY DEF RunType, runVars, QueueType, queueVars, SignalType, signalVars, EndType,
         endVars
<1>2. EmitType /\ UNCHANGED emitVars => EmitType'
  BY DEF EmitType, emitVars
<1>3. /\ ContextType /\ UNCHANGED <<resulted, ctx, inputVars>> => ContextType'
      /\ TurnType /\ UNCHANGED turnVars => TurnType'
  BY DEF ContextType, inputVars, TurnType, turnVars
<1>4. /\ BatchType /\ UNCHANGED <<batchVars, next>> => BatchType'
      /\ FailType /\ UNCHANGED failVars => FailType'
      /\ ToolType /\ UNCHANGED toolVars => ToolType'
  BY DEF BatchType, batchVars, FailType, failVars, ToolType, toolVars
<1>5. QED
  BY <1>1, <1>2, <1>3, <1>4

\* A step of the loop that only emits an event or moves on.
LEMMA KeepsType ==
  ASSUME TypeOK, LoopKeeps, EmitType', pc' \in Label,
         pc' = "promptEnd" => prompts # <<>>,
         pc' = "injectEnd" => pending # <<>>,
         pc' \in {"called", "preparing", "awaitTool", "resultEnd"} => next <= Len(batch),
         pc' = "failedTurn" => response \in {"error", "aborted"}
  PROVE  TypeOK'
<1>1. ControlOK'
  BY DEF ControlOK, LoopKeeps, inputVars, batchVars
<1>2. QED
  BY <1>1, KeptTypes DEF TypeOK, LoopKeeps, LoopFrame

\* A step that emits an event and otherwise moves on preserves TypeOK.
LEMMA EmitsType ==
  ASSUME TypeOK, LoopKeeps, NEW ev \in Emittable, NEW l \in Label, LoopEmits(ev, l),
         l \notin {"promptEnd", "injectEnd", "called", "preparing", "awaitTool",
                   "resultEnd", "failedTurn"}
  PROVE  TypeOK'
  BY LoopEmitsType, KeepsType DEF TypeOK

\* A step that only moves on preserves TypeOK.
LEMMA GoesOnType ==
  ASSUME TypeOK, LoopKeeps, NEW l \in Label, GoTo(l),
         l \notin {"promptEnd", "injectEnd", "called", "preparing", "awaitTool",
                   "resultEnd", "failedTurn"}
  PROVE  TypeOK'
  BY KeptTypes, KeepsType DEF TypeOK, GoTo
-----------------------------------------------------------------------------
(* The public methods of Agent *)

\* What is drained from a queue, and what is left of it, are sequences of messages.
LEMMA DrainType ==
  ASSUME NEW q \in Seq(Text), NEW mode
  PROVE  Drained(q, mode) \in Seq(Text) /\ Remaining(q, mode) \in Seq(Text)
<1>1. CASE mode = "all" \/ q = <<>>
  BY <1>1, EmptySeq DEF Drained, Remaining
<1>2. CASE ~(mode = "all" \/ q = <<>>)
  <2>1. Head(q) \in Text /\ Tail(q) \in Seq(Text)
    BY <1>2, HeadTailProperties
  <2>2. <<Head(q)>> \in Seq(Text)
    BY <2>1
  <2>3. QED
    BY <1>2, <2>1, <2>2 DEF Drained, Remaining
<1>3. QED
  BY <1>1, <1>2

\* The messages of some user texts are messages.
LEMMA UsersType ==
  ASSUME NEW ts \in Seq(Text)
  PROVE  Users(ts) \in Seq(Message)
<1>1. \A i \in 1 .. Len(ts) : User(ts[i]) \in Message
  BY UserType, ElementOfSeq
<1>2. Len(ts) \in Nat
  BY LenProperties
<1> DEFINE M == Message
           u(i) == User(ts[i])
<1>3. \A i \in 1 .. Len(ts) : u(i) \in M
  BY <1>1
<1> HIDE DEF M, u
<1>4. [i \in 1 .. Len(ts) |-> u(i)] \in Seq(M)
  BY <1>2, <1>3
<1>5. QED
  BY <1>4 DEF Users, M, u

\* Starting a run preserves TypeOK.
LEMMA StartRunType ==
  ASSUME TypeOK, NEW ps \in Seq(Text), NEW skip \in BOOLEAN, StartRun(ps, skip),
         QueueType'
  PROVE  TypeOK'
<1>1. RunType'
  BY AgentRunAssumption DEF TypeOK, RunType, StartRun, Run
<1>2. SignalType' /\ BatchType' /\ FailType' /\ ToolType'
  <2>1. SignalType' /\ FailType' /\ ToolType'
    BY KeptTypes DEF TypeOK, StartRun
  <2>2. BatchType'
    BY DEF TypeOK, StartRun, BatchType
  <2>3. QED
    BY <2>1, <2>2
<1>3. EndType'
  BY DEF StartRun, EndType
<1>4. EmitType'
  <2>1. Plain("agent_start") \in Event
    BY EventTypes DEF EventType, Emittable
  <2>2. runs + 1 \in Run
    BY AgentRunAssumption DEF TypeOK, RunType, StartRun, Run
  <2>3. Emitting(Plain("agent_start"), runs + 1) \in Emission
    BY <2>1, <2>2, EmittingType
  <2>4. (out \in [Coroutine -> Emission])'
    BY <2>3 DEF TypeOK, EmitType, StartRun
  <2>5. QED
    BY <2>4 DEF TypeOK, EmitType, StartRun
<1>5. ContextType'
  <2>1. (ctx \in Seq(Message))'
    BY UsersType, ConcatProperties DEF TypeOK, EmitType, StartRun
  <2>2. (prompts \in Seq(Text) /\ pending \in Seq(Text))'
    BY EmptySeq DEF StartRun
  <2>3. (resulted \subseteq Call)'
    BY DEF StartRun
  <2>4. (skipPoll \in BOOLEAN)'
    BY DEF StartRun
  <2>5. QED
    BY <2>1, <2>2, <2>3, <2>4 DEF ContextType
<1>6. TurnType'
  BY DEF StartRun, TurnType
<1>7. ControlOK'
  BY DEF StartRun, ControlOK, Label
<1>8. QED
  BY <1>1, <1>2, <1>3, <1>4, <1>5, <1>6, <1>7 DEF TypeOK

\* What the user does to the queues and the signal leaves the loop alone.
LEMMA OutsideType ==
  ASSUME TypeOK, UNCHANGED Outside, QueueType'
  PROVE  TypeOK'
<1>1. ControlOK'
  BY DEF TypeOK, ControlOK, Outside, inputVars, batchVars
<1>2. QED
  BY <1>1, KeptTypes DEF TypeOK, Outside

\* Every method of Agent that the user calls preserves TypeOK.
LEMMA UserStepType == ASSUME TypeOK, UserStep PROVE TypeOK'
<1> USE AgentRunAssumption
<1>0. steeringQueue \in Seq(Text) /\ followUpQueue \in Seq(Text)
  BY DEF TypeOK, QueueType
<1>1. CASE Prompt
  <2>1. <<sent + 1>> \in Seq(Text) /\ QueueType'
    BY <1>1 DEF TypeOK, QueueType, Prompt, Text
  <2>2. QED
    BY <1>1, <2>1, StartRunType DEF Prompt
<1>2. CASE ContinueFromTranscript
  <2>1. QueueType'
    BY <1>2, KeptTypes DEF TypeOK, ContinueFromTranscript
  <2>2. QED
    BY <1>2, <2>1, StartRunType, EmptySeq DEF ContinueFromTranscript
<1>3. CASE ContinueFromQueues
  <2>1. QueueType'
    BY <1>0, <1>3, DrainType DEF TypeOK, QueueType, ContinueFromQueues
  <2>2. QED
    BY <1>0, <1>3, <2>1, DrainType, StartRunType DEF ContinueFromQueues
<1>4. CASE Steer \/ FollowUp
  <2>1. sent + 1 \in Text /\ sent + 1 \in 0 .. MaxTexts
    BY <1>4 DEF TypeOK, QueueType, Steer, FollowUp, Text
  <2>2. QueueType'
    <3>1. /\ Append(steeringQueue, sent + 1) \in Seq(Text)
          /\ Append(followUpQueue, sent + 1) \in Seq(Text)
      BY <1>0, <2>1
    <3>2. QED
      BY <1>4, <2>1, <3>1 DEF TypeOK, QueueType, Steer, FollowUp
  <2>3. QED
    BY <1>4, <2>2, OutsideType DEF Steer, FollowUp
<1>5. CASE ClearSteeringQueue \/ ClearFollowUpQueue
  <2>1. ElementsOf(steeringQueue) \subseteq Text /\ ElementsOf(followUpQueue) \subseteq Text
    BY <1>0 DEF ElementsOf
  <2>2. QueueType'
    BY <1>0, <1>5, <2>1, EmptySeq
       DEF TypeOK, QueueType, ClearSteeringQueue, ClearFollowUpQueue
  <2>3. QED
    BY <1>5, <2>2, OutsideType DEF ClearSteeringQueue, ClearFollowUpQueue
<1>6. CASE Abort
  <2>1. SignalType'
    BY <1>6 DEF TypeOK, SignalType, Abort
  <2>2. ControlOK'
    BY <1>6 DEF TypeOK, ControlOK, Abort, inputVars, batchVars
  <2>3. QED
    BY <1>6, <2>1, <2>2, KeptTypes DEF TypeOK, Abort
<1>7. QED
  BY <1>1, <1>2, <1>3, <1>4, <1>5, <1>6 DEF UserStep

-----------------------------------------------------------------------------
(* Awaiting the listeners *)

\* Delivering an event to a listener, which may fail, preserves TypeOK.
LEMMA ListenerStepType == ASSUME TypeOK, ListenerStep PROVE TypeOK'
<1>1. PICK co \in Coroutine :
         \/ Commit(co) \/ Throw(co)
         \/ \E l \in Listener : Skip(co, l) \/ Deliver(co, l) \/ Fail(co, l)
  BY DEF ListenerStep
<1>2. /\ out[co].ev \in Event /\ out[co].run \in {0} \cup Run
      /\ out[co].todo \subseteq Listener /\ out[co].fatal \in BOOLEAN
      /\ out[co] \in Emission
  BY DEF TypeOK, EmitType, Emission
<1>3. CASE Commit(co)
  <2>1. phase' \in [Call -> ToolFailurePhase \cup {"none"}]
    BY <1>3, PhaseSetType DEF TypeOK, EmitType, Commit, CommittedPhase, ToolFailurePhase
  <2>2. EmitType'
    BY <1>3, <2>1, QuietType DEF TypeOK, EmitType, Commit
  <2>3. EndType'
    BY <1>2, <1>3 DEF TypeOK, EndType, Commit, Event
  <2>4. ToolType'
    BY <1>3 DEF TypeOK, ToolType, Commit
  <2>5. ContextType'
    BY <1>2, <1>3 DEF TypeOK, ContextType, inputVars, Commit, Event, Message
  <2>6. ControlOK'
    BY <1>3 DEF TypeOK, ControlOK, Commit, inputVars, batchVars
  <2>7. QED
    BY <1>3, <2>2, <2>3, <2>4, <2>5, <2>6, KeptTypes DEF TypeOK, Commit
<1>4. CASE Throw(co)
  <2>1. EmitType'
    BY <1>4, QuietType DEF TypeOK, EmitType, Throw
  <2>2. ToolType'
    BY <1>4 DEF TypeOK, ToolType, Throw
  <2>3. ControlOK'
    BY <1>4 DEF TypeOK, ControlOK, Throw, inputVars, batchVars, Label
  <2>4. QED
    BY <1>4, <2>1, <2>2, <2>3, KeptTypes DEF TypeOK, Throw
<1>5. ASSUME NEW l \in Listener, Skip(co, l) \/ Deliver(co, l) \/ Fail(co, l)
      PROVE  TypeOK'
  <2>1. EmitType'
    <3>1. \A f \in BOOLEAN : Awaited(out[co], l, f) \in Emission
      BY <1>2 DEF Emission, Awaited
    <3>2. \E f \in BOOLEAN : out' = [out EXCEPT ![co] = Awaited(@, l, f)]
      <4>1. FALSE \in BOOLEAN /\ (l \in Fatal) \in BOOLEAN
        OBVIOUS
      <4>2. QED
        BY <1>5, <4>1 DEF Skip, Deliver, Fail
    <3>3. out' \in [Coroutine -> Emission]
      BY <3>1, <3>2 DEF TypeOK, EmitType
    <3>4. QED
      BY <1>5, <3>3 DEF TypeOK, EmitType, Skip, Deliver, Fail
  <2>2. SignalType'
    <3>1. CASE Skip(co, l) \/ Deliver(co, l)
      BY <3>1, KeptTypes DEF TypeOK, Skip, Deliver
    <3>2. CASE Fail(co, l)
      <4>1. (failed \in [Run -> SUBSET Listener])'
        BY <3>2 DEF TypeOK, SignalType, Fail
      <4>2. (critical \in [Run -> BOOLEAN])'
        BY <3>2 DEF TypeOK, SignalType, Fail
      <4>3. (abort \in [Run -> {"none", "user", "listener"}])'
        BY <3>2 DEF TypeOK, SignalType, Fail
      <4>4. (failures \in 0 .. MaxFailures)'
        BY <3>2, AgentRunAssumption DEF TypeOK, SignalType, Fail
      <4>5. QED
        BY <4>1, <4>2, <4>3, <4>4 DEF SignalType
    <3>3. QED
      BY <1>5, <3>1, <3>2
  <2>3. EndType'
    <3>1. CASE Skip(co, l) \/ Fail(co, l)
      BY <3>1, KeptTypes DEF TypeOK, Skip, Fail
    <3>2. CASE Deliver(co, l)
      BY <3>2 DEF TypeOK, EndType, Deliver
    <3>3. QED
      BY <1>5, <3>1, <3>2
  <2>4. ControlOK'
    BY <1>5 DEF TypeOK, ControlOK, Skip, Deliver, Fail, inputVars, batchVars
  <2>5. QED
    BY <1>5, <2>1, <2>2, <2>3, <2>4, KeptTypes DEF TypeOK, Skip, Deliver, Fail
<1>6. QED
  BY <1>1, <1>3, <1>4, <1>5
-----------------------------------------------------------------------------
(* The loop *)

\* The loop outside the responses and batches preserves TypeOK.
LEMMA RunStepsType == ASSUME TypeOK, RunSteps PROVE TypeOK'
<1>0. /\ EmitType /\ RunType /\ ControlOK
      /\ prompts \in Seq(Text) /\ pending \in Seq(Text) /\ ctx \in Seq(Message)
      /\ steeringQueue \in Seq(Text) /\ followUpQueue \in Seq(Text)
  BY DEF TypeOK, ContextType, QueueType
<1>1. CASE RunStarted
  BY <1>1, EmitsType, EventTypes DEF RunStarted, EventType, Label
<1>2. CASE PromptStart
  <2>1. User(Head(prompts)) \in Message
    BY <1>0, <1>2, UserType, HeadTailProperties DEF PromptStart
  <2>2. EmitType' /\ pc' = "promptEnd"
    BY <1>0, <1>2, <2>1, EventTypes, LoopEmitsType DEF PromptStart
  <2>3. QED
    BY <1>2, <2>2, KeepsType DEF PromptStart, Label
<1>3. CASE PromptEnd
  <2>1. Head(prompts) \in Text /\ Tail(prompts) \in Seq(Text)
    BY <1>0, <1>3, HeadTailProperties DEF PromptEnd, At, ControlOK
  <2>2. EmitType' /\ pc' = "prompts"
    BY <1>0, <1>3, <2>1, UserType, EventTypes, LoopEmitsType DEF PromptEnd
  <2>3. ContextType'
    BY <1>3, <2>1 DEF TypeOK, ContextType, PromptEnd, LoopFrame
  <2>4. ControlOK'
    BY <2>2 DEF ControlOK, Label
  <2>5. QED
    BY <1>3, <2>2, <2>3, <2>4, KeptTypes DEF TypeOK, PromptEnd, LoopFrame
<1>4. CASE InitialPoll
  <2>1. QueueType'
    BY <1>0, <1>4, DrainType, EmptySeq DEF TypeOK, QueueType, InitialPoll
  <2>2. ContextType'
    BY <1>0, <1>4, DrainType, EmptySeq DEF TypeOK, ContextType, InitialPoll, LoopFrame
  <2>3. ControlOK'
    BY <1>4 DEF InitialPoll, GoTo, ControlOK, Label
  <2>4. QED
    BY <1>4, <2>1, <2>2, <2>3, KeptTypes DEF TypeOK, InitialPoll, GoTo, LoopFrame
<1>5. CASE TurnAborted \/ TurnsLimited \/ NoFollowUps
  <2>1. \E r \in Reason : Ends(r)
    BY <1>5 DEF TurnAborted, TurnsLimited, NoFollowUps, Reason
  <2>2. QED
    BY <2>1, EmitsType, EventTypes DEF Ends, Label
<1>6. CASE FirstTurn
  <2>1. TurnType'
    BY <1>6 DEF TypeOK, TurnType, FirstTurn
  <2>2. ControlOK'
    BY <1>6 DEF FirstTurn, GoTo, ControlOK, Label
  <2>3. QED
    BY <1>6, <2>1, <2>2, KeptTypes DEF TypeOK, FirstTurn, GoTo, LoopFrame
<1>7. CASE NextTurn
  <2>1. EmitType' /\ pc' = "inject"
    BY <1>0, <1>7, EventTypes, LoopEmitsType DEF NextTurn, EventType
  <2>2. TurnType'
    BY <1>7 DEF TypeOK, TurnType, NextTurn
  <2>3. ControlOK'
    BY <2>1 DEF ControlOK, Label
  <2>4. QED
    BY <1>7, <2>1, <2>2, <2>3, KeptTypes DEF TypeOK, NextTurn, LoopFrame
<1>8. CASE FollowUps
  <2>1. QueueType'
    BY <1>0, <1>8, DrainType DEF TypeOK, QueueType, FollowUps
  <2>2. ContextType'
    BY <1>0, <1>8, DrainType DEF TypeOK, ContextType, FollowUps, LoopFrame
  <2>3. TurnType'
    BY <1>8 DEF TypeOK, TurnType, FollowUps
  <2>4. ControlOK'
    BY <1>8 DEF FollowUps, GoTo, ControlOK, Label
  <2>5. QED
    BY <1>8, <2>1, <2>2, <2>3, <2>4, KeptTypes DEF TypeOK, FollowUps, GoTo, LoopFrame
<1>9. CASE InjectStart
  <2>1. User(Head(pending)) \in Message
    BY <1>0, <1>9, UserType, HeadTailProperties DEF InjectStart
  <2>2. EmitType' /\ pc' = "injectEnd"
    BY <1>0, <1>9, <2>1, EventTypes, LoopEmitsType DEF InjectStart
  <2>3. QED
    BY <1>9, <2>2, KeepsType DEF InjectStart, Label
<1>10. CASE InjectEnd
  <2>1. User(Head(pending)) \in Message /\ Tail(pending) \in Seq(Text)
    BY <1>0, <1>10, UserType, HeadTailProperties DEF InjectEnd, At, ControlOK
  <2>2. EmitType' /\ pc' = "inject"
    BY <1>0, <1>10, <2>1, EventTypes, LoopEmitsType DEF InjectEnd
  <2>3. ctx' \in Seq(Message)
    BY <1>0, <1>10, <2>1, AppendProperties DEF InjectEnd
  <2>4. ContextType'
    BY <1>10, <2>1, <2>3 DEF TypeOK, ContextType, InjectEnd, LoopFrame
  <2>5. ControlOK'
    BY <2>2 DEF ControlOK, Label
  <2>6. QED
    BY <1>10, <2>2, <2>4, <2>5, KeptTypes DEF TypeOK, InjectEnd, LoopFrame
<1>11. QED
  BY <1>1, <1>2, <1>3, <1>4, <1>5, <1>6, <1>7, <1>8, <1>9, <1>10 DEF RunSteps

\* Streaming a response preserves TypeOK.
LEMMA StreamStepsType == ASSUME TypeOK, StreamSteps PROVE TypeOK'
<1>0. EmitType /\ RunType /\ ControlOK /\ ctx \in Seq(Message)
  BY DEF TypeOK, ContextType
<1>1. CASE StreamStart
  <2>1. Assistant(<<>>, "stop") \in Message
    BY AssistantType, EmptySeq DEF Stop
  <2>2. QED
    BY <1>1, <2>1, EmitsType, EventTypes DEF StreamStart, Label
<1>2. CASE StreamThrows
  BY <1>2, GoesOnType DEF StreamThrows, Label
<1>3. ASSUME NEW n \in 0 .. MaxBatch, NEW s \in Stop, StreamDone(n, s)
      PROVE  TypeOK'
  <2> DEFINE cs == [i \in 1 .. n |-> used + i]
  <2>1. cs \in Seq(Call)
    BY <1>3, AgentRunAssumption DEF TypeOK, BatchType, StreamDone, Call
  <2>2. Assistant(cs, s) \in Message /\ Assistant(cs, s).calls = cs
    BY <2>1, AssistantType DEF Assistant
  <2>3. EmitType' /\ pc' = "response"
    BY <1>0, <1>3, <2>2, EventTypes, LoopEmitsType DEF StreamDone
  <2>4. BatchType'
    <3>1. batch' = cs
      BY <1>3, <2>2 DEF StreamDone
    <3>2. used' \in 0 .. MaxCalls
      BY <1>3, AgentRunAssumption DEF TypeOK, BatchType, StreamDone
    <3>3. UNCHANGED <<accepted, plan, next>> /\ response' = s
      BY <1>3 DEF StreamDone
    <3> HIDE DEF cs
    <3>4. QED
      BY <2>1, <3>1, <3>2, <3>3 DEF TypeOK, BatchType
  <2>5. ctx' \in Seq(Message)
    BY <1>0, <1>3, <2>2, AppendProperties DEF StreamDone
  <2>6. ContextType'
    BY <1>3, <2>5 DEF TypeOK, ContextType, StreamDone, LoopFrame, inputVars
  <2>7. ControlOK'
    BY <2>3 DEF ControlOK, Label
  <2>8. QED
    BY <1>3, <2>3, <2>4, <2>6, <2>7, KeptTypes DEF TypeOK, StreamDone, LoopFrame
<1>4. CASE ResponseFailed
  <2>1. EmitType' /\ pc' = "failedTurn"
    BY <1>0, <1>4, EventTypes, LoopEmitsType DEF ResponseFailed, EventType
  <2>2. QED
    BY <1>4, <2>1, KeepsType DEF ResponseFailed, Label
<1>5. CASE FailedTurn
  <2>1. response \in Reason
    BY <1>0, <1>5 DEF FailedTurn, At, ControlOK, Reason
  <2>2. QED
    BY <1>5, <2>1, EmitsType, EventTypes DEF FailedTurn, Ends, Label
<1>6. CASE NoCalls
  <2>1. EmitType' /\ pc' = "turnEnded"
    BY <1>0, <1>6, EventTypes, LoopEmitsType DEF NoCalls, EventType
  <2>2. TurnType' /\ BatchType'
    BY <1>6 DEF TypeOK, TurnType, BatchType, NoCalls
  <2>3. ControlOK'
    BY <2>1 DEF ControlOK, Label
  <2>4. QED
    BY <1>6, <2>1, <2>2, <2>3, KeptTypes DEF TypeOK, NoCalls, LoopFrame
<1>7. CASE PlanBatch
  <2>1. BatchPlans \subseteq {"limit", "truncated", "parallel", "sequential"}
    BY AgentRunAssumption DEF BatchPlans, ExecutionModes
  <2>2. BatchType'
    BY <1>7, <2>1, LenProperties DEF TypeOK, BatchType, PlanBatch
  <2>3. TurnType'
    BY <1>7 DEF TypeOK, TurnType, PlanBatch
  <2>4. ControlOK'
    BY <1>7 DEF PlanBatch, GoTo, ControlOK, Label
  <2>5. QED
    BY <1>7, <2>2, <2>3, <2>4, KeptTypes DEF TypeOK, PlanBatch, GoTo, LoopFrame
<1>8. QED
  BY <1>1, <1>2, <1>3, <1>4, <1>5, <1>6, <1>7 DEF StreamSteps

\* A call that ends at once, in either mode.
LEMMA EndsAtOnceType ==
  ASSUME TypeOK, EndsAtOnce, next <= Len(batch)
  PROVE  TypeOK'
<1>0. EmitType /\ RunType
  BY DEF TypeOK
<1>1. Current \in Call
  BY ElementOfSeq DEF TypeOK, BatchType, Current
<1>2. EmitType' /\ pc' \in {"calls", "result"}
  BY <1>0, <1>1, EventTypes, LoopEmitsType DEF EndsAtOnce
<1>3. ToolType'
  BY <1>1 DEF TypeOK, ToolType, EndsAtOnce, Outcome
<1>4. BatchType'
  BY DEF TypeOK, BatchType, EndsAtOnce, batchVars
<1>5. ControlOK'
  BY <1>2 DEF ControlOK, Label
<1>6. QED
  BY <1>2, <1>3, <1>4, <1>5, KeptTypes DEF TypeOK, EndsAtOnce, LoopFrame

\* Emitting the ends of some calls keeps the type of what that changes.
LEMMA ToolsEmitEndType ==
  ASSUME RunType, EmitType, NEW cs \in SUBSET Call, ToolsEmitEnd(cs)
  PROVE  EmitType'
<1>1. \A c \in cs : Emitting(ToolEnd(c), activeRun) \in Emission
  BY EventTypes, EmittingType DEF RunType, Emittable
<1>2. (out \in [Coroutine -> Emission])'
  BY <1>1 DEF ToolsEmitEnd, EmitType
<1>3. (phase \in [Call -> ToolFailurePhase \cup {"none"}])'
  BY PhaseSetType DEF ToolsEmitEnd, ToolFailurePhase
<1>4. QED
  BY <1>2, <1>3 DEF EmitType, ToolsEmitEnd

\* The results of a batch are messages.
LEMMA BatchResultsType ==
  ASSUME TypeOK
  PROVE  BatchResults \in Seq(Message)
<1>1. \A i \in 1 .. Len(batch) : batch[i] \in Call
  BY ElementOfSeq DEF TypeOK, BatchType
<1>2. \A i \in 1 .. Len(batch) : outcome[batch[i]] \in Outcome
  BY <1>1 DEF TypeOK, ToolType
<1>3. Len(batch) \in Nat
  BY LenProperties DEF TypeOK, BatchType
<1> DEFINE M == Message
           r(i) == Result(batch[i], outcome[batch[i]])
<1>4. \A i \in 1 .. Len(batch) : r(i) \in M
  BY <1>1, <1>2, ResultType
<1> HIDE DEF M, r
<1>5. [i \in 1 .. Len(batch) |-> r(i)] \in Seq(M)
  BY <1>3, <1>4
<1>6. QED
  BY <1>5 DEF BatchResults, M, r

\* Handling a batch of tool calls preserves TypeOK.
LEMMA BatchStepsType == ASSUME TypeOK, BatchSteps PROVE TypeOK'
<1>0. /\ EmitType /\ RunType /\ ControlOK /\ ctx \in Seq(Message)
      /\ steeringQueue \in Seq(Text) /\ next \in Nat \ {0} /\ batch \in Seq(Call)
      /\ Len(batch) \in Nat
  BY LenProperties DEF TypeOK, ContextType, QueueType, BatchType
<1>a. next <= Len(batch) => Current \in Call /\ outcome[Current] \in Outcome
  BY <1>0, ElementOfSeq DEF TypeOK, ToolType, Current
<1>1. CASE CallStart
  <2>1. EmitType' /\ pc' = "called"
    BY <1>0, <1>a, <1>1, EventTypes, LoopEmitsType DEF CallStart
  <2>2. QED
    BY <1>1, <2>1, KeepsType DEF CallStart, Label
<1>2. CASE CallFailed \/ CallAborted \/ CallImmediate
  <2>1. next <= Len(batch) /\ EndsAtOnce
    BY <1>0, <1>2 DEF CallFailed, CallAborted, CallImmediate, ControlOK, At
  <2>2. QED
    BY <2>1, EndsAtOnceType
<1>3. CASE CallPrepares
  <2>1. EmitType' /\ pc' = "preparing" /\ next <= Len(batch)
    BY <1>0, <1>3, KeptTypes DEF CallPrepares, GoTo, ControlOK, At
  <2>2. QED
    BY <1>3, <2>1, KeepsType DEF CallPrepares, Label
<1>4. CASE CallPrepared
  <2>1. next <= Len(batch)
    BY <1>0, <1>4 DEF CallPrepared, ControlOK, At
  <2>2. EmitType' /\ pc' \in {"calls", "awaitTool"}
    BY <1>0, <1>4, KeptTypes DEF CallPrepared, GoTo
  <2>3. ToolType'
    BY <1>4 DEF TypeOK, ToolType, CallPrepared
  <2>4. BatchType'
    BY <1>4 DEF TypeOK, BatchType, CallPrepared, batchVars
  <2>5. ControlOK'
    BY <1>4, <2>1, <2>2 DEF CallPrepared, GoTo, ControlOK, Label, batchVars
  <2>6. QED
    BY <1>4, <2>2, <2>3, <2>4, <2>5, KeptTypes DEF TypeOK, CallPrepared, LoopFrame
<1>5. CASE SequentialExecute
  <2>1. next <= Len(batch)
    BY <1>0, <1>5 DEF SequentialExecute, ControlOK, At
  <2>2. EmitType' /\ pc' = "awaitTool"
    BY <1>0, <1>5, KeptTypes DEF SequentialExecute, GoTo
  <2>3. ToolType'
    BY <1>5, <1>a, <2>1 DEF TypeOK, ToolType, SequentialExecute
  <2>4. ControlOK'
    BY <1>5, <2>1, <2>2 DEF SequentialExecute, ControlOK, Label, batchVars
  <2>5. QED
    BY <1>5, <2>2, <2>3, <2>4, KeptTypes DEF TypeOK, SequentialExecute, LoopFrame
<1>6. ASSUME NEW o \in {"ok", "terminate", "error"}, SequentialReturn(o)
      PROVE  TypeOK'
  <2>1. next <= Len(batch)
    BY <1>0, <1>6 DEF SequentialReturn, ControlOK, At
  <2>2. EmitType' /\ pc' = "result"
    BY <1>0, <1>a, <1>6, <2>1, EventTypes, LoopEmitsType DEF SequentialReturn
  <2>3. ToolType'
    BY <1>6, <1>a, <2>1 DEF TypeOK, ToolType, SequentialReturn, Outcome
  <2>4. ControlOK'
    BY <2>2 DEF ControlOK, Label
  <2>5. QED
    BY <1>6, <2>2, <2>3, <2>4, KeptTypes DEF TypeOK, SequentialReturn, LoopFrame
<1>7. CASE ParallelExecute
  <2>1. CallsToEnd \in SUBSET Call /\ CallsToExecute \subseteq Call
    BY <1>0, ElementOfSeq
       DEF CallsToEnd, CallsToExecute, PreparedCalls, BatchCalls, ElementsOf
  <2>2. EmitType'
    BY <1>0, <1>7, <2>1, ToolsEmitEndType DEF ParallelExecute
  <2>3. ToolType'
    BY <1>7, <2>1 DEF TypeOK, ToolType, ParallelExecute, Outcome
  <2>4. ControlOK'
    BY <1>7 DEF ParallelExecute, ControlOK, Label
  <2>5. QED
    BY <1>7, <2>2, <2>3, <2>4, KeptTypes DEF TypeOK, ParallelExecute, LoopFrame
<1>8. CASE Join
  <2>1. BatchType'
    BY <1>8 DEF TypeOK, BatchType, Join, batchVars
  <2>2. ControlOK'
    BY <1>8 DEF Join, GoTo, ControlOK, Label
  <2>3. QED
    BY <1>8, <2>1, <2>2, KeptTypes DEF TypeOK, Join, GoTo, LoopFrame
<1>9. CASE JoinThrows \/ PrepareNextTurnThrows
  BY <1>9, GoesOnType DEF JoinThrows, PrepareNextTurnThrows, Label
<1>10. CASE ResultStart
  <2>1. EmitType' /\ pc' = "resultEnd"
    BY <1>0, <1>a, <1>10, ResultType, EventTypes, LoopEmitsType DEF ResultStart
  <2>2. QED
    BY <1>10, <2>1, KeepsType DEF ResultStart, Label
<1>11. CASE ResultEnd
  <2>1. next <= Len(batch)
    BY <1>0, <1>11 DEF ResultEnd, ControlOK, At
  <2>2. EmitType' /\ pc' \in {"result", "calls"}
    BY <1>0, <1>a, <1>11, <2>1, ResultType, EventTypes, LoopEmitsType DEF ResultEnd
  <2>3. BatchType'
    BY <1>11 DEF TypeOK, BatchType, ResultEnd, batchVars
  <2>4. ControlOK'
    BY <2>2 DEF ControlOK, Label
  <2>5. QED
    BY <1>11, <2>2, <2>3, <2>4, KeptTypes DEF TypeOK, ResultEnd, LoopFrame
<1>12. CASE BatchDone
  <2>1. EmitType' /\ pc' = "turnEnded"
    BY <1>0, <1>12, EventTypes, LoopEmitsType DEF BatchDone, EventType
  <2>2. ctx' \in Seq(Message)
    BY <1>0, <1>12, BatchResultsType, ConcatProperties DEF BatchDone
  <2>3. ContextType'
    BY <1>12, <2>2 DEF TypeOK, ContextType, BatchDone, LoopFrame, inputVars
  <2>4. TurnType'
    BY <1>12 DEF TypeOK, TurnType, BatchDone
  <2>5. ControlOK'
    BY <2>1 DEF ControlOK, Label
  <2>6. QED
    BY <1>12, <2>1, <2>3, <2>4, <2>5, KeptTypes DEF TypeOK, BatchDone, LoopFrame
<1>13. CASE CallsLimited
  <2>1. "limit" \in Reason
    BY DEF Reason
  <2>2. QED
    BY <1>13, <2>1, EmitsType, EventTypes DEF CallsLimited, Ends, Label
<1>14. CASE PollSteering
  <2>1. QueueType'
    BY <1>0, <1>14, DrainType DEF TypeOK, QueueType, PollSteering
  <2>2. ContextType'
    BY <1>0, <1>14, DrainType DEF TypeOK, ContextType, PollSteering, LoopFrame
  <2>3. ControlOK'
    BY <1>14 DEF PollSteering, GoTo, ControlOK, Label
  <2>4. QED
    BY <1>14, <2>1, <2>2, <2>3, KeptTypes DEF TypeOK, PollSteering, GoTo, LoopFrame
<1>15. QED
  BY <1>1, <1>2, <1>3, <1>4, <1>5, <1>6, <1>7, <1>8, <1>9, <1>10, <1>11, <1>12,
     <1>13, <1>14 DEF BatchSteps

-----------------------------------------------------------------------------
(* Terminalization, the end of the run, and tool calls that go on *)

\* terminalizeFailure and finishRun preserve TypeOK.
LEMMA FailureStepsType == ASSUME TypeOK, FailureSteps PROVE TypeOK'
<1>0. EmitType /\ RunType /\ verdict \in {"aborted", "error"}
  BY DEF TypeOK, FailType
<1>a. Assistant(<<>>, verdict) \in Message
  BY <1>0, AssistantType, EmptySeq DEF Stop
<1>1. CASE Catch
  <2>1. EmitType'
    BY <1>0, <1>1, KeptTypes, EventTypes, LoopEmitsType DEF Catch, GoTo, EventType
  <2>2. FailType'
    BY <1>1 DEF TypeOK, FailType, Catch
  <2>3. ControlOK'
    BY <1>1 DEF Catch, GoTo, LoopEmits, ControlOK, Label, SafeLabel
  <2>4. QED
    BY <1>1, <2>1, <2>2, <2>3, KeptTypes DEF TypeOK, Catch, LoopFrame
<1>2. CASE SynthesizeResults
  <2>1. {Result(c, phase[c]) : c \in Unmatched} \subseteq Message
    <3>1. \A c \in Unmatched : c \in Call /\ phase[c] \in Outcome
      BY <1>0 DEF EmitType, Unmatched, Outcome
    <3>2. QED
      BY <3>1, ResultType
  <2>2. FailType'
    BY <1>2, <2>1 DEF TypeOK, FailType, SynthesizeResults
  <2>3. ControlOK'
    BY <1>2 DEF SynthesizeResults, GoTo, ControlOK, Label, SafeLabel
  <2>4. QED
    BY <1>2, <2>2, <2>3, KeptTypes DEF TypeOK, SynthesizeResults, GoTo, LoopFrame
<1>3. ASSUME NEW m \in fixups, FixStart(m)
      PROVE  TypeOK'
  <2>1. m \in Message
    BY <1>3 DEF TypeOK, FailType
  <2>2. QED
    BY <1>3, <2>1, EmitsType, EventTypes DEF FixStart, Label, SafeLabel
<1>4. ASSUME NEW m \in fixups, FixEnd(m)
      PROVE  TypeOK'
  <2>1. m \in Message
    BY <1>4 DEF TypeOK, FailType
  <2>2. EmitType' /\ pc' = "fix"
    BY <1>0, <1>4, <2>1, EventTypes, LoopEmitsType DEF FixEnd
  <2>3. FailType'
    BY <1>4 DEF TypeOK, FailType, FixEnd
  <2>4. ControlOK'
    BY <2>2 DEF ControlOK, Label, SafeLabel
  <2>5. QED
    BY <1>4, <2>2, <2>3, <2>4, KeptTypes DEF TypeOK, FixEnd, LoopFrame
<1>5. CASE FailStart \/ FailEnd
  BY <1>5, <1>a, EmitsType, EventTypes
     DEF FailStart, FailEnd, FailureMessage, Label, SafeLabel
<1>6. CASE FailTurn
  BY <1>6, EmitsType, GoesOnType, EventTypes DEF FailTurn, EventType, Label, SafeLabel
<1>7. CASE FailAgent
  <2>1. verdict \in Reason
    BY <1>0 DEF Reason
  <2>2. QED
    BY <1>7, <2>1, EmitsType, EventTypes DEF FailAgent, Label, SafeLabel
<1>8. CASE FinishRun
  <2>1. RunType'
    BY <1>8 DEF TypeOK, RunType, EndType, FinishRun, FinalTermination, Reason
  <2>2. EmitType'
    BY <1>8 DEF TypeOK, EmitType, FinishRun
  <2>3. ControlOK'
    BY <1>8 DEF FinishRun, ControlOK, Label
  <2>4. QED
    BY <1>8, <2>1, <2>2, <2>3, KeptTypes DEF TypeOK, FinishRun
<1>9. QED
  BY <1>1, <1>2, <1>3, <1>4, <1>5, <1>6, <1>7, <1>8 DEF FailureSteps

\* A tool call that executes in parallel preserves TypeOK.
LEMMA ToolStepType == ASSUME TypeOK, ToolStep PROVE TypeOK'
<1>1. PICK c \in Call, o \in {"ok", "terminate", "error"} : ParallelReturn(c, o)
  BY DEF ToolStep
<1>2. EmitType'
  <2>1. CASE activeRun = 0
    BY <1>1, <2>1, PhaseSetType DEF TypeOK, EmitType, ParallelReturn, ToolFailurePhase
  <2>2. CASE activeRun # 0
    BY <1>1, <2>2, ToolsEmitEndType DEF TypeOK, ParallelReturn
  <2>3. QED
    BY <2>1, <2>2
<1>3. ToolType'
  BY <1>1 DEF TypeOK, ToolType, ParallelReturn, Outcome
<1>4. ControlOK'
  BY <1>1 DEF TypeOK, ControlOK, ParallelReturn, inputVars, batchVars
<1>5. QED
  BY <1>1, <1>2, <1>3, <1>4, KeptTypes DEF TypeOK, ParallelReturn

-----------------------------------------------------------------------------
(* The type invariant *)

\* Every step of the agent, the tools, the listeners and the user preserves TypeOK.
LEMMA NextType == ASSUME TypeOK, [Next]_vars PROVE TypeOK'
<1>1. CASE Next
  BY <1>1, UserStepType, RunStepsType, StreamStepsType, BatchStepsType,
     FailureStepsType, ToolStepType, ListenerStepType DEF Next, LoopStep
<1>2. CASE UNCHANGED vars
  <2>1. UNCHANGED <<Outside, queueVars>>
    BY <1>2 DEF vars, Outside, runVars, queueVars, signalVars, endVars, emitVars,
                inputVars, turnVars, batchVars, failVars, toolVars
  <2>2. QED
    BY <2>1, OutsideType, KeptTypes DEF TypeOK
<1>3. QED
  BY <1>1, <1>2

\* In every run of the agent each variable has its type, and the loop finds what it
\* reads when it resumes after an await: the message whose listeners it waited for,
\* the current call of the batch, the reason of a failed turn (agent-loop.ts,
\* runLoop; agent.ts, processEvents).
THEOREM TypeCorrect == Spec => []TypeOK
<1>1. Init => TypeOK
  BY InitType
<1>2. TypeOK /\ [Next]_vars => TypeOK'
  BY NextType
<1>3. QED
  BY <1>1, <1>2, PTL DEF Spec

-----------------------------------------------------------------------------
(* Which calls are executed.  That no call of a cut-off response is executed is  *)
(* not inductive: executed grows by calls of the batch, whose response may be in *)
(* the transcript or may still be on its way there.  ExecInv relates the batch,  *)
(* the plan made for it and the transcript.                                      *)

BatchLabel == {"calls", "called", "preparing", "awaitTool", "join", "result",
               "resultEnd"}

\* Every call is one that was requested, in the transcript and in the batch.
OnlyRequested ==
  /\ executed \subseteq 1 .. used /\ BatchCalls \subseteq 1 .. used
  /\ \A i \in DOMAIN transcript : CallsOf(transcript[i]) \subseteq 1 .. used

\* The calls that are, or may come to be, executed are those of finished responses.
OnlyFinished ==
  \A i \in DOMAIN transcript :
     transcript[i].stop # "stop" =>
        /\ CallsOf(transcript[i]) \cap executed = {}
        /\ response = "stop" => CallsOf(transcript[i]) \cap BatchCalls = {}

\* While the loop is at the batch, its plan is the one made for the last response.
PlanFits ==
  /\ pc \in BatchLabel /\ ToBeExecuted => response = "stop"
  /\ pc \in {"preparing", "awaitTool"} => ToBeExecuted
  /\ pc \in BatchLabel /\ plan = "sequential" => "sequential" \in ExecutionModes
  /\ pc = "awaitTool" => plan = "sequential"

FixupsAskNothing == \A m \in fixups : CallsOf(m) = {}

ExecInv == OnlyRequested /\ OnlyFinished /\ PlanFits /\ FixupsAskNothing

\* The transcript gains no assistant message with calls.
NothingAsked ==
  \A i \in DOMAIN transcript' :
     \/ CallsOf(transcript'[i]) = {}
     \/ \E j \in DOMAIN transcript : transcript'[i] = transcript[j]

\* The messages after recording one are those before and the recorded one.
LEMMA RecordedElements ==
  ASSUME NEW S, NEW ms \in Seq(S), NEW m \in S
  PROVE  \A i \in DOMAIN Recorded(ms, m) :
            \/ Recorded(ms, m)[i] = m
            \/ \E j \in DOMAIN ms : Recorded(ms, m)[i] = ms[j]
<1>1. \A i \in DOMAIN Append(ms, m) :
         Append(ms, m)[i] = m \/ \E j \in DOMAIN ms : Append(ms, m)[i] = ms[j]
  BY AppendProperties
<1>2. \A k : \A i \in DOMAIN [ms EXCEPT ![k] = m] :
         \/ [ms EXCEPT ![k] = m][i] = m
         \/ \E j \in DOMAIN ms : [ms EXCEPT ![k] = m][i] = ms[j]
  OBVIOUS
<1>3. QED
  BY <1>1, <1>2 DEF Recorded

\* A message without calls asks for none.
LEMMA NoCallsAsked ==
  /\ \A t : CallsOf(User(t)) = {}
  /\ \A c, o : CallsOf(Result(c, o)) = {}
  /\ \A s : CallsOf(Assistant(<<>>, s)) = {}
  BY DEF CallsOf, User, Result, Assistant

\* An event asks nothing unless it ends an assistant message with calls.
LEMMA EmitsAsksNothing ==
  ASSUME TypeOK, NEW ev \in Emittable, NEW l, LoopEmits(ev, l),
         ev.type = "message_end" => CallsOf(ev.msg) = {}
  PROVE  NothingAsked
<1>1. CASE ev.type = "message_end"
  <2>1. transcript' = Recorded(transcript, ev.msg)
    BY <1>1 DEF LoopEmits, Process
  <2>2. transcript \in Seq(Message) /\ ev.msg \in Message
    BY DEF TypeOK, EmitType, Emittable, Event
  <2>3. QED
    BY <1>1, <2>1, <2>2, RecordedElements DEF NothingAsked
<1>2. CASE ev.type # "message_end"
  BY <1>2 DEF LoopEmits, Process, NothingAsked
<1>3. QED
  BY <1>1, <1>2

\* A step that emits nothing asks for no call.
LEMMA StaysAsksNothing ==
  ASSUME UNCHANGED transcript PROVE NothingAsked
  BY DEF NothingAsked

\* Nothing asked and nothing executed: the first two parts are kept.
LEMMA RequestsKept ==
  ASSUME OnlyRequested, OnlyFinished, NothingAsked,
         UNCHANGED <<executed, used, batch, response>>
  PROVE  OnlyRequested' /\ OnlyFinished'
<1>1. BatchCalls' = BatchCalls
  BY DEF BatchCalls, ElementsOf
<1>2. OnlyRequested'
  BY <1>1 DEF OnlyRequested, NothingAsked
<1>3. OnlyFinished'
  BY <1>1 DEF OnlyFinished, NothingAsked
<1>4. QED
  BY <1>2, <1>3

\* A step that asks and executes nothing and does not enter the batch.
LEMMA ExecKept ==
  ASSUME ExecInv, NothingAsked, pc' \notin BatchLabel \/ pc' = pc,
         UNCHANGED <<executed, used, batch, plan, response, fixups>>
  PROVE  ExecInv'
<1>1. OnlyRequested' /\ OnlyFinished'
  BY RequestsKept DEF ExecInv
<1>2. PlanFits'
  BY DEF ExecInv, PlanFits, BatchLabel, ToBeExecuted, ExecutionModes
<1>3. FixupsAskNothing'
  BY DEF ExecInv, FixupsAskNothing
<1>4. QED
  BY <1>1, <1>2, <1>3 DEF ExecInv

\* The user starts a run, sends or clears messages, or aborts.
LEMMA UserDoes ==
  UserStep => (\E ps, skip : StartRun(ps, skip)) \/ UNCHANGED Outside \/ Abort
  BY DEF UserStep, Prompt, ContinueFromTranscript, ContinueFromQueues, Steer, FollowUp,
         ClearSteeringQueue, ClearFollowUpQueue

\* Users, listeners and calls that execute preserve ExecInv.
LEMMA ExecOutside == ASSUME ExecInv, UserStep \/ ListenerStep \/ ToolStep PROVE ExecInv'
<1>1. UNCHANGED <<transcript, executed, used, batch, plan, response, fixups>>
  <2>1. CASE UserStep
    <3>1. (\E ps, skip : StartRun(ps, skip)) \/ UNCHANGED Outside \/ Abort
      BY <2>1, UserDoes
    <3>2. QED
      BY <3>1 DEF StartRun, Outside, Abort, emitVars, batchVars, failVars, toolVars
  <2>2. CASE ListenerStep
    BY <2>2 DEF ListenerStep, Skip, Deliver, Fail, Commit, Throw, batchVars, failVars,
                toolVars
  <2>3. CASE ToolStep
    BY <2>3 DEF ToolStep, ParallelReturn, ToolsEmitEnd, batchVars, failVars
  <2>4. QED
    BY <2>1, <2>2, <2>3
<1>2. pc' \notin BatchLabel \/ pc' = pc
  <2>1. CASE UserStep
    BY <2>1 DEF UserStep, Prompt, ContinueFromTranscript, ContinueFromQueues, StartRun,
                Steer, FollowUp, ClearSteeringQueue, ClearFollowUpQueue, Abort, Outside,
                BatchLabel
  <2>2. CASE ListenerStep \/ ToolStep
    BY <2>2 DEF ListenerStep, Skip, Deliver, Fail, Commit, Throw, ToolStep,
                ParallelReturn, BatchLabel
  <2>3. QED
    BY <2>1, <2>2
<1>3. QED
  BY <1>1, <1>2, StaysAsksNothing, ExecKept

\* The loop outside the responses and batches preserves ExecInv.
LEMMA ExecRun == ASSUME TypeOK, ExecInv, RunSteps PROVE ExecInv'
<1>1. UNCHANGED <<executed, batchVars, fixups>>
  BY DEF RunSteps, RunStarted, PromptStart, PromptEnd, InitialPoll, TurnAborted,
         TurnsLimited, FirstTurn, NextTurn, FollowUps, NoFollowUps, InjectStart,
         InjectEnd, Ends, LoopKeeps, failVars, toolVars
<1>2. pc' \notin BatchLabel
  BY DEF RunSteps, RunStarted, PromptStart, PromptEnd, InitialPoll, TurnAborted,
         TurnsLimited, FirstTurn, NextTurn, FollowUps, NoFollowUps, InjectStart,
         InjectEnd, Ends, LoopEmits, GoTo, BatchLabel
<1>3. transcript' = transcript \/ \E t : transcript' = Recorded(transcript, User(t))
  BY DEF RunSteps, RunStarted, PromptStart, PromptEnd, InitialPoll, TurnAborted,
         TurnsLimited, FirstTurn, NextTurn, FollowUps, NoFollowUps, InjectStart,
         InjectEnd, Ends, LoopEmits, Process, GoTo, emitVars, Plain, MessageStart,
         MessageEnd, AgentEnd
<1>4. NothingAsked
  <2>1. ASSUME NEW t, transcript' = Recorded(transcript, User(t)) PROVE NothingAsked
    <3> DEFINE S == Message \cup {User(t)}
    <3>1. transcript \in Seq(S)
      BY SeqMonotonic DEF TypeOK, EmitType
    <3>2. QED
      BY <2>1, <3>1, RecordedElements, NoCallsAsked DEF NothingAsked
  <2>2. QED
    BY <1>3, <2>1, StaysAsksNothing
<1>5. QED
  BY <1>1, <1>2, <1>4, ExecKept DEF batchVars

\* Streaming a response preserves ExecInv: its calls are new.
LEMMA ExecStream == ASSUME TypeOK, ExecInv, StreamSteps PROVE ExecInv'
<1>1. CASE StreamStart \/ StreamThrows \/ ResponseFailed \/ FailedTurn
  <2>1. UNCHANGED <<executed, batchVars, fixups>>
    BY <1>1 DEF StreamStart, StreamThrows, ResponseFailed, FailedTurn, Ends, LoopKeeps,
                failVars, toolVars
  <2>2. UNCHANGED transcript /\ pc' \notin BatchLabel
    BY <1>1 DEF StreamStart, StreamThrows, ResponseFailed, FailedTurn, Ends, LoopEmits,
                Process, GoTo, emitVars, Plain, MessageStart, AgentEnd, BatchLabel
  <2>3. QED
    BY <2>1, <2>2, StaysAsksNothing, ExecKept DEF batchVars
<1>2. ASSUME NEW n \in 0 .. MaxBatch, NEW s \in Stop, StreamDone(n, s)
      PROVE  ExecInv'
  <2> DEFINE cs == [i \in 1 .. n |-> used + i]
             m == Assistant(cs, s)
             new == {used + i : i \in 1 .. n}
  <2>0. used \in Nat /\ n \in Nat
    BY AgentRunAssumption DEF TypeOK, BatchType
  <2>1. batch' = cs /\ used' = used + n /\ response' = s /\ pc' = "response"
    BY <1>2 DEF StreamDone, Assistant, LoopEmits
  <2>2. UNCHANGED <<executed, plan, fixups>>
    BY <1>2 DEF StreamDone, failVars, toolVars
  <2>3. transcript' = Recorded(transcript, m)
    BY <1>2 DEF StreamDone, LoopEmits, Process, MessageEnd, Plain
  <2>4. CallsOf(m) = new /\ BatchCalls' = new /\ m.stop = s
    BY <2>1 DEF CallsOf, Assistant, BatchCalls, ElementsOf
  <2> HIDE DEF cs, m
  <2>5. \A i \in DOMAIN transcript' :
           transcript'[i] = m \/ \E j \in DOMAIN transcript : transcript'[i] = transcript[j]
    <3> DEFINE S == Message \cup {m}
    <3>1. transcript \in Seq(S)
      BY SeqMonotonic DEF TypeOK, EmitType
    <3>2. QED
      BY <2>3, <3>1, RecordedElements
  <2>6. new \subseteq 1 .. used' /\ 1 .. used \subseteq 1 .. used' /\ new \cap 1 .. used = {}
    BY <2>0, <2>1
  <2> HIDE DEF new
  <2>7. OnlyRequested'
    BY <2>2, <2>4, <2>5, <2>6 DEF ExecInv, OnlyRequested
  <2>8. OnlyFinished'
    BY <2>1, <2>2, <2>4, <2>5, <2>6 DEF ExecInv, OnlyRequested, OnlyFinished
  <2>9. PlanFits' /\ FixupsAskNothing'
    BY <2>1, <2>2 DEF ExecInv, PlanFits, FixupsAskNothing, BatchLabel
  <2>10. QED
    BY <2>7, <2>8, <2>9 DEF ExecInv
<1>3. CASE NoCalls \/ PlanBatch
  <2>1. UNCHANGED <<executed, used, batch, response, fixups>>
    BY <1>3 DEF NoCalls, PlanBatch, failVars, toolVars
  <2>2. UNCHANGED transcript
    BY <1>3 DEF NoCalls, PlanBatch, LoopEmits, Process, GoTo, emitVars, Plain
  <2>3. OnlyRequested' /\ OnlyFinished'
    BY <2>1, <2>2, StaysAsksNothing, RequestsKept DEF ExecInv
  <2>4. PlanFits'
    BY <1>3, <2>1 DEF TypeOK, BatchType, Stop, NoCalls, PlanBatch, BatchPlans, LoopEmits,
                      ExecutionModes, ToBeExecuted, GoTo, PlanFits, BatchLabel
  <2>5. QED
    BY <2>1, <2>3, <2>4 DEF ExecInv, FixupsAskNothing
<1>4. QED
  BY <1>1, <1>2, <1>3 DEF StreamSteps

\* The calls a step of the batch executes are those of a finished response.
LEMMA ExecutesFinished ==
  ASSUME ExecInv, NothingAsked, response = "stop", NEW cs \in SUBSET BatchCalls,
         executed' = executed \cup cs, UNCHANGED <<used, batch, response>>
  PROVE  OnlyRequested' /\ OnlyFinished'
<1>1. BatchCalls' = BatchCalls
  BY DEF BatchCalls, ElementsOf
<1>2. OnlyRequested'
  BY <1>1 DEF ExecInv, OnlyRequested, NothingAsked
<1>3. OnlyFinished'
  BY <1>1 DEF ExecInv, OnlyFinished, NothingAsked
<1>4. QED
  BY <1>2, <1>3

\* Handling a batch preserves ExecInv: it executes calls of a finished response only.
LEMMA ExecBatch == ASSUME TypeOK, ExecInv, BatchSteps PROVE ExecInv'
<1>1. UNCHANGED <<used, batch, plan, response, fixups>>
  BY DEF BatchSteps, CallStart, CallFailed, CallAborted, CallImmediate, EndsAtOnce,
         CallPrepares, CallPrepared, SequentialExecute, SequentialReturn,
         ParallelExecute, Join, JoinThrows, ResultStart, ResultEnd, BatchDone,
         CallsLimited, PrepareNextTurnThrows, PollSteering, Ends, LoopKeeps, batchVars,
         failVars
<1>2. transcript' = transcript \/ \E c, o : transcript' = Recorded(transcript, Result(c, o))
  BY DEF BatchSteps, CallStart, CallFailed, CallAborted, CallImmediate, EndsAtOnce,
         CallPrepares, CallPrepared, SequentialExecute, SequentialReturn,
         ParallelExecute, Join, JoinThrows, ResultStart, ResultEnd, BatchDone,
         CallsLimited, PrepareNextTurnThrows, PollSteering, Ends, LoopEmits, Process,
         ToolsEmitEnd, GoTo, emitVars, Plain, MessageStart, MessageEnd, ToolStart,
         ToolEnd, AgentEnd
<1>3. NothingAsked
  <2>1. ASSUME NEW c, NEW o, transcript' = Recorded(transcript, Result(c, o))
        PROVE  NothingAsked
    <3> DEFINE S == Message \cup {Result(c, o)}
    <3>1. transcript \in Seq(S)
      BY SeqMonotonic DEF TypeOK, EmitType
    <3>2. QED
      BY <2>1, <3>1, RecordedElements, NoCallsAsked DEF NothingAsked
  <2>2. QED
    BY <1>2, <2>1, StaysAsksNothing
<1>4. OnlyRequested' /\ OnlyFinished'
  <2>1. CASE SequentialExecute
    <3>1. response = "stop" /\ executed' = executed \cup {Current}
      BY <2>1 DEF ExecInv, PlanFits, SequentialExecute, At, BatchLabel
    <3>2. Current \in BatchCalls
      <4>1. next \in 1 .. Len(batch)
        BY <2>1, LenProperties DEF TypeOK, ControlOK, BatchType, SequentialExecute, At
      <4>2. QED
        BY <4>1, LenProperties DEF TypeOK, BatchType, Current, BatchCalls, ElementsOf
    <3>3. QED
      BY <1>1, <1>3, <3>1, <3>2, ExecutesFinished
  <2>2. CASE ParallelExecute
    <3>1. response = "stop" /\ executed' = executed \cup CallsToExecute
      BY <2>2 DEF ExecInv, PlanFits, ParallelExecute, InParallel, At, BatchLabel,
                      ToBeExecuted
    <3>2. CallsToExecute \subseteq BatchCalls
      BY DEF CallsToExecute, PreparedCalls
    <3>3. QED
      BY <1>1, <1>3, <3>1, <3>2, ExecutesFinished
  <2>3. CASE ~SequentialExecute /\ ~ParallelExecute
    <3>1. UNCHANGED executed
      BY <2>3 DEF BatchSteps, CallStart, CallFailed, CallAborted, CallImmediate,
         EndsAtOnce, CallPrepares, CallPrepared, SequentialReturn, Join, JoinThrows,
         ResultStart, ResultEnd, BatchDone, CallsLimited, PrepareNextTurnThrows,
         PollSteering, Ends, LoopKeeps, toolVars
    <3>2. QED
      BY <1>1, <1>3, <3>1, RequestsKept DEF ExecInv
  <2>4. QED
    BY <2>1, <2>2, <2>3
<1>5. PlanFits'
  <2>1. pc' \in BatchLabel => pc \in BatchLabel
    BY DEF BatchSteps, CallStart, CallFailed, CallAborted, CallImmediate, EndsAtOnce,
         CallPrepares, CallPrepared, SequentialExecute, SequentialReturn,
         ParallelExecute, Join, JoinThrows, ResultStart, ResultEnd, BatchDone,
         CallsLimited, PrepareNextTurnThrows, PollSteering, Ends, LoopEmits, GoTo, At,
         BatchLabel
  <2>2. pc' \in {"preparing", "awaitTool"} => ToBeExecuted
    BY DEF BatchSteps, CallStart, CallFailed, CallAborted, CallImmediate, EndsAtOnce,
         CallPrepares, CallPrepared, SequentialExecute, SequentialReturn,
         ParallelExecute, Join, JoinThrows, ResultStart, ResultEnd, BatchDone,
         CallsLimited, PrepareNextTurnThrows, PollSteering, Ends, LoopEmits, GoTo, At,
         ExecInv, PlanFits
  <2>3. pc' = "awaitTool" => plan = "sequential"
    BY DEF BatchSteps, CallStart, CallFailed, CallAborted, CallImmediate, EndsAtOnce,
         CallPrepares, CallPrepared, SequentialExecute, SequentialReturn,
         ParallelExecute, Join, JoinThrows, ResultStart, ResultEnd, BatchDone,
         CallsLimited, PrepareNextTurnThrows, PollSteering, Ends, LoopEmits, GoTo, At,
         ExecInv, PlanFits, InParallel, ToBeExecuted
  <2>4. QED
    BY <1>1, <2>1, <2>2, <2>3 DEF ExecInv, PlanFits, ToBeExecuted, ExecutionModes
<1>6. QED
  BY <1>1, <1>4, <1>5 DEF ExecInv, FixupsAskNothing

\* terminalizeFailure and finishRun preserve ExecInv: they ask for no call.
LEMMA ExecFailure == ASSUME TypeOK, ExecInv, FailureSteps PROVE ExecInv'
<1>1. UNCHANGED <<executed, used, batch, plan, response>>
  BY DEF FailureSteps, Catch, SynthesizeResults, FixStart, FixEnd, FailStart, FailEnd,
         FailTurn, FailAgent, FinishRun, LoopKeeps, batchVars, toolVars
<1>2. pc' \notin BatchLabel
  BY DEF FailureSteps, Catch, SynthesizeResults, FixStart, FixEnd, FailStart, FailEnd,
         FailTurn, FailAgent, FinishRun, LoopEmits, GoTo, BatchLabel
<1>3. PlanFits'
  BY <1>2 DEF PlanFits, BatchLabel
<1>4. NothingAsked
  <2>1. CASE \E m \in fixups : FixEnd(m)
    <3>1. PICK m \in fixups : FixEnd(m)
      BY <2>1
    <3>2. CallsOf(m) = {} /\ m \in Message
      BY DEF ExecInv, FixupsAskNothing, TypeOK, FailType
    <3>3. QED
      BY <3>1, <3>2, EventTypes, EmitsAsksNothing DEF FixEnd, MessageEnd, Plain
  <2>2. CASE FailEnd
    <3>1. Assistant(<<>>, verdict) \in Message
      BY AssistantType, EmptySeq DEF TypeOK, FailType, Stop
    <3>2. QED
      BY <2>2, <3>1, NoCallsAsked, EventTypes, EmitsAsksNothing
         DEF FailEnd, FailureMessage, MessageEnd, Plain
  <2>3. CASE ~FailEnd /\ ~\E m \in fixups : FixEnd(m)
    <3>1. UNCHANGED transcript
      BY <2>3 DEF FailureSteps, Catch, SynthesizeResults, FixStart, FailStart, FailTurn,
         FailAgent, FinishRun, LoopEmits, Process, GoTo, emitVars, Plain, MessageStart,
         AgentEnd
    <3>2. QED
      BY <3>1, StaysAsksNothing
  <2>4. QED
    BY <2>1, <2>2, <2>3
<1>5. FixupsAskNothing'
  <2>1. CASE SynthesizeResults
    BY <2>1, NoCallsAsked DEF SynthesizeResults, FixupsAskNothing
  <2>2. CASE ~SynthesizeResults
    <3>1. fixups' \subseteq fixups
      BY <2>2 DEF FailureSteps, Catch, FixStart, FixEnd, FailStart, FailEnd, FailTurn,
         FailAgent, FinishRun, LoopKeeps, failVars
    <3>2. QED
      BY <3>1 DEF ExecInv, FixupsAskNothing
  <2>3. QED
    BY <2>1, <2>2
<1>6. QED
  BY <1>1, <1>3, <1>4, <1>5, RequestsKept DEF ExecInv

\* Initially nothing was asked or executed.
LEMMA InitExec == Init => ExecInv
  BY DEF Init, ExecInv, OnlyRequested, OnlyFinished, PlanFits, FixupsAskNothing,
         BatchCalls, ElementsOf, BatchLabel

\* Every step preserves ExecInv.
LEMMA NextExec == ASSUME TypeOK, ExecInv, [Next]_vars PROVE ExecInv'
<1>1. CASE Next
  BY <1>1, ExecOutside, ExecRun, ExecStream, ExecBatch, ExecFailure DEF Next, LoopStep
<1>2. CASE UNCHANGED vars
  BY <1>2, StaysAsksNothing, ExecKept DEF vars
<1>3. QED
  BY <1>1, <1>2

\* In every reachable state the calls executed are among those a recorded response asked
\* for, and each was asked for by a response that finished (agent-loop.ts, runLoop).
THEOREM ExecInvariant == Spec => []ExecInv
<1>1. Init => TypeOK /\ ExecInv
  BY InitType, InitExec
<1>2. TypeOK /\ ExecInv /\ [Next]_vars => (TypeOK /\ ExecInv)'
  BY NextType, NextExec
<1>3. QED
  BY <1>1, <1>2, PTL DEF Spec

\* No call of a response that was cut off at the output limit, failed or was aborted
\* is ever executed, in either mode, whatever fails and whenever the user aborts
\* (agent-loop.ts, runLoop: failToolCallsFromTruncatedMessage, the early return after
\* an error or an abort, and terminalizeFailure, which executes nothing).
THEOREM FinishedResponsesOnly == Spec => []OnlyFinishedResponsesExecute
<1>1. ExecInv => OnlyFinishedResponsesExecute
  BY DEF ExecInv, OnlyFinished, OnlyFinishedResponsesExecute
<1>2. QED
  BY <1>1, ExecInvariant, PTL

\* In parallel mode, without sequential tools, nothing is executed once the signal of
\* the run is aborted, by the user or by a fatal listener (agent-loop.ts,
\* executeToolCallsParallel: the closures look at the signal before they execute).
THEOREM AbortStopsExecution ==
  ASSUME ToolExecution = "parallel", ~SequentialTools
  PROVE  Spec => NoExecutionAfterAbort
<1>1. ExecInv /\ [Next]_vars => [executed' # executed => abort[activeRun] = "none"]_vars
  <2> SUFFICES ASSUME ExecInv, [Next]_vars, executed' # executed
               PROVE  abort[activeRun] = "none"
    OBVIOUS
  <2>1. Next
    BY DEF vars
  <2>2. ~(UserStep \/ ListenerStep \/ ToolStep \/ RunSteps \/ StreamSteps \/ FailureSteps)
    <3>1. CASE UserStep
      <4>1. (\E ps, skip : StartRun(ps, skip)) \/ UNCHANGED Outside \/ Abort
        BY <3>1, UserDoes
      <4>2. QED
        BY <4>1 DEF StartRun, Outside, Abort, toolVars
    <3>2. CASE ListenerStep \/ ToolStep
      BY <3>2 DEF ListenerStep, Skip, Deliver, Fail, Commit, Throw, ToolStep,
                  ParallelReturn, toolVars
    <3>3. CASE RunSteps \/ StreamSteps
      BY <3>3 DEF RunSteps, RunStarted, PromptStart, PromptEnd, InitialPoll, TurnAborted,
           TurnsLimited, FirstTurn, NextTurn, FollowUps, NoFollowUps, InjectStart,
           InjectEnd, StreamSteps, StreamStart, StreamThrows, StreamDone,
           ResponseFailed, FailedTurn, NoCalls, PlanBatch, Ends, LoopKeeps, toolVars
    <3>4. CASE FailureSteps
      BY <3>4 DEF FailureSteps, Catch, SynthesizeResults, FixStart, FixEnd, FailStart,
           FailEnd, FailTurn, FailAgent, FinishRun, LoopKeeps, toolVars
    <3>5. QED
      BY <3>1, <3>2, <3>3, <3>4
  <2>3. SequentialExecute \/ ParallelExecute
    BY <2>1, <2>2 DEF Next, LoopStep, BatchSteps, CallStart, CallFailed, CallAborted,
       CallImmediate, EndsAtOnce, CallPrepares, CallPrepared, SequentialReturn, Join,
       JoinThrows, ResultStart, ResultEnd, BatchDone, CallsLimited,
       PrepareNextTurnThrows, PollSteering, Ends, LoopKeeps, toolVars
  <2>4. ~SequentialExecute
    BY DEF SequentialExecute, At, ExecInv, PlanFits, BatchLabel, ExecutionModes
  <2>5. ParallelExecute
    BY <2>3, <2>4
  <2>6. ~Aborted
    BY <2>5 DEF ParallelExecute, CallsToExecute
  <2>7. QED
    BY <2>6 DEF Aborted
<1>2. QED
  BY <1>1, ExecInvariant, PTL DEF Spec, NoExecutionAfterAbort

-----------------------------------------------------------------------------
(* How far the calls are *)

Emits(co, t) == out[co].ev.type = t

\* Ids are given once.
SeparateCalls == \A i, j \in DOMAIN batch : batch[i] = batch[j] => i = j

\* A call's own coroutine emits nothing but its end.
CallsEmit ==
  \A c \in Call : ~IsQuiet(c) => tool[c] = "ending" /\ Emits(c, "tool_execution_end")

\* A call that was prepared, or ended without, was requested; it no longer counts as
\* not started.
Begun == \A c \in Call : tool[c] # "none" => c <= used /\ phase[c] # "not-started"

\* Only such calls were executed; a call that runs or succeeded was.
ExecutedBegun == \A c \in executed : tool[c] # "none"
OutcomesTrue ==
  \A c \in Call : /\ tool[c] = "running" => c \in executed
                  /\ outcome[c] \in {"ok", "terminate"} => c \in executed
                  /\ outcome[c] \in {"ok", "terminate", "error"}

ResponseNew == pc = "response" => \A c \in BatchCalls : tool[c] = "none"

\* Where the loop is in the batch: before it no call has begun, behind it, and in the
\* whole batch once a parallel one is joined, all have ended.
Progress ==
  /\ next <= Len(batch) + 1
  /\ pc \in {"calls", "called", "preparing"} =>
       \A i \in DOMAIN batch : i >= next => tool[batch[i]] = "none"
  /\ ~InParallel => \A i \in DOMAIN batch : /\ i < next => tool[batch[i]] = "done"
                                            /\ i > next => tool[batch[i]] = "none"
  /\ ~InParallel /\ pc \in {"result", "resultEnd"} => next <= Len(batch) /\ tool[Current] = "done"
  /\ InParallel /\ pc \in {"result", "resultEnd"} => \A i \in DOMAIN batch : tool[batch[i]] = "done"
  /\ pc = "join" => InParallel
  /\ pc = "awaitTool" => ~InParallel /\ tool[Current] \in {"prepared", "running"}

\* A call is started before it is prepared; while it is prepared, or calls are awaited,
\* the loop emits nothing.
Started ==
  /\ pc = "called" => IF IsQuiet(Loop) THEN phase[Current] # "not-started"
                      ELSE out[Loop].ev = ToolStart(Current)
  /\ pc = "preparing" => phase[Current] # "not-started"
  /\ pc \in {"preparing", "awaitTool", "join"} => IsQuiet(Loop)

ToolInv ==
  /\ SeparateCalls /\ CallsEmit /\ Begun /\ ExecutedBegun /\ OutcomesTrue /\ ResponseNew
  /\ (pc \in BatchLabel => Progress)
  /\ Started

-----------------------------------------------------------------------------
(* Steps that concern no call *)

\* An event that starts no call and requests none.
Calm(ev) ==
  /\ ev.type # "tool_execution_start"
  /\ ev.type = "message_end" /\ ev.msg.role = "assistant" => CallsOf(ev.msg) = {}

\* The loop goes on, or emits such an event.
Calmly == (\E l : GoTo(l)) \/ (\E ev \in Emittable : \E l : Calm(ev) /\ LoopEmits(ev, l))

\* The loop and the calls are different coroutines.
LEMMA Coroutines == Loop \in Coroutine /\ Loop \notin Call /\ Call \subseteq Coroutine
  BY AgentRunAssumption DEF Loop, Call, Coroutine

\* The events that start and end no tool call do not disturb ToolInv.
LEMMA CalmEvents ==
  /\ \A t \in {"agent_start", "turn_start", "turn_end"} : Calm(Plain(t))
  /\ \A m : Calm(MessageStart(m))
  /\ \A t : Calm(MessageEnd(User(t)))
  /\ \A c, o : Calm(MessageEnd(Result(c, o)))
  /\ \A s : Calm(MessageEnd(Assistant(<<>>, s)))
  /\ \A c : Calm(ToolEnd(c))
  /\ \A r : Calm(AgentEnd(r))
<1>1. /\ \A t : Plain(t).type = t
      /\ \A m : MessageStart(m).type = "message_start"
      /\ \A m : MessageEnd(m).type = "message_end" /\ MessageEnd(m).msg = m
      /\ \A c : ToolEnd(c).type = "tool_execution_end"
      /\ \A r : AgentEnd(r).type = "agent_end"
  BY DEF Plain, MessageStart, MessageEnd, ToolEnd, AgentEnd
<1>2. /\ \A t : User(t).role = "user"
      /\ \A c, o : Result(c, o).role = "toolResult"
  BY DEF User, Result
<1>3. QED
  BY <1>1, <1>2, NoCallsAsked DEF Calm

\* Observing such an event makes no call count as not started, and asks for none.
LEMMA PhaseCalm ==
  ASSUME TypeOK, NEW ev, Calm(ev)
  PROVE  \A c \in Call :
           /\ ObservedPhase(ev)[c] = "not-started" => phase[c] = "not-started"
           /\ ObservedPhase(ev)[c] # "none" <=> phase[c] # "none"
  BY DEF TypeOK, EmitType, Calm, ObservedPhase, PhaseSet

\* What a calm step leaves of the emissions and the phases.
LEMMA CalmKeeps ==
  ASSUME TypeOK, Calmly
  PROVE  /\ \A c \in Call : out'[c] = out[c]
         /\ \A c \in Call : /\ phase'[c] = "not-started" => phase[c] = "not-started"
                            /\ phase'[c] # "none" <=> phase[c] # "none"
<1>1. CASE \E l : GoTo(l)
  BY <1>1 DEF GoTo, emitVars
<1>2. CASE \E ev \in Emittable : \E l : Calm(ev) /\ LoopEmits(ev, l)
  <2>1. PICK ev, l : Calm(ev) /\ LoopEmits(ev, l)
    BY <1>2
  <2>2. phase' = ObservedPhase(ev) /\ out' = [out EXCEPT ![Loop] = Emitting(ev, activeRun)]
    BY <2>1 DEF LoopEmits, Observe
  <2>3. \A c \in Call : out'[c] = out[c]
    BY <2>2, Coroutines DEF TypeOK, EmitType
  <2>4. QED
    BY <2>1, <2>2, <2>3, PhaseCalm
<1>3. QED
  BY <1>1, <1>2 DEF Calmly

\* Outside the responses and batches ToolInv is kept by whatever leaves the calls alone.
LEMMA ToolKept ==
  ASSUME ToolInv, UNCHANGED <<batch, tool, used, executed, outcome>>,
         pc' \notin {"response"} \cup BatchLabel,
         \A c \in Call : out'[c] = out[c],
         \A c \in Call : phase'[c] = "not-started" => phase[c] = "not-started"
  PROVE  ToolInv'
<1>1. SeparateCalls' /\ CallsEmit'
  BY DEF ToolInv, SeparateCalls, CallsEmit, Emits, IsQuiet
<1>2. Begun' /\ ExecutedBegun' /\ OutcomesTrue'
  BY DEF ToolInv, Begun, ExecutedBegun, OutcomesTrue
<1>3. ResponseNew' /\ Started' /\ pc' \notin BatchLabel
  BY DEF ResponseNew, Started, BatchLabel
<1>4. QED
  BY <1>1, <1>2, <1>3 DEF ToolInv

\* The loop outside responses and batches is calm.
LEMMA RunCalm == ASSUME TypeOK, RunSteps PROVE Calmly
<1>1. CASE RunStarted \/ NextTurn
  BY <1>1, CalmEvents, EventTypes DEF RunStarted, NextTurn, Calmly, EventType
<1>2. CASE PromptStart
  <2>1. Head(prompts) \in Text
    BY <1>2 DEF PromptStart, TypeOK, ContextType
  <2>2. QED
    BY <1>2, <2>1, UserType, CalmEvents, EventTypes DEF PromptStart, Calmly
<1>3. CASE PromptEnd
  <2>1. Head(prompts) \in Text
    BY <1>3 DEF PromptEnd, At, TypeOK, ContextType, ControlOK
  <2>2. QED
    BY <1>3, <2>1, UserType, CalmEvents, EventTypes DEF PromptEnd, Calmly
<1>4. CASE InjectStart
  <2>1. Head(pending) \in Text
    BY <1>4 DEF InjectStart, TypeOK, ContextType
  <2>2. QED
    BY <1>4, <2>1, UserType, CalmEvents, EventTypes DEF InjectStart, Calmly
<1>5. CASE InjectEnd
  <2>1. Head(pending) \in Text
    BY <1>5 DEF InjectEnd, At, TypeOK, ContextType, ControlOK
  <2>2. QED
    BY <1>5, <2>1, UserType, CalmEvents, EventTypes DEF InjectEnd, Calmly
<1>6. CASE InitialPoll \/ FirstTurn \/ FollowUps
  BY <1>6 DEF InitialPoll, FirstTurn, FollowUps, Calmly
<1>7. CASE TurnAborted \/ TurnsLimited \/ NoFollowUps
  BY <1>7, CalmEvents, EventTypes DEF TurnAborted, TurnsLimited, NoFollowUps, Ends, Calmly, Reason
<1>8. QED
  BY <1>1, <1>2, <1>3, <1>4, <1>5, <1>6, <1>7 DEF RunSteps

\* So is it while a response streams, until the response is complete.
LEMMA StreamCalm ==
  ASSUME TypeOK, StreamSteps, ~\E n \in 0 .. MaxBatch, s \in Stop : StreamDone(n, s)
  PROVE  Calmly
<1>1. CASE StreamStart
  <2>1. Assistant(<<>>, "stop") \in Message
    BY AssistantType, EmptySeq DEF Stop
  <2>2. QED
    BY <1>1, <2>1, CalmEvents, EventTypes DEF StreamStart, Calmly
<1>2. CASE StreamThrows \/ PlanBatch
  BY <1>2 DEF StreamThrows, PlanBatch, Calmly
<1>3. CASE ResponseFailed \/ NoCalls
  BY <1>3, CalmEvents, EventTypes DEF ResponseFailed, NoCalls, Calmly, EventType
<1>4. CASE FailedTurn
  <2>1. response \in Reason
    BY <1>4 DEF FailedTurn, At, TypeOK, ControlOK, Reason
  <2>2. QED
    BY <1>4, <2>1, CalmEvents, EventTypes DEF FailedTurn, Ends, Calmly
<1>5. QED
  BY <1>1, <1>2, <1>3, <1>4 DEF StreamSteps

\* The call the loop is at is one of the batch.
LEMMA CurrentCall ==
  ASSUME TypeOK, next <= Len(batch)
  PROVE  next \in DOMAIN batch /\ Current \in Call /\ Current \in BatchCalls
  BY LenProperties DEF TypeOK, BatchType, Current, BatchCalls, ElementsOf

\* So is it in a batch, except where a call is started.
LEMMA BatchCalm ==
  ASSUME TypeOK, BatchSteps, ~CallStart, ~ParallelExecute
  PROVE  Calmly
<1>1. CASE CallFailed \/ CallAborted \/ CallImmediate
           \/ (\E o \in {"ok", "terminate", "error"} : SequentialReturn(o))
  <2>1. Current \in Call
    BY <1>1, CurrentCall DEF CallFailed, CallAborted, CallImmediate, SequentialReturn, At,
       TypeOK, ControlOK
  <2>2. QED
    BY <1>1, <2>1, CalmEvents, EventTypes DEF CallFailed, CallAborted, CallImmediate,
       EndsAtOnce, SequentialReturn, Calmly
<1>2. CASE CallPrepares \/ CallPrepared \/ SequentialExecute \/ Join \/ JoinThrows
           \/ PrepareNextTurnThrows \/ PollSteering
  BY <1>2 DEF CallPrepares, CallPrepared, SequentialExecute, Join, JoinThrows,
              PrepareNextTurnThrows, PollSteering, Calmly
<1>3. CASE ResultStart \/ ResultEnd
  <2>1. Result(Current, outcome[Current]) \in Message
    BY <1>3, CurrentCall, ResultType DEF ResultStart, ResultEnd, At, TypeOK, ToolType, ControlOK
  <2>2. QED
    BY <1>3, <2>1, CalmEvents, EventTypes DEF ResultStart, ResultEnd, Calmly
<1>4. CASE BatchDone \/ CallsLimited
  BY <1>4, CalmEvents, EventTypes DEF BatchDone, CallsLimited, Ends, Calmly, Reason, EventType
<1>5. QED
  BY <1>1, <1>2, <1>3, <1>4 DEF BatchSteps

\* Nor does terminalizeFailure concern a call.
LEMMA FailureCalm ==
  ASSUME TypeOK, ExecInv, FailureSteps, ~FinishRun PROVE Calmly
<1>1. CASE Catch \/ SynthesizeResults
  BY <1>1, CalmEvents, EventTypes DEF Catch, SynthesizeResults, Calmly, EventType
<1>2. CASE \E m \in fixups : FixStart(m) \/ FixEnd(m)
  <2>1. PICK m \in fixups : FixStart(m) \/ FixEnd(m)
    BY <1>2
  <2>2. m \in Message /\ CallsOf(m) = {}
    BY DEF TypeOK, FailType, ExecInv, FixupsAskNothing
  <2>3. Calm(MessageEnd(m))
    BY <2>2 DEF Calm, MessageEnd, Plain
  <2>4. QED
    BY <2>1, <2>2, <2>3, CalmEvents, EventTypes DEF FixStart, FixEnd, Calmly
<1>3. CASE FailStart \/ FailEnd
  <2>1. Assistant(<<>>, verdict) \in Message
    BY AssistantType, EmptySeq DEF TypeOK, FailType, Stop
  <2>2. QED
    BY <1>3, <2>1, CalmEvents, EventTypes DEF FailStart, FailEnd, FailureMessage, Calmly
<1>4. CASE FailTurn \/ FailAgent
  BY <1>4, CalmEvents, EventTypes DEF FailTurn, FailAgent, Calmly, EventType, TypeOK, FailType, Reason
<1>5. QED
  BY <1>1, <1>2, <1>3, <1>4 DEF FailureSteps

\* Starting a run, polling and injecting keep ToolInv.
LEMMA ToolRun == ASSUME TypeOK, ToolInv, RunSteps PROVE ToolInv'
<1>1. UNCHANGED <<batch, tool, used, executed, outcome>>
  BY DEF RunSteps, RunStarted, PromptStart, PromptEnd, InitialPoll, TurnAborted,
         TurnsLimited, FirstTurn, NextTurn, FollowUps, NoFollowUps, InjectStart,
         InjectEnd, Ends, LoopKeeps, batchVars, toolVars
<1>2. pc' \notin {"response"} \cup BatchLabel
  BY DEF RunSteps, RunStarted, PromptStart, PromptEnd, InitialPoll, TurnAborted,
         TurnsLimited, FirstTurn, NextTurn, FollowUps, NoFollowUps, InjectStart,
         InjectEnd, Ends, LoopEmits, GoTo, BatchLabel
<1>3. QED
  BY <1>1, <1>2, RunCalm, CalmKeeps, ToolKept

\* Reporting a failure and finishing a run keep ToolInv.
LEMMA ToolFailure == ASSUME TypeOK, ExecInv, ToolInv, FailureSteps PROVE ToolInv'
<1>1. UNCHANGED <<batch, tool, used, executed, outcome>>
  BY DEF FailureSteps, Catch, SynthesizeResults, FixStart, FixEnd, FailStart, FailEnd,
         FailTurn, FailAgent, FinishRun, LoopKeeps, batchVars, toolVars
<1>2. pc' \notin {"response"} \cup BatchLabel
  BY DEF FailureSteps, Catch, SynthesizeResults, FixStart, FixEnd, FailStart, FailEnd,
         FailTurn, FailAgent, FinishRun, LoopEmits, GoTo, BatchLabel
<1>3. CASE FinishRun
  BY <1>1, <1>2, <1>3, ToolKept DEF FinishRun
<1>4. CASE ~FinishRun
  BY <1>1, <1>2, <1>4, FailureCalm, CalmKeeps, ToolKept
<1>5. QED
  BY <1>3, <1>4

\* The state that ToolInv reads.
ToolState == <<batch, tool, used, executed, outcome, pc, next, plan, phase>>

\* A listener that is awaited changes no event.
LEMMA ToolSame ==
  ASSUME ToolInv, UNCHANGED ToolState,
         \A co \in Coroutine : out'[co].ev = out[co].ev
  PROVE  ToolInv'
<1> USE Coroutines DEF ToolState
<1>1. SeparateCalls' /\ CallsEmit'
  BY DEF ToolInv, SeparateCalls, CallsEmit, Emits, IsQuiet
<1>2. Begun' /\ ExecutedBegun' /\ OutcomesTrue' /\ ResponseNew'
  BY DEF ToolInv, Begun, ExecutedBegun, OutcomesTrue, ResponseNew, BatchCalls, ElementsOf
<1>3. pc' \in BatchLabel => Progress'
  BY DEF ToolInv, Progress, InParallel, Current
<1>4. Started'
  BY DEF ToolInv, Started, IsQuiet, Current
<1>5. QED
  BY <1>1, <1>2, <1>3, <1>4 DEF ToolInv

\* What the user does keeps ToolInv.
LEMMA ToolUser == ASSUME TypeOK, ToolInv, UserStep PROVE ToolInv'
<1>1. (\E ps, skip : StartRun(ps, skip)) \/ UNCHANGED Outside \/ Abort
  BY UserDoes
<1>2. CASE UNCHANGED Outside \/ Abort
  BY <1>2, ToolSame DEF Outside, Abort, ToolState, emitVars, batchVars, toolVars
<1>3. CASE \E ps, skip : StartRun(ps, skip)
  <2>1. UNCHANGED <<batch, tool, used, executed, outcome>> /\ pc' = "started"
    BY <1>3 DEF StartRun, toolVars
  <2>2. \A c \in Call : phase'[c] = "none"
    BY <1>3 DEF StartRun
  <2>3. \A c \in Call : out'[c] = out[c]
    BY <1>3, Coroutines DEF StartRun, TypeOK, EmitType
  <2>4. QED
    BY <2>1, <2>2, <2>3, ToolKept DEF BatchLabel
<1>4. QED
  BY <1>1, <1>2, <1>3

\* A call that ends or fails was running or emitting its end: none of those that have not
\* begun, and none of those that are done.
LEMMA ToolEnds ==
  ASSUME TypeOK, ToolInv, NEW c \in Call, tool[c] \in {"running", "ending"},
         NEW t \in {"ending", "done", "thrown"}, tool' = [tool EXCEPT ![c] = t],
         NEW o \in {"ok", "terminate", "error"},
         outcome' \in {outcome, [outcome EXCEPT ![c] = o]}, c \in executed \/ outcome' = outcome,
         UNCHANGED <<batch, used, executed, pc, next, plan>>,
         phase' \in {phase, PhaseSet({c}, "executed-but-post-processing-failed")},
         out'[Loop] = out[Loop], \A d \in Call \ {c} : out'[d] = out[d],
         IsQuiet(c)' \/ (t = "ending" /\ Emits(c, "tool_execution_end")'),
         pc = "awaitTool" => c # Current
  PROVE  ToolInv'
<1>0. tool \in [Call -> {"none", "prepared", "running", "ending", "done", "thrown"}]
      /\ outcome \in [Call -> Outcome]
      /\ phase \in [Call -> ToolFailurePhase \cup {"none"}]
  BY DEF TypeOK, ToolType, EmitType
<1>1. /\ tool'[c] = t /\ \A d \in Call \ {c} : tool'[d] = tool[d]
      /\ \A d \in Call : phase'[d] = "not-started" => phase[d] = "not-started"
      /\ \A d \in Call : outcome'[d] = outcome[d] \/ (d = c /\ outcome'[d] = o)
  BY <1>0 DEF PhaseSet
<1>2. SeparateCalls' /\ CallsEmit'
  BY <1>1 DEF ToolInv, SeparateCalls, CallsEmit, Emits, IsQuiet
<1>3. Begun'
  BY <1>1 DEF ToolInv, Begun
<1>4. ExecutedBegun' /\ OutcomesTrue'
  <2>1. ExecutedBegun'
    BY <1>0, <1>1 DEF ToolInv, ExecutedBegun, TypeOK, ToolType
  <2>2. OutcomesTrue'
    BY <1>0, <1>1 DEF ToolInv, OutcomesTrue
  <2>3. QED
    BY <2>1, <2>2
<1>5. \A d \in Call : /\ tool[d] = "none" => tool'[d] = "none"
                      /\ tool[d] = "done" => tool'[d] = "done"
  BY <1>1
<1>6. batch \in Seq(Call) /\ \A i \in DOMAIN batch : batch[i] \in Call
  BY DEF TypeOK, BatchType
<1>7. ResponseNew'
  BY <1>5, <1>6 DEF ToolInv, ResponseNew, BatchCalls, ElementsOf
<1>8. pc' \in BatchLabel => Progress'
  <2>1. ASSUME pc \in BatchLabel PROVE Progress'
    <3>1. Progress /\ batch' = batch /\ next' = next /\ pc' = pc /\ plan' = plan
      BY <2>1 DEF ToolInv
    <3>2. next <= Len(batch) => next \in DOMAIN batch
      BY <1>6, LenProperties DEF TypeOK, BatchType
    <3>3. pc = "awaitTool" => Current \in Call
      BY <3>2, <1>6 DEF TypeOK, ControlOK, Current
    <3>4. QED
      BY <1>1, <1>5, <1>6, <3>1, <3>2, <3>3 DEF Progress, InParallel, Current
  <2>2. QED
    BY <2>1
<1>9. Started'
  <2>1. pc \in {"called", "preparing"} => Current \in Call
    BY <1>6, LenProperties DEF TypeOK, ControlOK, BatchType, Current
  <2>2. QED
    BY <1>1, <2>1 DEF ToolInv, Started, IsQuiet, Current
<1>10. QED
  BY <1>2, <1>3, <1>4, <1>7, <1>8, <1>9 DEF ToolInv

\* The return of a parallel call keeps ToolInv.
LEMMA ToolReturns == ASSUME TypeOK, ToolInv, ToolStep PROVE ToolInv'
<1>1. PICK c \in Call, o \in {"ok", "terminate", "error"} : ParallelReturn(c, o)
  BY DEF ToolStep
<1>2. tool[c] = "running" /\ c \in executed
  BY <1>1 DEF ParallelReturn, ToolInv, OutcomesTrue
<1>3. outcome' = [outcome EXCEPT ![c] = o]
      /\ UNCHANGED <<batch, used, executed, pc, next, plan>>
      /\ phase' = PhaseSet({c}, "executed-but-post-processing-failed")
  BY <1>1 DEF ParallelReturn, ToolsEmitEnd, batchVars
<1>4. IsQuiet(c)
  BY <1>2 DEF ToolInv, CallsEmit
<1>5. \E t \in {"ending", "thrown"} :
        /\ tool' = [tool EXCEPT ![c] = t]
        /\ out'[Loop] = out[Loop] /\ \A d \in Call \ {c} : out'[d] = out[d]
        /\ IsQuiet(c)' \/ (t = "ending" /\ Emits(c, "tool_execution_end")')
  <2>1. CASE activeRun = 0
    BY <1>1, <1>4, <2>1 DEF ParallelReturn, IsQuiet
  <2>2. CASE activeRun # 0
    <3>1. tool' = [tool EXCEPT ![c] = "ending"]
          /\ out' = [co \in Coroutine |-> IF co \in {c} THEN Emitting(ToolEnd(co), activeRun) ELSE out[co]]
      BY <1>1, <2>2 DEF ParallelReturn, ToolsEmitEnd
    <3>2. out'[c].ev.type = "tool_execution_end"
      BY <3>1, Coroutines DEF Emitting, ToolEnd, Plain
    <3>3. QED
      BY <3>1, <3>2, Coroutines DEF Emits
  <2>3. QED
    BY <2>1, <2>2
<1>6. pc = "awaitTool" => c # Current
  BY <1>1 DEF ParallelReturn, InSequence
<1>7. QED
  BY <1>2, <1>3, <1>5, <1>6, ToolEnds

\* What the listeners do keeps ToolInv.
LEMMA ToolListener == ASSUME TypeOK, ToolInv, ListenerStep PROVE ToolInv'
<1>1. PICK co \in Coroutine :
        Commit(co) \/ Throw(co) \/ \E l \in Listener : Skip(co, l) \/ Deliver(co, l) \/ Fail(co, l)
  BY DEF ListenerStep
<1>2. out \in [Coroutine -> Emission] /\ co \in {Loop} \cup Call
  BY DEF TypeOK, EmitType, Coroutine
<1>3. CASE \E l \in Listener : Skip(co, l) \/ Deliver(co, l) \/ Fail(co, l)
  <2>1. UNCHANGED ToolState
    BY <1>3 DEF Skip, Deliver, Fail, ToolState, batchVars, toolVars
  <2>2. \E l, f : out' = [out EXCEPT ![co] = Awaited(@, l, f)]
    BY <1>3 DEF Skip, Deliver, Fail
  <2>3. \A d \in Coroutine : out'[d].ev = out[d].ev
    BY <1>2, <2>2 DEF Awaited, Emission
  <2>4. QED
    BY <2>1, <2>3, ToolSame
<1>4. CASE co \in Call /\ (Commit(co) \/ Throw(co))
  <2>1. tool[co] = "ending" /\ Emits(co, "tool_execution_end")
    BY <1>4 DEF Commit, Throw, ToolInv, CallsEmit
  <2>2. \E t \in {"done", "thrown"} : tool' = [tool EXCEPT ![co] = t]
    BY <1>4 DEF Commit, Throw
  <2>3. UNCHANGED <<batch, used, executed, pc, next, plan, outcome, phase>>
    BY <1>4, <2>1 DEF Commit, Throw, batchVars, CommittedPhase, Emits
  <2>4. out'[Loop] = out[Loop] /\ (\A d \in Call \ {co} : out'[d] = out[d]) /\ IsQuiet(co)'
    BY <1>2, <1>4, Coroutines DEF Commit, Throw, Quiet, IsQuiet, Plain
  <2>5. pc = "awaitTool" => co # Current
    BY <2>1 DEF ToolInv, Progress, BatchLabel
  <2>6. PICK t \in {"ending", "done", "thrown"} : tool' = [tool EXCEPT ![co] = t]
    BY <2>2
  <2>7. phase' \in {phase, PhaseSet({co}, "executed-but-post-processing-failed")}
        /\ outcome' \in {outcome, [outcome EXCEPT ![co] = "ok"]}
    BY <2>3
  <2>8. QED
    BY <1>4, <2>1, <2>3, <2>4, <2>5, <2>6, <2>7, ToolEnds
<1>5. CASE co = Loop /\ Throw(co)
  <2>1. UNCHANGED <<batch, tool, used, executed, outcome, phase>>
        /\ pc' = (IF pc \in SafeLabel THEN pc ELSE "catchFatal")
    BY <1>5, Coroutines DEF Throw, batchVars
  <2>2. pc' \notin {"response"} \cup BatchLabel
    BY <2>1 DEF SafeLabel, BatchLabel
  <2>3. \A c \in Call : out'[c] = out[c]
    BY <1>2, <1>5, Coroutines DEF Throw
  <2>4. QED
    BY <2>1, <2>2, <2>3, ToolKept
<1>6. CASE co = Loop /\ Commit(co)
  <2>1. UNCHANGED <<batch, tool, used, executed, outcome, pc, next, plan>>
        /\ phase' = CommittedPhase(out[Loop].ev)
    BY <1>6, Coroutines DEF Commit, batchVars
  <2>2. IsQuiet(Loop)' /\ ~IsQuiet(Loop) /\ \A c \in Call : out'[c] = out[c]
    BY <1>2, <1>6, Coroutines DEF Commit, Quiet, IsQuiet, Plain
  <2>3. \A c \in Call : phase'[c] = "not-started" => phase[c] = "not-started"
    BY <2>1 DEF TypeOK, EmitType, CommittedPhase, PhaseSet
  <2>4. SeparateCalls' /\ CallsEmit'
    BY <2>1, <2>2 DEF ToolInv, SeparateCalls, CallsEmit, Emits, IsQuiet
  <2>5. Begun' /\ ExecutedBegun' /\ OutcomesTrue' /\ ResponseNew'
    BY <2>1, <2>3 DEF ToolInv, Begun, ExecutedBegun, OutcomesTrue, ResponseNew, BatchCalls, ElementsOf
  <2>6. pc' \in BatchLabel => Progress'
    BY <2>1 DEF ToolInv, Progress, InParallel, Current
  <2>7. Started'
    <3>1. CASE pc = "called"
      <4>1. out[Loop].ev = ToolStart(Current) /\ Current \in Call
        BY <2>2, <3>1, LenProperties DEF ToolInv, Started, TypeOK, ControlOK, BatchType, Current
      <4>2. phase' = PhaseSet({Current}, "execution-status-unknown")
        BY <2>1, <4>1 DEF CommittedPhase, ToolStart, Plain
      <4>3. phase'[Current] # "not-started" /\ Current' = Current
        BY <2>1, <4>1, <4>2 DEF PhaseSet, Current
      <4>4. QED
        BY <2>1, <2>2, <3>1, <4>3 DEF Started
    <3>2. CASE pc # "called"
      <4>1. pc # "preparing"
        BY <2>2 DEF ToolInv, Started
      <4>2. QED
        BY <2>1, <2>2, <3>2, <4>1 DEF Started
    <3>3. QED
      BY <3>1, <3>2
  <2>8. QED
    BY <2>4, <2>5, <2>6, <2>7 DEF ToolInv
<1>7. QED
  BY <1>1, <1>2, <1>3, <1>4, <1>5, <1>6

\* Streaming a response: its calls are new, so that none has begun.
LEMMA ToolStream == ASSUME TypeOK, ExecInv, ToolInv, StreamSteps PROVE ToolInv'
<1>1. CASE StreamStart \/ StreamThrows \/ ResponseFailed \/ FailedTurn \/ NoCalls
  <2>1. UNCHANGED <<batch, tool, used, executed, outcome>>
    BY <1>1 DEF StreamStart, StreamThrows, ResponseFailed, FailedTurn, NoCalls, Ends,
                LoopKeeps, batchVars, toolVars
  <2>2. pc' \notin {"response"} \cup BatchLabel
    BY <1>1 DEF StreamStart, StreamThrows, ResponseFailed, FailedTurn, NoCalls, Ends,
                LoopEmits, GoTo, BatchLabel
  <2>3. ~\E n \in 0 .. MaxBatch, s \in Stop : StreamDone(n, s)
    BY <2>2 DEF StreamDone, LoopEmits
  <2>4. QED
    BY <2>1, <2>2, <2>3, StreamCalm, CalmKeeps, ToolKept
<1>2. ASSUME NEW n \in 0 .. MaxBatch, NEW s \in Stop, StreamDone(n, s)
      PROVE  ToolInv'
  <2> DEFINE cs == [i \in 1 .. n |-> used + i]
             m == Assistant(cs, s)
  <2>0. used \in Nat /\ n \in Nat
    BY AgentRunAssumption DEF TypeOK, BatchType
  <2>1. batch' = cs /\ used' = used + n /\ pc' = "response"
    BY <1>2 DEF StreamDone, Assistant, LoopEmits
  <2>2. UNCHANGED <<tool, outcome, executed>>
    BY <1>2 DEF StreamDone, toolVars
  <2>3. phase' = ObservedPhase(MessageEnd(m))
        /\ out' = [out EXCEPT ![Loop] = Emitting(MessageEnd(m), activeRun)]
    BY <1>2 DEF StreamDone, LoopEmits, Observe
  <2>4. \A c \in CallsOf(m) : c > used
    BY <2>0 DEF CallsOf, Assistant
  <2>5. \A c \in Call : phase'[c] = "not-started" => phase[c] = "not-started" \/ c > used
    BY <2>3, <2>4 DEF TypeOK, EmitType, ObservedPhase, MessageEnd, Plain, PhaseSet
  <2>6. \A c \in Call : out'[c] = out[c]
    BY <2>3, Coroutines DEF TypeOK, EmitType
  <2>7. \A c \in Call : c \in Int
    BY DEF Call
  <2>8. SeparateCalls' /\ CallsEmit'
    <3>1. SeparateCalls'
      BY <2>0, <2>1 DEF SeparateCalls
    <3>2. CallsEmit'
      BY <2>2, <2>6 DEF ToolInv, CallsEmit, Emits, IsQuiet
    <3>3. QED
      BY <3>1, <3>2
  <2>9. Begun'
    <3>1. \A c \in Call : tool'[c] # "none" => c <= used /\ phase'[c] # "not-started"
      BY <2>0, <2>2, <2>5, <2>7 DEF ToolInv, Begun
    <3>2. QED
      BY <2>0, <2>1, <2>7, <3>1 DEF Begun
  <2>10. ExecutedBegun' /\ OutcomesTrue'
    BY <2>2 DEF ToolInv, ExecutedBegun, OutcomesTrue
  <2>11. ResponseNew'
    <3>1. \A i \in DOMAIN batch' : batch'[i] > used
      BY <2>0, <2>1
    <3>2. \A i \in DOMAIN batch' : batch'[i] \in Call
      BY StreamStepsType DEF TypeOK, BatchType
    <3>3. \A i \in DOMAIN batch' : tool[batch'[i]] = "none"
      BY <2>0, <2>7, <3>1, <3>2 DEF ToolInv, Begun
    <3>4. QED
      BY <2>2, <3>3 DEF ResponseNew, BatchCalls, ElementsOf
  <2>12. pc' \notin BatchLabel /\ Started'
    BY <2>1 DEF BatchLabel, Started
  <2>13. QED
    BY <2>8, <2>9, <2>10, <2>11, <2>12 DEF ToolInv
<1>3. CASE PlanBatch
  <2>1. UNCHANGED <<batch, tool, used, executed, outcome, out, phase>>
        /\ pc = "response" /\ pc' = "calls" /\ next' = 1
    BY <1>3 DEF PlanBatch, At, GoTo, emitVars, toolVars
  <2>2. SeparateCalls' /\ CallsEmit'
    BY <2>1 DEF ToolInv, SeparateCalls, CallsEmit, Emits, IsQuiet
  <2>3. Begun' /\ ExecutedBegun' /\ OutcomesTrue'
    BY <2>1 DEF ToolInv, Begun, ExecutedBegun, OutcomesTrue
  <2>4. ResponseNew' /\ Started'
    BY <2>1 DEF ResponseNew, Started
  <2>5. \A i \in DOMAIN batch : tool[batch[i]] = "none"
    BY <2>1 DEF ToolInv, ResponseNew, BatchCalls, ElementsOf
  <2>6. DOMAIN batch = 1 .. Len(batch) /\ Len(batch) \in Nat
    BY LenProperties DEF TypeOK, BatchType
  <2>7. Progress'
    BY <2>1, <2>5, <2>6 DEF Progress
  <2>8. QED
    BY <2>2, <2>3, <2>4, <2>7 DEF ToolInv
<1>4. QED
  BY <1>1, <1>2, <1>3 DEF StreamSteps

\* The loop takes the current call one step further.
LEMMA ToolMoves ==
  ASSUME TypeOK, ToolInv, next <= Len(batch), Current <= used,
         tool[Current] \in {"none", "prepared", "running"},
         NEW t \in {"prepared", "running", "done"}, tool' = [tool EXCEPT ![Current] = t],
         NEW o \in {"ok", "terminate", "error"},
         outcome' \in {outcome, [outcome EXCEPT ![Current] = o]},
         executed' \in {executed, executed \cup {Current}},
         t = "running" \/ o # "error" => Current \in executed',
         UNCHANGED <<batch, used>>, \A c \in Call : out'[c] = out[c],
         \A c \in Call : phase'[c] = "not-started" => phase[c] = "not-started" /\ c # Current
  PROVE  /\ SeparateCalls' /\ CallsEmit' /\ Begun' /\ ExecutedBegun' /\ OutcomesTrue'
         /\ tool'[Current] = t
         /\ \A i \in DOMAIN batch : i # next => tool'[batch[i]] = tool[batch[i]]
<1>1. next \in DOMAIN batch /\ Current \in Call
  BY CurrentCall
<1>2. /\ tool \in [Call -> {"none", "prepared", "running", "ending", "done", "thrown"}]
      /\ outcome \in [Call -> Outcome] /\ executed \subseteq Call
  BY DEF TypeOK, ToolType
<1>3. /\ tool'[Current] = t /\ \A c \in Call \ {Current} : tool'[c] = tool[c]
      /\ \A c \in Call : outcome'[c] = outcome[c] \/ (c = Current /\ outcome'[c] = o)
  BY <1>1, <1>2
<1>4. SeparateCalls' /\ CallsEmit'
  BY <1>3 DEF ToolInv, SeparateCalls, CallsEmit, Emits, IsQuiet
<1>5. Begun'
  BY <1>3 DEF ToolInv, Begun
<1>6. ExecutedBegun'
  BY <1>2, <1>3 DEF ToolInv, ExecutedBegun
<1>7. OutcomesTrue'
  BY <1>2, <1>3 DEF ToolInv, OutcomesTrue
<1>8. \A i \in DOMAIN batch : i # next => tool'[batch[i]] = tool[batch[i]]
  <2>1. \A i \in DOMAIN batch : batch[i] \in Call
    BY DEF TypeOK, BatchType
  <2>2. QED
    BY <1>1, <1>3, <2>1 DEF ToolInv, SeparateCalls, Current
<1>9. QED
  BY <1>3, <1>4, <1>5, <1>6, <1>7, <1>8

\* A call that ends without being executed ends at once.
LEMMA ToolEndsAtOnce ==
  ASSUME TypeOK, ExecInv, ToolInv, EndsAtOnce, pc \in {"called", "preparing"}
  PROVE  ToolInv'
<1>1. next <= Len(batch) /\ next \in DOMAIN batch /\ Current \in Call /\ Current \in BatchCalls
  BY CurrentCall DEF TypeOK, ControlOK
<1>2. Progress /\ Current <= used
  BY <1>1 DEF ToolInv, BatchLabel, ExecInv, OnlyRequested
<1>3. /\ tool' = [tool EXCEPT ![Current] = "done"]
      /\ outcome' = [outcome EXCEPT ![Current] = "error"]
      /\ UNCHANGED <<batch, used, executed, plan>>
      /\ next' = IF InParallel THEN next + 1 ELSE next
      /\ pc' = IF InParallel THEN "calls" ELSE "result"
      /\ phase' = PhaseSet({Current}, "executed-but-post-processing-failed")
  BY DEF EndsAtOnce, batchVars, LoopEmits, Observe, ObservedPhase, ToolEnd, Plain
<1>4. tool[Current] = "none"
  BY <1>1, <1>2 DEF Progress, Current, TypeOK, BatchType
<1>5. \A c \in Call : out'[c] = out[c]
  BY Coroutines DEF EndsAtOnce, LoopEmits, TypeOK, EmitType
<1>6. \A c \in Call : phase'[c] = "not-started" => phase[c] = "not-started" /\ c # Current
  BY <1>3 DEF PhaseSet
<1>7. /\ SeparateCalls' /\ CallsEmit' /\ Begun' /\ ExecutedBegun' /\ OutcomesTrue'
      /\ tool'[Current] = "done"
      /\ \A i \in DOMAIN batch : i # next => tool'[batch[i]] = tool[batch[i]]
  BY <1>1, <1>2, <1>3, <1>4, <1>5, <1>6, ToolMoves
<1>8. ResponseNew' /\ Started'
  BY <1>3 DEF ResponseNew, Started
<1>9. Progress'
  <2>1. DOMAIN batch = 1 .. Len(batch) /\ Len(batch) \in Nat /\ next \in Nat
    BY LenProperties DEF TypeOK, BatchType
  <2>2. CASE InParallel
    BY <1>1, <1>2, <1>3, <1>7, <2>1, <2>2 DEF Progress, InParallel
  <2>3. CASE ~InParallel
    BY <1>1, <1>2, <1>3, <1>7, <2>1, <2>3 DEF Progress, InParallel, Current
  <2>4. QED
    BY <2>2, <2>3
<1>10. QED
  BY <1>7, <1>8, <1>9 DEF ToolInv

\* Starting, preparing and executing the current call.
LEMMA ToolAdvances ==
  ASSUME TypeOK, ExecInv, ToolInv,
         CallStart \/ CallFailed \/ CallAborted \/ CallPrepares \/ CallImmediate
         \/ CallPrepared \/ SequentialExecute
         \/ (\E o \in {"ok", "terminate", "error"} : SequentialReturn(o))
  PROVE  ToolInv'
<1>0. next <= Len(batch) /\ pc \in BatchLabel
  BY DEF CallStart, CallFailed, CallAborted, CallPrepares, CallImmediate, CallPrepared,
         SequentialExecute, SequentialReturn, At, TypeOK, ControlOK, BatchLabel
<1>1. next \in DOMAIN batch /\ Current \in Call /\ Current \in BatchCalls /\ batch[next] = Current
  BY <1>0, CurrentCall DEF Current
<1>2. Progress /\ Current <= used
  BY <1>0, <1>1 DEF ToolInv, ExecInv, OnlyRequested
<1>3. DOMAIN batch = 1 .. Len(batch) /\ Len(batch) \in Nat /\ next \in Nat
  BY LenProperties DEF TypeOK, BatchType
<1>4. CASE CallFailed \/ CallAborted \/ CallImmediate
  BY <1>4, ToolEndsAtOnce DEF CallFailed, CallAborted, CallImmediate, At
<1>5. CASE CallStart
  <2>1. UNCHANGED <<batch, tool, used, executed, outcome, next, plan>>
        /\ pc = "calls" /\ pc' = "called" /\ IsQuiet(Loop)
        /\ phase' = PhaseSet({Current}, "not-started")
        /\ out' = [out EXCEPT ![Loop] = Emitting(ToolStart(Current), activeRun)]
    BY <1>5 DEF CallStart, At, LoopKeeps, batchVars, toolVars, LoopEmits, Observe,
                ObservedPhase, ToolStart, Plain
  <2>2. tool[Current] = "none"
    BY <1>1, <1>2, <1>3, <2>1 DEF Progress
  <2>3. /\ \A c \in Call \ {Current} : phase'[c] = "not-started" => phase[c] = "not-started"
        /\ \A c \in Call : out'[c] = out[c]
        /\ out'[Loop].ev = ToolStart(Current)
    BY <2>1, Coroutines DEF PhaseSet, TypeOK, EmitType, Emitting
  <2>4. SeparateCalls' /\ CallsEmit' /\ Begun' /\ ExecutedBegun' /\ OutcomesTrue' /\ ResponseNew'
    <3>1. SeparateCalls' /\ CallsEmit'
      BY <2>1, <2>3 DEF ToolInv, SeparateCalls, CallsEmit, Emits, IsQuiet
    <3>2. Begun'
      BY <2>1, <2>2, <2>3 DEF ToolInv, Begun
    <3>3. ExecutedBegun' /\ OutcomesTrue' /\ ResponseNew'
      BY <2>1 DEF ToolInv, ExecutedBegun, OutcomesTrue, ResponseNew
    <3>4. QED
      BY <3>1, <3>2, <3>3
  <2>5. Progress'
    BY <1>2, <2>1 DEF Progress, InParallel
  <2>6. Started'
    <3>1. Current' = Current /\ ~IsQuiet(Loop)'
      BY <2>1, <2>3 DEF Current, IsQuiet, ToolStart, Plain
    <3>2. QED
      BY <2>1, <2>3, <3>1 DEF Started
  <2>7. QED
    BY <2>4, <2>5, <2>6 DEF ToolInv
<1>6. CASE CallPrepares
  <2>1. UNCHANGED <<batch, tool, used, executed, outcome, next, plan, out, phase>>
        /\ pc = "called" /\ pc' = "preparing" /\ IsQuiet(Loop)
    BY <1>6 DEF CallPrepares, At, LoopKeeps, batchVars, toolVars, GoTo, emitVars
  <2>2. SeparateCalls' /\ CallsEmit' /\ Begun' /\ ExecutedBegun' /\ OutcomesTrue' /\ ResponseNew'
    BY <2>1 DEF ToolInv, SeparateCalls, CallsEmit, Emits, IsQuiet, Begun, ExecutedBegun,
                OutcomesTrue, ResponseNew
  <2>3. Progress'
    BY <1>2, <2>1 DEF Progress, InParallel
  <2>4. Started'
    BY <2>1 DEF ToolInv, Started, IsQuiet, Current
  <2>5. QED
    BY <2>2, <2>3, <2>4 DEF ToolInv
<1>7. CASE CallPrepared
  <2>1. UNCHANGED <<batch, used, executed, outcome, plan, out, phase>> /\ pc = "preparing"
        /\ tool' = [tool EXCEPT ![Current] = "prepared"] /\ IsQuiet(Loop)
        /\ IF InParallel THEN pc' = "calls" /\ next' = next + 1
           ELSE pc' = "awaitTool" /\ next' = next
    BY <1>7 DEF CallPrepared, At, batchVars, GoTo, emitVars
  <2>2. tool[Current] = "none" /\ phase[Current] # "not-started"
    BY <1>1, <1>2, <1>3, <2>1 DEF Progress, ToolInv, Started
  <2>3. /\ SeparateCalls' /\ CallsEmit' /\ Begun' /\ ExecutedBegun' /\ OutcomesTrue'
        /\ tool'[Current] = "prepared"
        /\ \A i \in DOMAIN batch : i # next => tool'[batch[i]] = tool[batch[i]]
    <3>1. \A c \in Call : phase'[c] = "not-started" => phase[c] = "not-started" /\ c # Current
      BY <2>1, <2>2
    <3> DEFINE o == "error"
    <3>2. o \in {"ok", "terminate", "error"}
      OBVIOUS
    <3>3. QED
      BY <1>0, <1>2, <2>1, <2>2, <3>1, <3>2, ToolMoves
  <2>4. ResponseNew'
    BY <2>1 DEF ResponseNew
  <2>5. Progress'
    <3>1. CASE InParallel
      BY <1>1, <1>2, <1>3, <2>1, <2>3, <3>1 DEF Progress, InParallel
    <3>2. CASE ~InParallel
      BY <1>0, <1>1, <1>2, <1>3, <2>1, <2>3, <3>2 DEF Progress, InParallel, Current
    <3>3. QED
      BY <3>1, <3>2
  <2>6. Started'
    BY <2>1 DEF Started, IsQuiet
  <2>7. QED
    BY <2>3, <2>4, <2>5, <2>6 DEF ToolInv
<1>8. CASE SequentialExecute
  <2>1. UNCHANGED <<batch, used, outcome, plan, out, phase, next>> /\ pc = "awaitTool"
        /\ tool' = [tool EXCEPT ![Current] = "running"] /\ IsQuiet(Loop)
        /\ pc' = "awaitTool" /\ executed' = executed \cup {Current} /\ tool[Current] = "prepared"
    BY <1>8 DEF SequentialExecute, At, batchVars, GoTo, emitVars
  <2>2. phase[Current] # "not-started"
    BY <1>1, <2>1 DEF ToolInv, Begun
  <2>3. /\ SeparateCalls' /\ CallsEmit' /\ Begun' /\ ExecutedBegun' /\ OutcomesTrue'
        /\ tool'[Current] = "running"
        /\ \A i \in DOMAIN batch : i # next => tool'[batch[i]] = tool[batch[i]]
    <3>1. \A c \in Call : phase'[c] = "not-started" => phase[c] = "not-started" /\ c # Current
      BY <2>1, <2>2
    <3>2. Current \in executed'
      BY <2>1
    <3> DEFINE o == "error"
    <3>3. o \in {"ok", "terminate", "error"}
      OBVIOUS
    <3>4. QED
      BY <1>0, <1>2, <2>1, <2>2, <3>1, <3>2, <3>3, ToolMoves
  <2>4. ResponseNew'
    BY <2>1 DEF ResponseNew
  <2>5. Progress'
    <3>1. ~InParallel
      BY <1>2, <2>1 DEF Progress
    <3>2. QED
      BY <1>0, <1>1, <1>2, <1>3, <2>1, <2>3, <3>1 DEF Progress, InParallel, Current
  <2>6. Started'
    BY <2>1 DEF Started, IsQuiet
  <2>7. QED
    BY <2>3, <2>4, <2>5, <2>6 DEF ToolInv
<1>9. ASSUME NEW o \in {"ok", "terminate", "error"}, SequentialReturn(o) PROVE ToolInv'
  <2>1. UNCHANGED <<batch, used, executed, plan, next>> /\ pc = "awaitTool" /\ pc' = "result"
        /\ tool' = [tool EXCEPT ![Current] = "done"] /\ tool[Current] = "running"
        /\ outcome' = [outcome EXCEPT ![Current] = o]
        /\ phase' = PhaseSet({Current}, "executed-but-post-processing-failed")
        /\ out' = [out EXCEPT ![Loop] = Emitting(ToolEnd(Current), activeRun)]
    BY <1>9 DEF SequentialReturn, At, batchVars, LoopEmits, Observe, ObservedPhase, ToolEnd, Plain
  <2>2. \A c \in Call : phase'[c] = "not-started" => phase[c] = "not-started" /\ c # Current
    BY <2>1 DEF PhaseSet
  <2>3. \A c \in Call : out'[c] = out[c]
    BY <2>1, Coroutines DEF TypeOK, EmitType
  <2>4. Current \in executed'
    BY <1>1, <2>1 DEF ToolInv, OutcomesTrue
  <2>5. /\ SeparateCalls' /\ CallsEmit' /\ Begun' /\ ExecutedBegun' /\ OutcomesTrue'
        /\ tool'[Current] = "done"
        /\ \A i \in DOMAIN batch : i # next => tool'[batch[i]] = tool[batch[i]]
    BY <1>0, <1>2, <2>1, <2>2, <2>3, <2>4, ToolMoves
  <2>6. ResponseNew' /\ Started'
    BY <2>1 DEF ResponseNew, Started
  <2>7. Progress'
    <3>1. ~InParallel
      BY <1>2, <2>1 DEF Progress
    <3>2. QED
      BY <1>0, <1>1, <1>2, <1>3, <2>1, <2>5, <3>1 DEF Progress, InParallel, Current
  <2>8. QED
    BY <2>5, <2>6, <2>7 DEF ToolInv
<1>10. QED
  BY <1>4, <1>5, <1>6, <1>7, <1>8, <1>9

\* The prepared calls of a parallel batch start, or end, together.
LEMMA ToolTogether == ASSUME TypeOK, ExecInv, ToolInv, ParallelExecute PROVE ToolInv'
<1>1. /\ UNCHANGED <<batch, used, plan, next>>
      /\ pc = "calls" /\ pc' = "join" /\ InParallel /\ IsQuiet(Loop)
      /\ phase' = PhaseSet(CallsToEnd, "executed-but-post-processing-failed")
      /\ out' = [co \in Coroutine |-> IF co \in CallsToEnd THEN Emitting(ToolEnd(co), activeRun)
                                      ELSE out[co]]
      /\ tool' = [c \in Call |-> IF c \in CallsToEnd THEN "ending"
                                 ELSE IF c \in CallsToExecute THEN "running" ELSE tool[c]]
      /\ outcome' = [c \in Call |-> IF c \in CallsToEnd THEN "error" ELSE outcome[c]]
      /\ executed' = executed \cup CallsToExecute
  BY DEF ParallelExecute, At, ToolsEmitEnd, batchVars
<1>2. CallsToEnd \subseteq PreparedCalls /\ CallsToExecute \subseteq PreparedCalls
  BY DEF CallsToEnd, CallsToExecute
<1>3. PreparedCalls \subseteq Call /\ \A c \in PreparedCalls : tool[c] = "prepared"
  BY DEF PreparedCalls, BatchCalls, ElementsOf, TypeOK, BatchType
<1>4. \A c \in PreparedCalls : IsQuiet(c)
  BY <1>3 DEF ToolInv, CallsEmit
<1>5. /\ \A c \in Call \ CallsToEnd : out'[c] = out[c]
      /\ \A c \in CallsToEnd : Emits(c, "tool_execution_end")'
      /\ out'[Loop] = out[Loop]
  BY <1>1, <1>2, <1>3, Coroutines DEF Emits, Emitting, ToolEnd, Plain
<1>6. SeparateCalls'
  BY <1>1 DEF ToolInv, SeparateCalls
<1>7. CallsEmit'
  <2>1. ASSUME NEW c \in Call, ~IsQuiet(c)'
        PROVE  tool'[c] = "ending" /\ Emits(c, "tool_execution_end")'
    <3>1. CASE c \in CallsToEnd
      BY <1>1, <1>5, <3>1
    <3>2. CASE c \notin CallsToEnd
      <4>1. ~IsQuiet(c) /\ out'[c] = out[c] /\ c \notin PreparedCalls
        BY <1>4, <1>5, <2>1, <3>2 DEF IsQuiet
      <4>2. QED
        BY <1>1, <1>2, <3>2, <4>1 DEF ToolInv, CallsEmit, Emits
    <3>3. QED
      BY <3>1, <3>2
  <2>2. QED
    BY <2>1 DEF CallsEmit
<1>8. \A c \in Call : /\ tool'[c] # "none" <=> tool[c] # "none"
                      /\ phase'[c] = "not-started" => phase[c] = "not-started"
  BY <1>1, <1>2, <1>3 DEF PhaseSet
<1>9. Begun'
  BY <1>1, <1>8 DEF ToolInv, Begun
<1>10. ExecutedBegun'
  <2>1. executed \subseteq Call
    BY DEF TypeOK, ToolType
  <2>2. QED
    BY <1>1, <1>2, <1>3, <1>8, <2>1 DEF ToolInv, ExecutedBegun
<1>11. OutcomesTrue'
  BY <1>1 DEF ToolInv, OutcomesTrue
<1>12. ResponseNew' /\ Started'
  BY <1>1, <1>5 DEF ResponseNew, Started, IsQuiet
<1>13. Progress'
  BY <1>1 DEF ToolInv, Progress, BatchLabel, InParallel
<1>14. QED
  BY <1>6, <1>7, <1>9, <1>10, <1>11, <1>12, <1>13 DEF ToolInv

\* Handling a batch.
LEMMA ToolBatch == ASSUME TypeOK, ExecInv, ToolInv, BatchSteps PROVE ToolInv'
<1>1. CASE \/ CallStart \/ CallFailed \/ CallAborted \/ CallPrepares \/ CallImmediate
           \/ CallPrepared \/ SequentialExecute
           \/ (\E o \in {"ok", "terminate", "error"} : SequentialReturn(o))
  BY <1>1, ToolAdvances
<1>2. CASE ParallelExecute
  BY <1>2, ToolTogether
<1>3. CASE Join \/ ResultStart \/ ResultEnd
  <2>1. UNCHANGED <<batch, tool, used, executed, outcome, plan>>
        /\ pc \in BatchLabel /\ pc' \notin {"response", "preparing", "awaitTool", "join", "called"}
    BY <1>3 DEF Join, ResultStart, ResultEnd, At, LoopEmits, GoTo, LoopKeeps, batchVars,
                toolVars, BatchLabel
  <2>2. Calmly
    BY <1>3, <2>1, BatchCalm DEF CallStart, ParallelExecute, LoopEmits
  <2>3. /\ \A c \in Call : out'[c] = out[c]
        /\ \A c \in Call : phase'[c] = "not-started" => phase[c] = "not-started"
    BY <2>2, CalmKeeps
  <2>4. SeparateCalls' /\ CallsEmit'
    BY <2>1, <2>3 DEF ToolInv, SeparateCalls, CallsEmit, Emits, IsQuiet
  <2>5. Begun' /\ ExecutedBegun' /\ OutcomesTrue' /\ ResponseNew' /\ Started'
    BY <2>1, <2>3 DEF ToolInv, Begun, ExecutedBegun, OutcomesTrue, ResponseNew, Started
  <2>6. Progress
    BY <2>1 DEF ToolInv
  <2>7. DOMAIN batch = 1 .. Len(batch) /\ Len(batch) \in Nat /\ next \in Nat \ {0}
    BY LenProperties DEF TypeOK, BatchType
  <2>8. Progress'
    <3>1. CASE Join
      <4>1. InParallel /\ pc' = "result" /\ next' = 1 /\ BatchSettled
        BY <2>6, <3>1 DEF Join, At, GoTo, Progress
      <4>2. \A i \in DOMAIN batch : tool[batch[i]] = "done"
        BY <4>1 DEF BatchSettled, BatchCalls, ElementsOf
      <4>3. QED
        BY <2>1, <2>7, <4>1, <4>2 DEF Progress, InParallel
    <3>2. CASE ResultStart
      BY <2>1, <2>6, <3>2 DEF ResultStart, At, LoopEmits, LoopKeeps, Progress, InParallel, Current
    <3>3. CASE ResultEnd
      <4>1. pc = "resultEnd" /\ next' = next + 1 /\ next <= Len(batch)
            /\ pc' = (IF InParallel THEN "result" ELSE "calls")
        BY <3>3 DEF ResultEnd, At, LoopEmits, TypeOK, ControlOK
      <4>2. CASE InParallel
        BY <2>1, <2>6, <2>7, <4>1, <4>2 DEF Progress, InParallel
      <4>3. CASE ~InParallel
        <5>1. tool[batch[next]] = "done"
          BY <2>6, <4>1, <4>3 DEF Progress, Current
        <5>2. \A i \in DOMAIN batch : /\ i < next + 1 => tool[batch[i]] = "done"
                                      /\ i >= next + 1 => tool[batch[i]] = "none"
          <6>1. \A i \in DOMAIN batch : /\ i < next => tool[batch[i]] = "done"
                                        /\ i > next => tool[batch[i]] = "none"
            BY <2>6, <4>3 DEF Progress
          <6>2. \A i \in DOMAIN batch : i \in Int
            BY <2>7
          <6>3. QED
            BY <2>7, <5>1, <6>1, <6>2
        <5>3. QED
          BY <2>1, <2>7, <4>1, <4>3, <5>2 DEF Progress, InParallel
      <4>4. QED
        BY <4>2, <4>3
    <3>4. QED
      BY <1>3, <3>1, <3>2, <3>3
  <2>9. QED
    BY <2>4, <2>5, <2>8 DEF ToolInv
<1>4. CASE JoinThrows \/ BatchDone \/ CallsLimited \/ PrepareNextTurnThrows \/ PollSteering
  <2>1. UNCHANGED <<batch, tool, used, executed, outcome>>
        /\ pc' \notin {"response"} \cup BatchLabel
    BY <1>4 DEF JoinThrows, BatchDone, CallsLimited, PrepareNextTurnThrows, PollSteering,
                Ends, LoopEmits, GoTo, LoopKeeps, batchVars, toolVars, BatchLabel
  <2>2. Calmly
    BY <1>4, <2>1, BatchCalm DEF CallStart, ParallelExecute, LoopEmits, BatchLabel
  <2>3. QED
    BY <2>1, <2>2, CalmKeeps, ToolKept
<1>5. QED
  BY <1>1, <1>2, <1>3, <1>4 DEF BatchSteps

\* No call has begun at the start.
LEMMA InitTool == Init => ToolInv
<1>1. Init => \A co \in Coroutine : IsQuiet(co)
  BY DEF Init, Quiet, Plain, IsQuiet
<1>2. QED
  BY <1>1, Coroutines DEF Init, ToolInv, SeparateCalls, CallsEmit, Begun, ExecutedBegun,
     OutcomesTrue, ResponseNew, BatchLabel, Started

\* Every step keeps ToolInv.
LEMMA NextTool == ASSUME TypeOK, ExecInv, ToolInv, [Next]_vars PROVE ToolInv'
<1>1. CASE Next
  BY <1>1, ToolUser, ToolRun, ToolStream, ToolBatch, ToolFailure, ToolReturns,
     ToolListener DEF Next, LoopStep
<1>2. CASE UNCHANGED vars
  <2>1. UNCHANGED ToolState /\ UNCHANGED out
    BY <1>2 DEF vars, ToolState
  <2>2. QED
    BY <2>1, ToolSame
<1>3. QED
  BY <1>1, <1>2

\* At every moment a call of the batch is as far as the loop and its coroutine say: no
\* call counts as not started once it was prepared, an executing or successful call was
\* executed, and behind the loop every call has ended (agent-loop.ts,
\* executeToolCallsSequential and executeToolCallsParallel).
THEOREM ToolInvariant == Spec => []ToolInv
<1>1. Init => TypeOK /\ ExecInv /\ ToolInv
  BY InitType, InitExec, InitTool
<1>2. TypeOK /\ ExecInv /\ ToolInv /\ [Next]_vars => (TypeOK /\ ExecInv /\ ToolInv)'
  BY NextType, NextExec, NextTool
<1>3. QED
  BY <1>1, <1>2, PTL DEF Spec

-----------------------------------------------------------------------------
(* What is said *)

Answered(c) ==
  \E i \in DOMAIN transcript : transcript[i].role = "toolResult" /\ transcript[i].call = c

\* The result of the i-th call of the batch has been emitted.
Said(i) == i < next /\ (InParallel => pc \in {"result", "resultEnd"})

\* Nobody answers a call that was not requested, or before its turn comes.
AnswersInv ==
  /\ \A c \in Call : Answered(c) \/ phase[c] # "none" => c <= used
  /\ \A m \in fixups : m.role = "toolResult" /\ m.call \in Call /\ m.call <= used
  /\ pc = "response" => \A c \in BatchCalls : ~Answered(c)
  /\ pc \in BatchLabel => \A i \in DOMAIN batch : Answered(batch[i]) => Said(i)

\* An event other than the end of a message leaves the transcript alone.
LEMMA Unsaid ==
  ASSUME NEW ev, NEW l, LoopEmits(ev, l), ev.type # "message_end"
  PROVE  UNCHANGED transcript
  BY DEF LoopEmits, Process

\* The end of one that is no tool result appends it.
LEMMA Spoken ==
  ASSUME NEW m, NEW l, LoopEmits(MessageEnd(m), l), m.role # "toolResult"
  PROVE  transcript' = Append(transcript, m)
  BY DEF LoopEmits, Process, MessageEnd, Plain, Recorded

\* What a step may add to the transcript.
LEMMA Speeches ==
  ASSUME TypeOK, [Next]_vars
  PROVE  \/ UNCHANGED transcript
         \/ \E m \in Message : /\ m.role # "toolResult" /\ transcript' = Append(transcript, m)
                               /\ \/ /\ ~Conv!Complete(m) /\ CallsOf(m) = {}
                                     /\ \/ pc \in {"promptEnd", "injectEnd"}
                                        \/ pc = "failEnd" /\ pc' = "failTurn"
                                  \/ \E n \in 0 .. MaxBatch, s \in Stop : StreamDone(n, s)
         \/ ResultEnd
         \/ \E m \in fixups : FixEnd(m)
<1>1. CASE UserStep \/ ListenerStep \/ ToolStep \/ UNCHANGED vars
  <2>1. CASE UserStep
    <3>1. (\E ps, skip : StartRun(ps, skip)) \/ UNCHANGED Outside \/ Abort
      BY <2>1, UserDoes
    <3>2. QED
      BY <3>1 DEF StartRun, Outside, Abort, emitVars
  <2>2. CASE ListenerStep \/ ToolStep \/ UNCHANGED vars
    BY <2>2 DEF ListenerStep, Skip, Deliver, Fail, Commit, Throw, ToolStep, ParallelReturn,
                ToolsEmitEnd, vars
  <2>3. QED
    BY <1>1, <2>1, <2>2
<1>2. CASE PromptEnd \/ InjectEnd
  <2>1. \A t : User(t).role = "user" /\ ~Conv!Complete(User(t)) /\ CallsOf(User(t)) = {}
    BY NoCallsAsked DEF User, Conv!Complete
  <2>2. CASE PromptEnd
    <3>1. Head(prompts) \in Text
      BY <2>2 DEF PromptEnd, At, TypeOK, ContextType, ControlOK
    <3>2. User(Head(prompts)) \in Message /\ User(Head(prompts)).role = "user"
          /\ ~Conv!Complete(User(Head(prompts))) /\ CallsOf(User(Head(prompts))) = {}
      BY <2>1, <3>1, UserType
    <3>3. transcript' = Append(transcript, User(Head(prompts)))
      BY <2>2, <3>2, Spoken DEF PromptEnd
    <3>4. pc = "promptEnd"
      BY <2>2 DEF PromptEnd, At
    <3>5. QED
      BY <3>2, <3>3, <3>4
  <2>3. CASE InjectEnd
    <3>1. Head(pending) \in Text
      BY <2>3 DEF InjectEnd, At, TypeOK, ContextType, ControlOK
    <3>2. User(Head(pending)) \in Message /\ User(Head(pending)).role = "user"
          /\ ~Conv!Complete(User(Head(pending))) /\ CallsOf(User(Head(pending))) = {}
      BY <2>1, <3>1, UserType
    <3>3. transcript' = Append(transcript, User(Head(pending)))
      BY <2>3, <3>2, Spoken DEF InjectEnd
    <3>4. pc = "injectEnd"
      BY <2>3 DEF InjectEnd, At
    <3>5. QED
      BY <3>2, <3>3, <3>4
  <2>4. QED
    BY <1>2, <2>2, <2>3
<1>3. CASE RunSteps /\ ~PromptEnd /\ ~InjectEnd
  BY <1>3 DEF RunSteps, RunStarted, PromptStart, InitialPoll, TurnAborted, TurnsLimited,
     FirstTurn, NextTurn, FollowUps, NoFollowUps, InjectStart, Ends, LoopEmits, Process,
     GoTo, emitVars, Plain, MessageStart, AgentEnd
<1>4. ASSUME NEW n \in 0 .. MaxBatch, NEW s \in Stop, StreamDone(n, s)
      PROVE  \E m \in Message : m.role # "toolResult" /\ transcript' = Append(transcript, m)
  <2> DEFINE cs == [i \in 1 .. n |-> used + i]
             m == Assistant(cs, s)
  <2>1. cs \in Seq(Call)
    <3>1. batch' = cs
      BY <1>4 DEF StreamDone, Assistant
    <3>2. QED
      BY <1>4, <3>1, StreamStepsType DEF StreamSteps, TypeOK, BatchType
  <2>2. m \in Message /\ m.role = "assistant"
    BY <2>1, AssistantType DEF Assistant
  <2>3. QED
    BY <1>4, <2>2, Spoken DEF StreamDone
<1>5. CASE StreamSteps /\ ~\E n \in 0 .. MaxBatch, s \in Stop : StreamDone(n, s)
  BY <1>5 DEF StreamSteps, StreamStart, StreamThrows, ResponseFailed, FailedTurn, NoCalls,
     PlanBatch, Ends, LoopEmits, Process, GoTo, emitVars, Plain, MessageStart, AgentEnd
<1>6. CASE BatchSteps /\ ~ResultEnd
  BY <1>6 DEF BatchSteps, CallStart, CallFailed, CallAborted, CallImmediate, EndsAtOnce,
     CallPrepares, CallPrepared, SequentialExecute, SequentialReturn, ParallelExecute, Join,
     JoinThrows, ResultStart, BatchDone, CallsLimited, PrepareNextTurnThrows, PollSteering,
     Ends, LoopEmits, Process, ToolsEmitEnd, GoTo, emitVars, Plain, MessageStart, ToolStart,
     ToolEnd, AgentEnd
<1>7. CASE FailEnd
  <2>1. FailureMessage \in Message /\ FailureMessage.role = "assistant"
    BY AssistantType, EmptySeq DEF TypeOK, FailType, Stop, FailureMessage, Assistant
  <2>2. ~Conv!Complete(FailureMessage) /\ CallsOf(FailureMessage) = {}
    BY NoCallsAsked DEF TypeOK, FailType, FailureMessage, Assistant, Conv!Complete
  <2>3. pc = "failEnd" /\ pc' = "failTurn"
    BY <1>7 DEF FailEnd, At, LoopEmits
  <2>4. QED
    BY <1>7, <2>1, <2>2, <2>3, Spoken DEF FailEnd
<1>8. CASE FailureSteps /\ ~FailEnd /\ ~\E m \in fixups : FixEnd(m)
  BY <1>8 DEF FailureSteps, Catch, SynthesizeResults, FixStart, FailStart, FailTurn,
     FailAgent, FinishRun, LoopEmits, Process, GoTo, emitVars, Plain, MessageStart, AgentEnd
<1>9. QED
  BY <1>1, <1>2, <1>3, <1>4, <1>5, <1>6, <1>7, <1>8 DEF Next, LoopStep, StreamSteps

\* A call counts as requested once its response was recorded, not before, and until the
\* next run.
LEMMA PhaseKnown ==
  ASSUME TypeOK, ExecInv, [Next]_vars, ~\E n \in 0 .. MaxBatch, s \in Stop : StreamDone(n, s)
  PROVE  \A c \in Call :
           /\ phase'[c] # "none" => phase[c] # "none"
           /\ phase[c] # "none" => phase'[c] # "none" \/ \E ps, skip : StartRun(ps, skip)
<1>1. \A cs, p : p # "none" =>
        \A c \in Call : PhaseSet(cs, p)[c] # "none" <=> phase[c] # "none"
  BY DEF PhaseSet
<1>2. CASE UserStep \/ ListenerStep \/ ToolStep \/ UNCHANGED vars
  <2>1. \/ UNCHANGED phase
        \/ (\A c \in Call : phase'[c] = "none") /\ \E ps, skip : StartRun(ps, skip)
        \/ \E cs, p : p # "none" /\ phase' = PhaseSet(cs, p)
    <3>1. CASE UserStep
      <4>1. (\E ps, skip : StartRun(ps, skip)) \/ UNCHANGED Outside \/ Abort
        BY <3>1, UserDoes
      <4>2. QED
        BY <4>1 DEF StartRun, Outside, Abort, emitVars
    <3>2. CASE ListenerStep \/ ToolStep \/ UNCHANGED vars
      BY <3>2 DEF ListenerStep, Skip, Deliver, Fail, Commit, Throw, CommittedPhase, ToolStep,
                  ParallelReturn, ToolsEmitEnd, vars
    <3>3. QED
      BY <1>2, <3>1, <3>2
  <2>2. QED
    BY <1>1, <2>1
<1>3. CASE RunSteps \/ StreamSteps
  BY <1>3, RunCalm, StreamCalm, CalmKeeps
<1>4. CASE BatchSteps
  <2>1. CASE CallStart \/ ParallelExecute
    <3>1. phase' = PhaseSet({Current}, "not-started")
          \/ phase' = PhaseSet(CallsToEnd, "executed-but-post-processing-failed")
      BY <2>1 DEF CallStart, ParallelExecute, ToolsEmitEnd, LoopEmits, Observe, ObservedPhase,
                  ToolStart, Plain
    <3>2. QED
      BY <1>1, <3>1
  <2>2. QED
    BY <1>4, <2>1, BatchCalm, CalmKeeps
<1>5. CASE FailureSteps
  BY <1>5, FailureCalm, CalmKeeps DEF FinishRun
<1>6. QED
  BY <1>2, <1>3, <1>4, <1>5 DEF Next, LoopStep

\* A step answers at most the call whose result it emits.
LEMMA Answers ==
  ASSUME TypeOK, AnswersInv, [Next]_vars, NEW c \in Call, Answered(c)'
  PROVE  \/ Answered(c)
         \/ ResultEnd /\ c = Current
         \/ \E m \in fixups : FixEnd(m) /\ c = m.call
<1>1. transcript \in Seq(Message)
  BY DEF TypeOK, EmitType
<1>2. CASE UNCHANGED transcript
  BY <1>2 DEF Answered
<1>3. CASE \E m \in Message : m.role # "toolResult" /\ transcript' = Append(transcript, m)
  BY <1>1, <1>3, AppendProperties DEF Answered
<1>4. CASE ResultEnd
  <2>1. Current \in Call /\ Result(Current, outcome[Current]) \in Message
    BY <1>4, CurrentCall, ResultType DEF ResultEnd, At, TypeOK, ToolType, ControlOK
  <2>2. transcript' = Recorded(transcript, Result(Current, outcome[Current]))
    BY <1>4 DEF ResultEnd, LoopEmits, Process, MessageEnd, Plain
  <2>3. Result(Current, outcome[Current]).call = Current
    BY DEF Result
  <2>4. QED
    BY <1>1, <1>4, <2>1, <2>2, <2>3, RecordedElements DEF Answered
<1>5. CASE \E m \in fixups : FixEnd(m)
  <2>1. PICK m \in fixups : FixEnd(m)
    BY <1>5
  <2>2. m \in Message /\ transcript' = Recorded(transcript, m)
    BY <2>1 DEF FixEnd, LoopEmits, Process, MessageEnd, Plain, TypeOK, FailType
  <2>3. QED
    BY <1>1, <2>1, <2>2, RecordedElements DEF Answered
<1>6. QED
  BY <1>2, <1>3, <1>4, <1>5, Speeches

\* Only terminalizeFailure makes results up.
LEMMA FixupsShrink ==
  ASSUME [Next]_vars, ~SynthesizeResults PROVE fixups' \subseteq fixups
<1>1. CASE UserStep \/ ListenerStep \/ ToolStep \/ UNCHANGED vars
  <2>1. CASE UserStep
    <3>1. (\E ps, skip : StartRun(ps, skip)) \/ UNCHANGED Outside \/ Abort
      BY <2>1, UserDoes
    <3>2. QED
      BY <3>1 DEF StartRun, Outside, Abort, failVars
  <2>2. CASE ListenerStep \/ ToolStep \/ UNCHANGED vars
    BY <2>2 DEF ListenerStep, Skip, Deliver, Fail, Commit, Throw, ToolStep,
                ParallelReturn, failVars, vars
  <2>3. QED
    BY <1>1, <2>1, <2>2
<1>2. CASE RunSteps \/ StreamSteps
  BY <1>2 DEF RunSteps, RunStarted, PromptStart, PromptEnd, InitialPoll, TurnAborted,
     TurnsLimited, FirstTurn, NextTurn, FollowUps, NoFollowUps, InjectStart,
     InjectEnd, StreamSteps, StreamStart, StreamThrows, StreamDone, ResponseFailed,
     FailedTurn, NoCalls, PlanBatch, Ends, LoopKeeps, failVars
<1>3. CASE BatchSteps
  BY <1>3 DEF BatchSteps, CallStart, CallFailed, CallAborted, CallImmediate, EndsAtOnce,
     CallPrepares, CallPrepared, SequentialExecute, SequentialReturn, ParallelExecute,
     Join, JoinThrows, ResultStart, ResultEnd, BatchDone, CallsLimited,
     PrepareNextTurnThrows, PollSteering, Ends, LoopKeeps, failVars
<1>4. CASE FailureSteps
  BY <1>4 DEF FailureSteps, Catch, FixStart, FixEnd, FailStart, FailEnd,
     FailTurn, FailAgent, FinishRun, LoopKeeps, failVars
<1>5. QED
  BY <1>1, <1>2, <1>3, <1>4 DEF Next, LoopStep

\* Results are synthesized for calls that were requested only.
LEMMA AnswersFixups ==
  ASSUME TypeOK, AnswersInv, [Next]_vars
  PROVE  \A m \in fixups' : m.role = "toolResult" /\ m.call \in Call /\ m.call <= used
<1>1. CASE SynthesizeResults
  <2>1. fixups' = {Result(c, phase[c]) : c \in Unmatched}
    BY <1>1 DEF SynthesizeResults
  <2>2. QED
    BY <2>1 DEF AnswersInv, Unmatched, Result
<1>2. CASE ~SynthesizeResults
  <2>1. fixups' \subseteq fixups
    BY <1>2, FixupsShrink
  <2>2. QED
    BY <2>1 DEF AnswersInv
<1>3. QED
  BY <1>1, <1>2

\* The calls of the last response stay until the next response.
LEMMA BatchStays ==
  ASSUME [Next]_vars, ~\E n \in 0 .. MaxBatch, s \in Stop : StreamDone(n, s)
  PROVE  UNCHANGED <<used, batch, response>>
<1>1. CASE UserStep
  BY <1>1, UserDoes DEF StartRun, Outside, Abort, batchVars
<1>2. CASE ListenerStep \/ ToolStep \/ UNCHANGED vars
  BY <1>2 DEF ListenerStep, Skip, Deliver, Fail, Commit, Throw, ToolStep, ParallelReturn,
     batchVars, vars
<1>3. CASE RunSteps \/ StreamSteps
  BY <1>3 DEF RunSteps, RunStarted, PromptStart, PromptEnd, InitialPoll, TurnAborted,
     TurnsLimited, FirstTurn, NextTurn, FollowUps, NoFollowUps, InjectStart, InjectEnd,
     StreamSteps, StreamStart, StreamThrows, ResponseFailed, FailedTurn, NoCalls, PlanBatch,
     Ends, LoopKeeps, batchVars
<1>4. CASE BatchSteps
  BY <1>4 DEF BatchSteps, CallStart, CallFailed, CallAborted, CallImmediate, EndsAtOnce,
     CallPrepares, CallPrepared, SequentialExecute, SequentialReturn, ParallelExecute, Join,
     JoinThrows, ResultStart, ResultEnd, BatchDone, CallsLimited, PrepareNextTurnThrows,
     PollSteering, Ends, LoopKeeps, batchVars
<1>5. CASE FailureSteps
  BY <1>5 DEF FailureSteps, Catch, SynthesizeResults, FixStart, FixEnd, FailStart, FailEnd,
     FailTurn, FailAgent, FinishRun, LoopKeeps, batchVars
<1>6. QED
  BY <1>1, <1>2, <1>3, <1>4, <1>5 DEF Next, LoopStep

\* Only the loop's own steps take it to a response, to a batch or through one.
LEMMA Positions ==
  ASSUME [Next]_vars
  PROVE  \/ pc' \notin {"response"} \cup BatchLabel
         \/ UNCHANGED <<pc, next, plan, batch, response, transcript, ctx, tool, outcome>>
         \/ UNCHANGED <<pc, next, plan, batch, response, transcript, ctx>>
            /\ (ToolStep \/ ListenerStep)
         \/ \E n \in 0 .. MaxBatch, s \in Stop : StreamDone(n, s)
         \/ PlanBatch
         \/ BatchSteps
<1>1. CASE UserStep
  BY <1>1, UserDoes DEF StartRun, Outside, Abort, batchVars, emitVars, toolVars, BatchLabel
<1>2. CASE ListenerStep \/ ToolStep
  <2>1. UNCHANGED <<next, plan, batch, response, transcript, ctx>>
    BY <1>2 DEF ListenerStep, Skip, Deliver, Fail, Commit, Throw, ToolStep, ParallelReturn,
       ToolsEmitEnd, batchVars
  <2>2. pc' = pc \/ pc' \notin {"response"} \cup BatchLabel
    BY <1>2 DEF ListenerStep, Skip, Deliver, Fail, Commit, Throw, ToolStep, ParallelReturn,
       BatchLabel
  <2>3. QED
    BY <1>2, <2>1, <2>2
<1>3. CASE UNCHANGED vars
  BY <1>3 DEF vars
<1>4. CASE RunSteps
  BY <1>4 DEF RunSteps, RunStarted, PromptStart, PromptEnd, InitialPoll, TurnAborted,
     TurnsLimited, FirstTurn, NextTurn, FollowUps, NoFollowUps, InjectStart, InjectEnd,
     Ends, LoopEmits, GoTo, BatchLabel
<1>5. CASE StreamSteps
  BY <1>5 DEF StreamSteps, StreamStart, StreamThrows, ResponseFailed, FailedTurn, NoCalls,
     Ends, LoopEmits, GoTo, BatchLabel
<1>6. CASE FailureSteps
  BY <1>6 DEF FailureSteps, Catch, SynthesizeResults, FixStart, FixEnd, FailStart, FailEnd,
     FailTurn, FailAgent, FinishRun, LoopEmits, GoTo, BatchLabel
<1>7. QED
  BY <1>1, <1>2, <1>3, <1>4, <1>5, <1>6 DEF Next, LoopStep

\* Within a batch the loop goes forward, but once: it comes back to say the results.
LEMMA BatchForward ==
  ASSUME TypeOK, BatchSteps, pc' \in BatchLabel
  PROVE  /\ pc \in BatchLabel /\ UNCHANGED <<batch, plan>>
         /\ Join \/ next' \in {next, next + 1}
         /\ InParallel /\ pc \in {"result", "resultEnd"} => pc' \in {"result", "resultEnd"}
         /\ ResultEnd => next' = next + 1 /\ (InParallel => pc' = "result")
<1>1. pc \in BatchLabel /\ UNCHANGED <<batch, plan>>
  BY DEF BatchSteps, CallStart, CallFailed, CallAborted, CallImmediate, EndsAtOnce,
     CallPrepares, CallPrepared, SequentialExecute, SequentialReturn, ParallelExecute, Join,
     JoinThrows, ResultStart, ResultEnd, BatchDone, CallsLimited, PrepareNextTurnThrows,
     PollSteering, Ends, LoopEmits, GoTo, At, LoopKeeps, batchVars, BatchLabel
<1>2. Join \/ next' \in {next, next + 1}
  BY DEF BatchSteps, CallStart, CallFailed, CallAborted, CallImmediate, EndsAtOnce,
     CallPrepares, CallPrepared, SequentialExecute, SequentialReturn, ParallelExecute,
     JoinThrows, ResultStart, ResultEnd, BatchDone, CallsLimited, PrepareNextTurnThrows,
     PollSteering, Ends, LoopKeeps
<1>3. InParallel /\ pc \in {"result", "resultEnd"} => pc' \in {"result", "resultEnd"}
  BY DEF BatchSteps, CallStart, CallFailed, CallAborted, CallImmediate, CallPrepares,
     CallPrepared, SequentialExecute, SequentialReturn, ParallelExecute, Join, JoinThrows,
     ResultStart, ResultEnd, BatchDone, CallsLimited, PrepareNextTurnThrows, PollSteering,
     Ends, LoopEmits, GoTo, At, BatchLabel
<1>4. ResultEnd => next' = next + 1 /\ (InParallel => pc' = "result")
  BY DEF ResultEnd, LoopEmits
<1>5. QED
  BY <1>1, <1>2, <1>3, <1>4

\* A new response asks for new calls only.
LEMMA NewCalls ==
  ASSUME TypeOK, NEW n \in 0 .. MaxBatch, NEW s \in Stop, StreamDone(n, s)
  PROVE  /\ used' = used + n /\ n \in Nat /\ pc' = "response"
         /\ BatchCalls' \subseteq Call
         /\ \A c \in BatchCalls' : c > used /\ c <= used'
         /\ \A c \in Call : phase'[c] # "none" => phase[c] # "none" \/ c \in BatchCalls'
<1> DEFINE cs == [i \in 1 .. n |-> used + i]
           m == Assistant(cs, s)
<1>1. used \in Nat /\ n \in Nat
  BY AgentRunAssumption DEF TypeOK, BatchType
<1>2. batch' = cs /\ used' = used + n /\ pc' = "response" /\ used + n <= MaxCalls
  BY DEF StreamDone, Assistant, LoopEmits
<1>3. phase' = ObservedPhase(MessageEnd(m))
  BY DEF StreamDone, LoopEmits, Observe
<1>4. BatchCalls' = {used + i : i \in 1 .. n} /\ CallsOf(m) = {used + i : i \in 1 .. n}
  BY <1>2 DEF BatchCalls, ElementsOf, CallsOf, Assistant
<1>5. \A c \in {used + i : i \in 1 .. n} : c > used /\ c <= used + n /\ c \in Call
  BY <1>1, <1>2, AgentRunAssumption DEF Call
<1>6. \A c \in Call : phase'[c] # "none" => phase[c] # "none" \/ c \in CallsOf(m)
  BY <1>3 DEF TypeOK, EmitType, ObservedPhase, MessageEnd, Plain, PhaseSet
<1>7. QED
  BY <1>1, <1>2, <1>4, <1>5, <1>6

\* Every step preserves AnswersInv.
LEMMA NextAnswers ==
  ASSUME TypeOK, ExecInv, ToolInv, AnswersInv, [Next]_vars PROVE AnswersInv'
<1>0. TypeOK' /\ used \in Nat /\ used' \in Nat /\ \A c \in Call : c \in Nat
  BY NextType DEF TypeOK, BatchType, Call
<1>1. \A c \in Call : Answered(c)' => c <= used
  <2>1. ASSUME ResultEnd PROVE Current <= used
    <3>1. Current \in BatchCalls
      BY <2>1, CurrentCall DEF ResultEnd, At, TypeOK, ControlOK
    <3>2. QED
      BY <3>1 DEF ExecInv, OnlyRequested
  <2>2. QED
    BY <2>1, Answers DEF AnswersInv
<1>2. CASE \E n \in 0 .. MaxBatch, s \in Stop : StreamDone(n, s)
  <2>1. PICK n \in 0 .. MaxBatch, s \in Stop : StreamDone(n, s)
    BY <1>2
  <2>2. /\ used' = used + n /\ n \in Nat /\ pc' = "response"
        /\ BatchCalls' \subseteq Call
        /\ \A c \in BatchCalls' : c > used /\ c <= used'
        /\ \A c \in Call : phase'[c] # "none" => phase[c] # "none" \/ c \in BatchCalls'
    BY <2>1, NewCalls
  <2>3. \A c \in Call : c <= used => c <= used'
    BY <1>0, <2>2
  <2>4. \A c \in Call : Answered(c)' \/ phase'[c] # "none" => c <= used'
    BY <1>1, <2>2, <2>3 DEF AnswersInv
  <2>5. \A m \in fixups' : m.role = "toolResult" /\ m.call \in Call /\ m.call <= used'
    BY <2>3, AnswersFixups
  <2>6. \A c \in BatchCalls' : ~Answered(c)'
    BY <1>0, <1>1, <2>2
  <2>7. QED
    BY <2>2, <2>4, <2>5, <2>6 DEF AnswersInv, BatchLabel
<1>3. CASE ~\E n \in 0 .. MaxBatch, s \in Stop : StreamDone(n, s)
  <2>1. UNCHANGED <<used, batch, response>>
    BY <1>3, BatchStays
  <2>2. \A c \in Call : Answered(c)' \/ phase'[c] # "none" => c <= used'
    BY <1>1, <1>3, <2>1, PhaseKnown DEF AnswersInv
  <2>3. \A m \in fixups' : m.role = "toolResult" /\ m.call \in Call /\ m.call <= used'
    BY <2>1, AnswersFixups
  <2>4. BatchCalls' = BatchCalls
    BY <2>1 DEF BatchCalls, ElementsOf
  <2>5. SUFFICES /\ pc' = "response" => \A c \in BatchCalls : ~Answered(c)'
                 /\ pc' \in BatchLabel =>
                      \A i \in DOMAIN batch, c \in Call : c = batch[i] /\ Answered(c)' => Said(i)'
    <3>1. \A i \in DOMAIN batch : batch[i] \in Call
      BY DEF TypeOK, BatchType
    <3>2. QED
      BY <2>1, <2>2, <2>3, <2>4, <2>5, <3>1 DEF AnswersInv
  <2>6. CASE pc' \notin {"response"} \cup BatchLabel
    BY <2>6
  <2>7. CASE UNCHANGED <<pc, next, plan, batch, transcript>>
    <3>1. \A c : Answered(c)' <=> Answered(c)
      BY <2>7 DEF Answered
    <3>2. \A i : Said(i)' <=> Said(i)
      BY <2>7 DEF Said, InParallel
    <3>3. QED
      BY <2>7, <3>1, <3>2 DEF AnswersInv
  <2>8. CASE PlanBatch
    <3>1. pc = "response" /\ pc' = "calls" /\ UNCHANGED transcript
      BY <2>8 DEF PlanBatch, At, GoTo, emitVars
    <3>2. \A c : Answered(c)' <=> Answered(c)
      BY <3>1 DEF Answered
    <3>3. QED
      BY <3>1, <3>2 DEF AnswersInv, BatchCalls, ElementsOf
  <2>9. CASE BatchSteps /\ pc' \in {"response"} \cup BatchLabel
    <3>1. pc' \in BatchLabel
      BY <2>9 DEF BatchSteps, CallStart, CallFailed, CallAborted, CallImmediate, EndsAtOnce,
         CallPrepares, CallPrepared, SequentialExecute, SequentialReturn, ParallelExecute,
         Join, JoinThrows, ResultStart, ResultEnd, BatchDone, CallsLimited,
         PrepareNextTurnThrows, PollSteering, Ends, LoopEmits, GoTo, BatchLabel
    <3>2. /\ pc \in BatchLabel /\ UNCHANGED <<batch, plan>>
          /\ Join \/ next' \in {next, next + 1}
          /\ InParallel /\ pc \in {"result", "resultEnd"} => pc' \in {"result", "resultEnd"}
          /\ ResultEnd => next' = next + 1 /\ (InParallel => pc' = "result")
      BY <2>9, <3>1, BatchForward
    <3>3. next \in Nat /\ DOMAIN batch = 1 .. Len(batch) /\ Len(batch) \in Nat
          /\ \A i \in DOMAIN batch : batch[i] \in Call
      BY LenProperties DEF TypeOK, BatchType
    <3>4. InParallel' <=> InParallel
      BY <3>2 DEF InParallel
    <3>5. ~\E m \in fixups : FixEnd(m)
      BY <3>1 DEF FixEnd, LoopEmits, BatchLabel
    <3>6. ASSUME NEW i \in DOMAIN batch, NEW c \in Call, c = batch[i], Answered(c)'
          PROVE  Said(i)'
      <4>1. CASE Answered(c)
        <5>1. Said(i)
          BY <3>2, <3>6, <4>1 DEF AnswersInv
        <5>2. ~Join
          BY <3>2, <5>1 DEF Join, At, Said, ToolInv, Progress
        <5>3. QED
          BY <3>2, <3>3, <3>4, <5>1, <5>2 DEF Said
      <4>2. CASE ~Answered(c)
        <5>1. ResultEnd /\ batch[i] = Current
          BY <3>5, <3>6, <4>2, Answers
        <5>2. i = next
          BY <5>1, CurrentCall DEF ResultEnd, At, TypeOK, ControlOK, ToolInv, SeparateCalls, Current
        <5>3. QED
          BY <3>2, <3>3, <3>4, <5>1, <5>2 DEF Said
      <4>3. QED
        BY <4>1, <4>2
    <3>7. QED
      BY <3>1, <3>6 DEF BatchLabel
  <2>10. QED
    BY <1>3, <2>6, <2>7, <2>8, <2>9, Positions
<1>4. QED
  BY <1>2, <1>3

-----------------------------------------------------------------------------
(* Results that stay, and results that tell the truth *)

\* The loop is emitting a result of call c to the listeners.
SaysResult(c) ==
  Emits(Loop, "message_end") /\ out[Loop].ev.msg.role = "toolResult" /\ out[Loop].ev.msg.call = c

\* While results are made up, there is one for each call, and none for a call that has
\* one already, or that may have one before the next is emitted.
FinalInv ==
  /\ \A m, n \in fixups : m.call = n.call => m = n
  /\ pc \in {"fix", "fixEnd"} => \A m \in fixups : m.call \notin resulted /\ ~SaysResult(m.call)

\* A set of natural numbers has a least element.
LEMMA Least ==
  ASSUME NEW S \in SUBSET Nat, S # {}
  PROVE  \E i \in S : \A j \in S : i <= j
<1> DEFINE T == {0 .. i : i \in S}
<1>1. T \subseteq FiniteSubsetsOf(Nat)
  <2>1. \A i \in Nat : IsFiniteSet(0 .. i) /\ 0 .. i \subseteq Nat
    BY FS_Interval
  <2>2. QED
    BY <2>1 DEF FiniteSubsetsOf
<1>2. PICK x \in T : \A y \in T : <<y, x>> \notin StrictSubsetOrdering(Nat)
  <2>1. T # {}
    OBVIOUS
  <2>2. QED
    BY <1>1, <2>1, FS_StrictSubsetOrderingWellFounded, WFMin
<1>3. PICK i \in S : x = 0 .. i
  BY <1>2
<1>4. ASSUME NEW j \in S PROVE i <= j
  <2>1. SUFFICES ASSUME j < i PROVE FALSE
    OBVIOUS
  <2>2. 0 .. j \subseteq Nat /\ 0 .. i \subseteq Nat /\ 0 .. j \subseteq 0 .. i
        /\ i \notin 0 .. j /\ i \in 0 .. i
    BY <2>1
  <2>3. <<0 .. j, 0 .. i>> \in StrictSubsetOrdering(Nat)
    BY <2>2 DEF StrictSubsetOrdering
  <2>4. QED
    BY <1>2, <1>3, <2>3
<1>5. QED
  BY <1>4

\* Recording a result keeps every message but an earlier result of the same call.
LEMMA RecordedOthers ==
  ASSUME NEW S, NEW ms \in Seq(S), NEW m \in S, NEW i \in DOMAIN ms,
         ms[i].role # "toolResult" \/ ms[i].call # m.call
  PROVE  Recorded(ms, m)[i] = ms[i]
<1> DEFINE same == {j \in DOMAIN ms : ms[j].role = "toolResult" /\ ms[j].call = m.call}
<1>1. Append(ms, m)[i] = ms[i]
  BY AppendProperties
<1>2. CASE same # {}
  <2>1. same \in SUBSET Nat
    BY LenProperties
  <2>2. \E j \in same : \A k \in same : j <= k
    BY <1>2, <2>1, Least
  <2>3. (CHOOSE j \in same : \A k \in same : j <= k) \in same
    BY <2>2
  <2>4. \A j \in same : [ms EXCEPT ![j] = m][i] = ms[i]
    OBVIOUS
  <2>5. QED
    BY <1>1, <2>3, <2>4 DEF Recorded
<1>3. CASE same = {}
  BY <1>1, <1>3 DEF Recorded
<1>4. QED
  BY <1>2, <1>3

\* Outside terminalizeFailure and the other actors nothing leads to the made-up results.
LEMMA FixPositions ==
  ASSUME [Next]_vars, pc' \in {"fix", "fixEnd"}
  PROVE  \/ SynthesizeResults
         \/ \E m \in fixups : FixStart(m) \/ FixEnd(m)
         \/ /\ UNCHANGED <<pc, fixups, executed>>
            /\ UNCHANGED Outside \/ Abort \/ ListenerStep \/ ToolStep \/ UNCHANGED vars
<1>1. CASE UserStep
  BY <1>1, UserDoes DEF StartRun, Outside, Abort, failVars, toolVars
<1>2. CASE ListenerStep \/ ToolStep \/ UNCHANGED vars
  <2>1. UNCHANGED <<pc, fixups, executed>>
    BY <1>2 DEF ListenerStep, Skip, Deliver, Fail, Commit, Throw, ToolStep, ParallelReturn,
       failVars, toolVars, vars
  <2>2. QED
    BY <1>2, <2>1
<1>3. CASE RunSteps \/ StreamSteps
  BY <1>3 DEF RunSteps, RunStarted, PromptStart, PromptEnd, InitialPoll, TurnAborted,
     TurnsLimited, FirstTurn, NextTurn, FollowUps, NoFollowUps, InjectStart, InjectEnd,
     StreamSteps, StreamStart, StreamThrows, StreamDone, ResponseFailed, FailedTurn, NoCalls,
     PlanBatch, Ends, LoopEmits, GoTo
<1>4. CASE BatchSteps
  BY <1>4 DEF BatchSteps, CallStart, CallFailed, CallAborted, CallImmediate, EndsAtOnce,
     CallPrepares, CallPrepared, SequentialExecute, SequentialReturn, ParallelExecute, Join,
     JoinThrows, ResultStart, ResultEnd, BatchDone, CallsLimited, PrepareNextTurnThrows,
     PollSteering, Ends, LoopEmits, GoTo
<1>5. CASE FailureSteps
  BY <1>5 DEF FailureSteps, Catch, FailStart, FailEnd, FailTurn, FailAgent, FinishRun,
     LoopEmits, GoTo
<1>6. QED
  BY <1>1, <1>2, <1>3, <1>4, <1>5 DEF Next, LoopStep

\* Of the other actors only a listener that accepts a result changes what has a result.
LEMMA Accepting ==
  ASSUME TypeOK, ToolInv,
         UNCHANGED Outside \/ Abort \/ ListenerStep \/ ToolStep \/ UNCHANGED vars,
         NEW c \in Call, c \in resulted' \/ SaysResult(c)'
  PROVE  c \in resulted \/ SaysResult(c)
<1>0. Loop \in Coroutine /\ \A d \in Call : d \in Coroutine /\ d # Loop
  BY Coroutines
<1>1. CASE UNCHANGED Outside \/ Abort \/ UNCHANGED vars
  BY <1>1 DEF Outside, Abort, vars, emitVars, SaysResult, Emits
<1>2. CASE ToolStep
  BY <1>0, <1>2 DEF ToolStep, ParallelReturn, ToolsEmitEnd, SaysResult, Emits, TypeOK, EmitType
<1>3. CASE ListenerStep
  <2>1. PICK co \in Coroutine :
          Commit(co) \/ Throw(co) \/ \E l \in Listener : Skip(co, l) \/ Deliver(co, l) \/ Fail(co, l)
    BY <1>3 DEF ListenerStep
  <2>2. out \in [Coroutine -> Emission]
    BY DEF TypeOK, EmitType
  <2>3. CASE \E l \in Listener : Skip(co, l) \/ Deliver(co, l) \/ Fail(co, l)
    <3>1. UNCHANGED resulted /\ \E l, f : out' = [out EXCEPT ![co] = Awaited(@, l, f)]
      BY <2>3 DEF Skip, Deliver, Fail
    <3>2. out'[Loop].ev = out[Loop].ev
      BY <1>0, <2>2, <3>1 DEF Awaited, Emission
    <3>3. QED
      BY <3>1, <3>2 DEF SaysResult, Emits
  <2>4. CASE Commit(co) \/ Throw(co)
    <3>1. out' = [out EXCEPT ![co] = Quiet] /\ ~IsQuiet(co)
      BY <2>4 DEF Commit, Throw
    <3>2. SaysResult(c)' => SaysResult(c)
      BY <1>0, <2>2, <3>1 DEF SaysResult, Emits, Quiet, Plain
    <3>3. co \in Call => out[co].ev.type = "tool_execution_end"
      BY <3>1 DEF ToolInv, CallsEmit, Emits
    <3>4. c \in resulted' => c \in resulted \/ SaysResult(c)
      BY <2>4, <3>3 DEF Commit, Throw, SaysResult, Emits, Coroutine
    <3>5. QED
      BY <3>2, <3>4
  <2>5. QED
    BY <2>1, <2>3, <2>4
<1>4. QED
  BY <1>1, <1>2, <1>3

\* Every step preserves FinalInv.
LEMMA NextFinal ==
  ASSUME TypeOK, ToolInv, AnswersInv, FinalInv, [Next]_vars PROVE FinalInv'
<1>1. \A m, n \in fixups' : m.call = n.call => m = n
  <2>1. CASE SynthesizeResults
    BY <2>1 DEF SynthesizeResults, Result
  <2>2. CASE ~SynthesizeResults
    BY <2>2, FixupsShrink DEF FinalInv
  <2>3. QED
    BY <2>1, <2>2
<1>2. ASSUME pc' \in {"fix", "fixEnd"}, NEW m \in fixups'
      PROVE  ~(m.call \in resulted' \/ SaysResult(m.call)')
  <2>1. CASE SynthesizeResults
    <3>1. m.call \notin resulted /\ IsQuiet(Loop) /\ UNCHANGED <<resulted, out>>
      BY <1>2, <2>1 DEF SynthesizeResults, Unmatched, Result, At, GoTo, emitVars, LoopFrame
    <3>2. QED
      BY <3>1 DEF SaysResult, Emits, IsQuiet
  <2>2. CASE \E n \in fixups : FixStart(n)
    <3>1. PICK n \in fixups : FixStart(n)
      BY <2>2
    <3>2. /\ UNCHANGED <<resulted, fixups>> /\ pc = "fix"
          /\ out' = [out EXCEPT ![Loop] = Emitting(MessageStart(n), activeRun)]
      BY <3>1 DEF FixStart, At, LoopEmits, LoopKeeps, LoopFrame, failVars
    <3>3. out'[Loop].ev.type = "message_start"
      BY <3>2, Coroutines DEF Emitting, MessageStart, Plain, TypeOK, EmitType
    <3>4. QED
      BY <1>2, <3>2, <3>3 DEF FinalInv, SaysResult, Emits
  <2>3. CASE \E n \in fixups : FixEnd(n)
    <3>1. PICK n \in fixups : FixEnd(n)
      BY <2>3
    <3>2. /\ UNCHANGED resulted /\ fixups' = fixups \ {n} /\ pc = "fixEnd"
          /\ out' = [out EXCEPT ![Loop] = Emitting(MessageEnd(n), activeRun)]
      BY <3>1 DEF FixEnd, At, LoopEmits, LoopFrame
    <3>3. out'[Loop].ev.msg = n
      BY <3>2, Coroutines DEF Emitting, MessageEnd, Plain, TypeOK, EmitType
    <3>4. m \in fixups /\ m.call # n.call
      BY <1>2, <3>1, <3>2 DEF FinalInv
    <3>5. QED
      BY <3>2, <3>3, <3>4 DEF FinalInv, SaysResult
  <2>4. CASE /\ UNCHANGED <<pc, fixups, executed>>
             /\ UNCHANGED Outside \/ Abort \/ ListenerStep \/ ToolStep \/ UNCHANGED vars
    <3>1. m \in fixups /\ m.call \in Call /\ m.call \notin resulted /\ ~SaysResult(m.call)
      BY <1>2, <2>4 DEF FinalInv, AnswersInv
    <3>2. QED
      BY <2>4, <3>1, Accepting
  <2>5. QED
    BY <1>2, <2>1, <2>2, <2>3, <2>4, FixPositions
<1>3. QED
  BY <1>1, <1>2 DEF FinalInv

\* No step replaces a result that the listeners accepted.
LEMMA StepsAreFinal ==
  ASSUME TypeOK, AnswersInv, FinalInv, [Next]_vars, NEW i \in DOMAIN transcript,
         transcript[i].role = "toolResult", transcript[i].call \in resulted
  PROVE  transcript'[i] = transcript[i]
<1>1. transcript \in Seq(Message)
  BY DEF TypeOK, EmitType
<1>2. CASE \E m \in Message : m.role # "toolResult" /\ transcript' = Append(transcript, m)
  BY <1>1, <1>2, AppendProperties
<1>3. CASE ResultEnd
  <2>1. Current \in Call /\ next \in DOMAIN batch /\ Result(Current, outcome[Current]) \in Message
    BY <1>3, CurrentCall, ResultType DEF ResultEnd, At, TypeOK, ToolType, ControlOK
  <2>2. transcript' = Recorded(transcript, Result(Current, outcome[Current]))
        /\ Result(Current, outcome[Current]).call = Current
    BY <1>3 DEF ResultEnd, LoopEmits, Process, MessageEnd, Plain, Result
  <2>3. ~Answered(Current)
    <3>1. pc = "resultEnd" /\ next \in Nat
      BY <1>3 DEF ResultEnd, At, TypeOK, BatchType
    <3>2. QED
      BY <2>1, <3>1 DEF AnswersInv, BatchLabel, Said, Current
  <2>4. transcript[i].call # Current
    BY <2>3 DEF Answered
  <2>5. QED
    BY <1>1, <2>1, <2>2, <2>4, RecordedOthers
<1>4. CASE \E m \in fixups : FixEnd(m)
  <2>1. PICK m \in fixups : FixEnd(m)
    BY <1>4
  <2>2. m \in Message /\ transcript' = Recorded(transcript, m)
    BY <2>1 DEF FixEnd, LoopEmits, Process, MessageEnd, Plain, TypeOK, FailType
  <2>3. m.call \notin resulted
    BY <2>1 DEF FixEnd, At, FinalInv
  <2>4. QED
    BY <1>1, <2>2, <2>3, RecordedOthers
<1>5. QED
  BY <1>2, <1>3, <1>4, Speeches

\* Initially nothing was answered and nothing is made up.
LEMMA InitAnswers == Init => AnswersInv /\ FinalInv
  BY DEF Init, AnswersInv, FinalInv, Answered, BatchLabel

\* A tool result that the listeners of a run, persistence among them, have accepted stays
\* as it is for the rest of the run: terminalizeFailure makes up results only for calls
\* that have none, and a call is answered once in a batch (agent-loop.ts,
\* terminalizeFailure; agent.ts, the replacement of an earlier result in processEvents).
THEOREM AcceptedResultsStay == Spec => AcceptedResultsAreFinal
<1>1. Init => TypeOK /\ ExecInv /\ ToolInv /\ AnswersInv /\ FinalInv
  BY InitType, InitExec, InitTool, InitAnswers
<1>2. TypeOK /\ ExecInv /\ ToolInv /\ AnswersInv /\ FinalInv /\ [Next]_vars
      => (TypeOK /\ ExecInv /\ ToolInv /\ AnswersInv /\ FinalInv)'
  BY NextType, NextExec, NextTool, NextAnswers, NextFinal
<1>3. TypeOK /\ AnswersInv /\ FinalInv /\ [Next]_vars
      => [\A i \in DOMAIN transcript :
            transcript[i].role = "toolResult" /\ transcript[i].call \in resulted
            => transcript'[i] = transcript[i]]_vars
  BY StepsAreFinal
<1>4. QED
  BY <1>1, <1>2, <1>3, PTL DEF Spec, AcceptedResultsAreFinal

Honest(m) ==
  m.role = "toolResult" => /\ m.outcome = "not-started" => m.call \notin executed
                           /\ m.outcome \in {"ok", "terminate"} => m.call \in executed

\* The results said are honest, and so are those about to be made up.
HonestInv ==
  /\ \A i \in DOMAIN transcript : Honest(transcript[i])
  /\ pc \in {"fix", "fixEnd"} => \A m \in fixups : Honest(m)

\* Only calls without an answer come to be executed, and only in a batch.
LEMMA Executing ==
  ASSUME TypeOK, ToolInv, AnswersInv, [Next]_vars
  PROVE  /\ executed \subseteq executed'
         /\ executed' # executed => UNCHANGED <<transcript, fixups>> /\ pc' \in BatchLabel
         /\ \A c \in executed' : c \in executed \/ ~Answered(c)
<1>1. CASE UserStep
  BY <1>1, UserDoes DEF StartRun, Outside, Abort, toolVars
<1>2. CASE ListenerStep \/ ToolStep \/ UNCHANGED vars
  BY <1>2 DEF ListenerStep, Skip, Deliver, Fail, Commit, Throw, ToolStep, ParallelReturn,
     toolVars, vars
<1>3. CASE RunSteps \/ StreamSteps
  BY <1>3 DEF RunSteps, RunStarted, PromptStart, PromptEnd, InitialPoll, TurnAborted,
     TurnsLimited, FirstTurn, NextTurn, FollowUps, NoFollowUps, InjectStart, InjectEnd,
     StreamSteps, StreamStart, StreamThrows, StreamDone, ResponseFailed, FailedTurn, NoCalls,
     PlanBatch, Ends, LoopKeeps, toolVars
<1>4. CASE BatchSteps /\ ~SequentialExecute /\ ~ParallelExecute
  BY <1>4 DEF BatchSteps, CallStart, CallFailed, CallAborted, CallImmediate, EndsAtOnce,
     CallPrepares, CallPrepared, SequentialReturn, Join, JoinThrows, ResultStart, ResultEnd,
     BatchDone, CallsLimited, PrepareNextTurnThrows, PollSteering, Ends, LoopKeeps, toolVars
<1>5. CASE SequentialExecute
  <2>1. /\ executed' = executed \cup {Current} /\ pc = "awaitTool" /\ pc' = "awaitTool"
        /\ UNCHANGED <<transcript, fixups>>
    BY <1>5 DEF SequentialExecute, At, GoTo, emitVars, failVars
  <2>2. next \in DOMAIN batch /\ next \in Nat
    BY <2>1, CurrentCall DEF TypeOK, ControlOK, BatchType
  <2>3. ~Answered(Current)
    BY <2>1, <2>2 DEF AnswersInv, BatchLabel, Said, Current
  <2>4. QED
    BY <2>1, <2>3 DEF BatchLabel
<1>6. CASE ParallelExecute
  <2>1. /\ executed' = executed \cup CallsToExecute /\ pc = "calls" /\ pc' = "join" /\ InParallel
        /\ UNCHANGED <<transcript, fixups>>
    BY <1>6 DEF ParallelExecute, At, ToolsEmitEnd, failVars
  <2>2. \A i \in DOMAIN batch : ~Answered(batch[i])
    BY <2>1 DEF AnswersInv, BatchLabel, Said
  <2>3. \A c \in CallsToExecute : ~Answered(c)
    BY <2>2 DEF CallsToExecute, PreparedCalls, BatchCalls, ElementsOf
  <2>4. QED
    BY <2>1, <2>3 DEF BatchLabel
<1>7. CASE FailureSteps
  BY <1>7 DEF FailureSteps, Catch, SynthesizeResults, FixStart, FixEnd, FailStart, FailEnd,
     FailTurn, FailAgent, FinishRun, LoopKeeps, toolVars
<1>8. QED
  BY <1>1, <1>2, <1>3, <1>4, <1>5, <1>6, <1>7 DEF Next, LoopStep

\* Every step preserves HonestInv.
LEMMA NextHonest ==
  ASSUME TypeOK, ToolInv, AnswersInv, HonestInv, [Next]_vars PROVE HonestInv'
<1>1. transcript \in Seq(Message)
  BY DEF TypeOK, EmitType
<1>2. CASE executed' # executed
  <2>1. UNCHANGED <<transcript, fixups>> /\ pc' \notin {"fix", "fixEnd"}
        /\ executed \subseteq executed' /\ \A c \in executed' : c \in executed \/ ~Answered(c)
    BY <1>2, Executing DEF BatchLabel
  <2>2. \A i \in DOMAIN transcript : Honest(transcript[i]) /\
          (transcript[i].role = "toolResult" => Answered(transcript[i].call))
    BY DEF HonestInv, Answered
  <2>3. ASSUME NEW i \in DOMAIN transcript PROVE Honest(transcript[i])'
    BY <2>1, <2>2 DEF Honest
  <2>4. QED
    BY <2>1, <2>3 DEF HonestInv
<1>3. CASE UNCHANGED executed
  <2>1. \A m : Honest(m)' <=> Honest(m)
    BY <1>3 DEF Honest
  <2>2. ASSUME NEW i \in DOMAIN transcript' PROVE Honest(transcript'[i])
    <3>1. CASE UNCHANGED transcript
      BY <3>1 DEF HonestInv
    <3>2. CASE \E m \in Message : m.role # "toolResult" /\ transcript' = Append(transcript, m)
      BY <1>1, <3>2, AppendProperties DEF HonestInv, Honest
    <3>3. CASE ResultEnd
      <4>1. Current \in Call /\ Result(Current, outcome[Current]) \in Message
        BY <3>3, CurrentCall, ResultType DEF ResultEnd, At, TypeOK, ToolType, ControlOK
      <4>2. transcript' = Recorded(transcript, Result(Current, outcome[Current]))
        BY <3>3 DEF ResultEnd, LoopEmits, Process, MessageEnd, Plain
      <4>3. Honest(Result(Current, outcome[Current]))
        BY <4>1 DEF Honest, Result, ToolInv, OutcomesTrue
      <4>4. QED
        BY <1>1, <4>1, <4>2, <4>3, RecordedElements DEF HonestInv
    <3>4. CASE \E m \in fixups : FixEnd(m)
      <4>1. PICK m \in fixups : FixEnd(m)
        BY <3>4
      <4>2. m \in Message /\ transcript' = Recorded(transcript, m)
        BY <4>1 DEF FixEnd, LoopEmits, Process, MessageEnd, Plain, TypeOK, FailType
      <4>3. Honest(m)
        BY <4>1 DEF FixEnd, At, HonestInv
      <4>4. QED
        BY <1>1, <4>2, <4>3, RecordedElements DEF HonestInv
    <3>5. QED
      BY <3>1, <3>2, <3>3, <3>4, Speeches
  <2>3. ASSUME pc' \in {"fix", "fixEnd"}, NEW m \in fixups' PROVE Honest(m)
    <3>1. CASE SynthesizeResults
      <4>1. PICK c \in Unmatched : m = Result(c, phase[c])
        BY <2>3, <3>1 DEF SynthesizeResults
      <4>2. c \in Call /\ phase[c] # "none" /\ phase[c] \in ToolFailurePhase \cup {"none"}
        BY <4>1 DEF Unmatched, TypeOK, EmitType
      <4>3. phase[c] = "not-started" => c \notin executed
        BY <4>2 DEF ToolInv, Begun, ExecutedBegun
      <4>4. QED
        BY <4>1, <4>2, <4>3 DEF Honest, Result, ToolFailurePhase
    <3>2. CASE (\E n \in fixups : FixStart(n) \/ FixEnd(n)) \/ UNCHANGED <<pc, fixups, executed>>
      <4>1. pc \in {"fix", "fixEnd"} /\ m \in fixups
        BY <2>3, <3>2 DEF FixStart, FixEnd, At, LoopKeeps, failVars
      <4>2. QED
        BY <4>1 DEF HonestInv
    <3>3. QED
      BY <2>3, <3>1, <3>2, FixPositions
  <2>4. QED
    BY <2>1, <2>2, <2>3 DEF HonestInv
<1>4. QED
  BY <1>2, <1>3

\* A tool result in the transcript tells the truth, also when the run failed, was aborted
\* or lost a listener: what is reported as not started was never executed, and nothing is
\* reported as done that was not (agent-loop.ts, terminalizeFailure, which reads the phase
\* of each call that AgentRunLifecycle tracked).
THEOREM ResultsTellTheTruth == Spec => []ResultsAreHonest
<1>1. Init => TypeOK /\ ExecInv /\ ToolInv /\ AnswersInv /\ HonestInv
  <2>1. Init => HonestInv
    BY DEF Init, HonestInv
  <2>2. QED
    BY <2>1, InitType, InitExec, InitTool, InitAnswers
<1>2. TypeOK /\ ExecInv /\ ToolInv /\ AnswersInv /\ HonestInv /\ [Next]_vars
      => (TypeOK /\ ExecInv /\ ToolInv /\ AnswersInv /\ HonestInv)'
  BY NextType, NextExec, NextTool, NextAnswers, NextHonest
<1>3. HonestInv => ResultsAreHonest
  BY DEF HonestInv, Honest, ResultsAreHonest
<1>4. QED
  BY <1>1, <1>2, <1>3, PTL DEF Spec

-----------------------------------------------------------------------------
(* The context sent with a request *)

PromptLabel == {"started", "prompts", "promptEnd"}
TurnLabel == {"top", "inject", "injectEnd", "streaming", "response", "turnEnded"}

\* The results of the batch that have been emitted.
SaidCount == IF InParallel /\ pc \notin {"result", "resultEnd"} THEN 0 ELSE next - 1
SaidResults == [i \in 1 .. SaidCount |-> Result(batch[i], outcome[batch[i]])]

\* The context runs ahead of the transcript by the prompts, then behind it by the results.
ContextInv ==
  /\ pc \in PromptLabel => ctx = transcript \o Users(prompts)
  /\ pc \in TurnLabel => ctx = transcript
  /\ pc \in BatchLabel => transcript = ctx \o SaidResults

\* The head of a sequence may change hands.
LEMMA HeadMoves ==
  ASSUME NEW S, NEW s \in Seq(S), NEW t \in Seq(S), t # <<>>
  PROVE  Append(s, Head(t)) \o Tail(t) = s \o t
<1>1. Append(s, Head(t)) \in Seq(S) /\ Tail(t) \in Seq(S) /\ Head(t) \in S
      /\ Len(Tail(t)) = Len(t) - 1 /\ Len(t) \in Nat \ {0} /\ Len(s) \in Nat
  BY HeadTailProperties, AppendProperties, EmptySeq, LenProperties
<1> DEFINE a == Append(s, Head(t)) \o Tail(t)
           b == s \o t
<1>2. a \in Seq(S) /\ b \in Seq(S) /\ Len(a) = Len(b)
  BY <1>1, ConcatProperties, AppendProperties
<1>3. ASSUME NEW i \in 1 .. Len(a) PROVE a[i] = b[i]
  <2>1. CASE i <= Len(s)
    BY <1>1, <1>2, <2>1, ConcatProperties, AppendProperties
  <2>2. CASE i = Len(s) + 1
    BY <1>1, <1>2, <2>2, ConcatProperties, AppendProperties, HeadTailProperties
  <2>3. CASE i > Len(s) + 1
    BY <1>1, <1>2, <2>3, ConcatProperties, AppendProperties, HeadTailProperties
  <2>4. QED
    BY <1>1, <1>2, <2>1, <2>2, <2>3
<1>4. QED
  BY <1>2, <1>3, SeqEqual

\* The messages of the texts after the first.
LEMMA UsersTail ==
  ASSUME NEW ts \in Seq(Text), ts # <<>>
  PROVE  /\ Users(ts) \in Seq(Message) /\ Users(ts) # <<>> /\ Head(Users(ts)) = User(Head(ts))
         /\ Tail(Users(ts)) = Users(Tail(ts))
<1>1. Users(ts) \in Seq(Message) /\ Len(ts) \in Nat \ {0} /\ Tail(ts) \in Seq(Text)
      /\ Len(Tail(ts)) = Len(ts) - 1 /\ \A i \in 1 .. Len(ts) - 1 : Tail(ts)[i] = ts[i + 1]
  BY UsersType, LenProperties, HeadTailProperties, EmptySeq
<1>2. Len(Users(ts)) = Len(ts) /\ \A i \in 1 .. Len(ts) : Users(ts)[i] = User(ts[i])
  BY <1>1 DEF Users
<1>3. Users(Tail(ts)) \in Seq(Message) /\ Len(Users(Tail(ts))) = Len(ts) - 1
      /\ \A i \in 1 .. Len(ts) - 1 : Users(Tail(ts))[i] = User(Tail(ts)[i])
  BY <1>1, UsersType DEF Users
<1>4. Users(ts) # <<>> /\ Head(Users(ts)) = User(Head(ts))
  BY <1>1, <1>2
<1>5. Tail(Users(ts)) \in Seq(Message) /\ Len(Tail(Users(ts))) = Len(ts) - 1
      /\ \A i \in 1 .. Len(ts) - 1 : Tail(Users(ts))[i] = Users(ts)[i + 1]
  BY <1>1, <1>2, <1>4, HeadTailProperties
<1>6. \A i \in 1 .. Len(ts) - 1 : Tail(Users(ts))[i] = Users(Tail(ts))[i]
  BY <1>1, <1>2, <1>3, <1>5
<1>7. Tail(Users(ts)) = Users(Tail(ts))
  BY <1>3, <1>5, <1>6, SeqEqual
<1>8. QED
  BY <1>1, <1>4, <1>7

\* What only awaits or only touches the outside leaves the context as it is.
LEMMA ContextSame ==
  ASSUME ContextInv,
         UNCHANGED <<pc, ctx, transcript, prompts, next, plan, batch, outcome>>
  PROVE  ContextInv'
  BY DEF ContextInv, SaidResults, SaidCount, InParallel

\* So does whatever ends at another label.
LEMMA ContextElsewhere ==
  ASSUME pc' \notin PromptLabel \cup TurnLabel \cup BatchLabel
  PROVE  ContextInv'
  BY DEF ContextInv

\* A new outcome of a call whose result has not been said changes none of the results said.
LEMMA SaidSame ==
  ASSUME TypeOK, ContextInv, pc \in BatchLabel, pc' \in BatchLabel,
         UNCHANGED <<ctx, transcript, batch, plan>>, SaidCount' = SaidCount,
         SaidCount <= Len(batch),
         \A i \in 1 .. SaidCount : outcome'[batch[i]] = outcome[batch[i]]
  PROVE  ContextInv'
<1>1. SaidResults' = SaidResults
  BY DEF SaidResults
<1>2. QED
  BY <1>1 DEF ContextInv, PromptLabel, TurnLabel, BatchLabel

\* Starting a run, its prompts and its injected messages.
LEMMA ContextRun == ASSUME TypeOK, ContextInv, RunSteps PROVE ContextInv'
<1>1. transcript \in Seq(Message) /\ prompts \in Seq(Text)
  BY DEF TypeOK, EmitType, ContextType
<1>2. CASE RunStarted \/ PromptStart
  <2>1. pc \in PromptLabel /\ pc' \in PromptLabel /\ UNCHANGED <<ctx, transcript, prompts>>
    BY <1>2 DEF RunStarted, PromptStart, At, LoopEmits, Process, Plain, MessageStart, LoopKeeps,
       inputVars, PromptLabel
  <2>2. QED
    BY <2>1 DEF ContextInv, PromptLabel, TurnLabel, BatchLabel
<1>3. CASE PromptEnd
  <2>1. prompts # <<>> /\ pc = "promptEnd" /\ pc' = "prompts" /\ ctx' = ctx /\ prompts' = Tail(prompts)
    BY <1>3 DEF PromptEnd, At, TypeOK, ControlOK, LoopEmits
  <2>2. transcript' = Append(transcript, User(Head(prompts)))
    BY <1>3, Spoken DEF PromptEnd, User
  <2>3. transcript' \o Users(prompts') = transcript \o Users(prompts)
    BY <1>1, <2>1, <2>2, UsersTail, HeadMoves
  <2>4. QED
    BY <2>1, <2>3 DEF ContextInv, PromptLabel, TurnLabel, BatchLabel
<1>4. CASE InitialPoll
  <2>1. pc = "prompts" /\ pc' = "top" /\ UNCHANGED <<ctx, transcript>> /\ prompts = <<>>
    BY <1>4 DEF InitialPoll, At, GoTo, emitVars
  <2>2. Users(prompts) = <<>>
    BY <2>1 DEF Users
  <2>3. ctx = transcript
    BY <1>1, <2>1, <2>2, ConcatEmptySeq DEF ContextInv, PromptLabel
  <2>4. QED
    BY <2>1, <2>3 DEF ContextInv, PromptLabel, TurnLabel, BatchLabel
<1>5. CASE FirstTurn \/ NextTurn \/ FollowUps \/ InjectStart
  <2>1. pc \in TurnLabel /\ pc' \in TurnLabel /\ UNCHANGED <<ctx, transcript>>
    BY <1>5 DEF FirstTurn, NextTurn, FollowUps, InjectStart, At, LoopEmits, Process, GoTo,
       emitVars, Plain, MessageStart, LoopKeeps, TurnLabel
  <2>2. QED
    BY <2>1 DEF ContextInv, PromptLabel, TurnLabel, BatchLabel
<1>6. CASE InjectEnd
  <2>1. pc = "injectEnd" /\ pc' = "inject" /\ ctx' = Append(ctx, User(Head(pending)))
    BY <1>6 DEF InjectEnd, At, LoopEmits
  <2>2. transcript' = Append(transcript, User(Head(pending)))
    BY <1>6, Spoken DEF InjectEnd, User
  <2>3. QED
    BY <2>1, <2>2 DEF ContextInv, PromptLabel, TurnLabel, BatchLabel
<1>7. CASE TurnAborted \/ TurnsLimited \/ NoFollowUps
  BY <1>7, ContextElsewhere DEF TurnAborted, TurnsLimited, NoFollowUps, Ends, LoopEmits,
     PromptLabel, TurnLabel, BatchLabel
<1>8. QED
  BY <1>2, <1>3, <1>4, <1>5, <1>6, <1>7 DEF RunSteps

\* A response joins the transcript and the context.
LEMMA ContextStream == ASSUME TypeOK, ContextInv, StreamSteps PROVE ContextInv'
<1>1. transcript \in Seq(Message)
  BY DEF TypeOK, EmitType
<1>2. CASE StreamStart \/ NoCalls
  <2>1. pc \in TurnLabel /\ pc' \in TurnLabel /\ UNCHANGED <<ctx, transcript>>
    BY <1>2 DEF StreamStart, NoCalls, At, LoopEmits, Process, Plain, MessageStart, LoopKeeps,
       TurnLabel
  <2>2. QED
    BY <2>1 DEF ContextInv, PromptLabel, TurnLabel, BatchLabel
<1>3. ASSUME NEW n \in 0 .. MaxBatch, NEW s \in Stop, StreamDone(n, s) PROVE ContextInv'
  <2> DEFINE m == Assistant([i \in 1 .. n |-> used + i], s)
  <2>1. pc = "streaming" /\ pc' = "response" /\ ctx' = Append(ctx, m)
    BY <1>3 DEF StreamDone, At, LoopEmits
  <2>2. transcript' = Append(transcript, m)
    BY <1>3, Spoken DEF StreamDone, Assistant
  <2>3. QED
    BY <2>1, <2>2 DEF ContextInv, PromptLabel, TurnLabel, BatchLabel
<1>4. CASE PlanBatch
  <2>1. pc = "response" /\ pc' = "calls" /\ next' = 1 /\ UNCHANGED <<ctx, transcript>>
    BY <1>4 DEF PlanBatch, At, GoTo, emitVars
  <2>2. SaidResults' = <<>>
    BY <2>1 DEF SaidResults, SaidCount
  <2>3. transcript' = ctx' \o SaidResults'
    BY <1>1, <2>1, <2>2, ConcatEmptySeq DEF ContextInv, TurnLabel
  <2>4. QED
    BY <2>1, <2>3 DEF ContextInv, PromptLabel, TurnLabel, BatchLabel
<1>5. CASE StreamThrows \/ ResponseFailed \/ FailedTurn
  BY <1>5, ContextElsewhere DEF StreamThrows, ResponseFailed, FailedTurn, Ends, LoopEmits, GoTo,
     PromptLabel, TurnLabel, BatchLabel
<1>6. QED
  BY <1>2, <1>3, <1>4, <1>5 DEF StreamSteps

\* The results of the batch are messages.
LEMMA SaidType ==
  ASSUME TypeOK, NEW k \in 0 .. Len(batch)
  PROVE  [i \in 1 .. k |-> Result(batch[i], outcome[batch[i]])] \in Seq(Message)
<1>1. \A i \in 1 .. k : batch[i] \in Call /\ outcome[batch[i]] \in Outcome
  BY LenProperties DEF TypeOK, BatchType, ToolType
<1>2. \A i \in 1 .. k : Result(batch[i], outcome[batch[i]]) \in Message
  BY <1>1, ResultType
<1> DEFINE M == Message
           r(i) == Result(batch[i], outcome[batch[i]])
<1>3. \A i \in 1 .. k : r(i) \in M
  BY <1>2
<1>4. k \in Nat
  BY LenProperties DEF TypeOK, BatchType
<1> HIDE DEF M, r
<1>5. [i \in 1 .. k |-> r(i)] \in Seq(M)
  BY <1>3, <1>4
<1>6. QED
  BY <1>5 DEF M, r

\* One more result is said.
LEMMA SaidMore ==
  ASSUME TypeOK, NEW k \in 0 .. Len(batch) - 1
  PROVE  [i \in 1 .. k + 1 |-> Result(batch[i], outcome[batch[i]])]
         = Append([i \in 1 .. k |-> Result(batch[i], outcome[batch[i]])],
                  Result(batch[k + 1], outcome[batch[k + 1]]))
<1> DEFINE r(i) == Result(batch[i], outcome[batch[i]])
           s == [i \in 1 .. k |-> r(i)]
           t == [i \in 1 .. k + 1 |-> r(i)]
<1>1. Len(batch) \in Nat /\ k \in Nat /\ k \in 0 .. Len(batch) /\ k + 1 \in 0 .. Len(batch)
  BY LenProperties DEF TypeOK, BatchType
<1>2. s \in Seq(Message) /\ t \in Seq(Message)
  BY <1>1, SaidType
<1>3. t[k + 1] \in Message
  BY <1>1, <1>2
<1>4. Append(s, t[k + 1]) \in Seq(Message) /\ Len(s) = k /\ Len(t) = k + 1
      /\ Len(Append(s, t[k + 1])) = k + 1
  BY <1>1, <1>2, <1>3, AppendProperties
<1>5. ASSUME NEW i \in 1 .. k + 1 PROVE Append(s, t[k + 1])[i] = t[i]
  BY <1>1, <1>2, <1>3, <1>4, AppendProperties
<1>6. Append(s, t[k + 1]) = t
  BY <1>2, <1>4, <1>5, SeqEqual
<1>7. t[k + 1] = r(k + 1)
  BY <1>1
<1>8. QED
  BY <1>6, <1>7

\* Every result joins the transcript when it is said, and the context after the batch.
LEMMA ContextBatch ==
  ASSUME TypeOK, ToolInv, AnswersInv, ContextInv, BatchSteps PROVE ContextInv'
<1>0. /\ next \in Nat \ {0} /\ Len(batch) \in Nat /\ DOMAIN batch = 1 .. Len(batch)
      /\ transcript \in Seq(Message) /\ ctx \in Seq(Message)
      /\ \A i \in DOMAIN batch : batch[i] \in Call
      /\ outcome \in [Call -> Outcome]
  BY LenProperties DEF TypeOK, BatchType, EmitType, ContextType, ToolType
<1>1. pc \in BatchLabel => next <= Len(batch) + 1 /\ SaidCount \in 0 .. Len(batch)
  BY <1>0 DEF ToolInv, Progress, SaidCount
<1>2. CASE JoinThrows \/ CallsLimited \/ PrepareNextTurnThrows
  BY <1>2, ContextElsewhere DEF JoinThrows, CallsLimited, PrepareNextTurnThrows, Ends,
     LoopEmits, GoTo, PromptLabel, TurnLabel, BatchLabel
<1>3. CASE PollSteering
  <2>1. pc = "turnEnded" /\ pc' = "top" /\ UNCHANGED <<ctx, transcript>>
    BY <1>3 DEF PollSteering, At, GoTo, emitVars
  <2>2. QED
    BY <2>1 DEF ContextInv, PromptLabel, TurnLabel, BatchLabel
<1>4. CASE BatchDone
  <2>1. /\ pc' = "turnEnded" /\ UNCHANGED transcript /\ ctx' = ctx \o BatchResults
        /\ pc = (IF InParallel THEN "result" ELSE "calls") /\ next > Len(batch)
    BY <1>4 DEF BatchDone, At, LoopEmits, Process, Plain
  <2>2. SaidCount = Len(batch) /\ pc \in BatchLabel
    BY <1>0, <1>1, <2>1 DEF SaidCount, BatchLabel
  <2>3. SaidResults = BatchResults
    BY <2>2 DEF SaidResults, BatchResults
  <2>4. QED
    BY <2>1, <2>2, <2>3 DEF ContextInv, PromptLabel, TurnLabel, BatchLabel
<1>5. CASE ResultEnd
  <2>1. /\ pc = "resultEnd" /\ next <= Len(batch) /\ next' = next + 1
        /\ pc' = (IF InParallel THEN "result" ELSE "calls")
        /\ UNCHANGED <<ctx, batch, plan, outcome>>
        /\ transcript' = Recorded(transcript, Result(Current, outcome[Current]))
    BY <1>5 DEF ResultEnd, At, TypeOK, ControlOK, LoopEmits, Process, MessageEnd, Plain,
       batchVars, toolVars
  <2>2. ~Answered(Current) /\ Current \in Call
    <3>1. next \in DOMAIN batch /\ pc = "resultEnd"
      BY <1>0, <2>1
    <3>2. QED
      BY <1>0, <3>1 DEF AnswersInv, BatchLabel, Said, Current
  <2>3. transcript' = Append(transcript, Result(Current, outcome[Current]))
    <3>1. Result(Current, outcome[Current]).call = Current
      BY DEF Result
    <3>2. {i \in DOMAIN transcript : transcript[i].role = "toolResult"
             /\ transcript[i].call = Result(Current, outcome[Current]).call} = {}
      BY <2>2, <3>1 DEF Answered
    <3>3. QED
      BY <2>1, <3>2 DEF Recorded
  <2> DEFINE k == next - 1
             said == [i \in 1 .. k |-> Result(batch[i], outcome[batch[i]])]
  <2>4. SaidCount = k /\ SaidCount' = k + 1 /\ k \in 0 .. Len(batch) - 1 /\ k + 1 = next
    BY <1>0, <2>1 DEF SaidCount, InParallel
  <2>5. SaidResults' = Append(SaidResults, Result(Current, outcome[Current]))
    <3>1. [i \in 1 .. k + 1 |-> Result(batch[i], outcome[batch[i]])]
          = Append(said, Result(batch[k + 1], outcome[batch[k + 1]]))
      BY <2>4, SaidMore
    <3>2. SaidResults = said
      BY <2>4 DEF SaidResults
    <3>3. SaidResults' = [i \in 1 .. k + 1 |-> Result(batch[i], outcome[batch[i]])]
      BY <2>1, <2>4 DEF SaidResults
    <3>4. QED
      BY <2>4, <3>1, <3>2, <3>3 DEF Current
  <2>6. SaidResults \in Seq(Message)
    <3>1. k \in 0 .. Len(batch)
      BY <1>0, <2>4
    <3>2. QED
      BY <2>4, <3>1, SaidType DEF SaidResults
  <2>7. Result(Current, outcome[Current]) \in Message
    BY <1>0, <2>2, ResultType
  <2>8. transcript = ctx \o SaidResults
    BY <2>1 DEF ContextInv, BatchLabel
  <2>9. transcript' = ctx' \o SaidResults'
    <3> DEFINE r == Result(Current, outcome[Current])
    <3>1. Append(ctx \o SaidResults, r) = ctx \o Append(SaidResults, r)
      <4>1. ctx \in Seq(Message) /\ SaidResults \in Seq(Message) /\ r \in Message
        BY <1>0, <2>6, <2>7
      <4> HIDE DEF r
      <4>2. QED
        BY <4>1
    <3>2. transcript' = Append(ctx \o SaidResults, r)
      BY <2>3, <2>8
    <3>3. ctx' = ctx /\ SaidResults' = Append(SaidResults, r)
      BY <2>1, <2>5
    <3> HIDE DEF r
    <3>4. QED
      BY <3>1, <3>2, <3>3
  <2>10. QED
    BY <2>1, <2>9 DEF ContextInv, PromptLabel, TurnLabel, BatchLabel
<1>6. CASE Join
  <2>1. pc = "join" /\ pc' = "result" /\ next' = 1 /\ InParallel
        /\ UNCHANGED <<ctx, transcript, batch, plan, outcome>>
    BY <1>6 DEF Join, At, GoTo, emitVars, batchVars, toolVars, ToolInv, Progress, BatchLabel
  <2>2. SaidCount = 0 /\ SaidCount' = 0 /\ pc \in BatchLabel /\ pc' \in BatchLabel
    BY <2>1 DEF SaidCount, BatchLabel, InParallel
  <2>3. SaidCount <= Len(batch) /\ \A i \in 1 .. SaidCount : outcome'[batch[i]] = outcome[batch[i]]
    BY <1>0, <2>2
  <2>4. QED
    BY <2>1, <2>2, <2>3, SaidSame
<1>7. CASE CallFailed \/ CallAborted \/ CallImmediate
  <2>1. /\ pc \in {"called", "preparing"} /\ pc' = (IF InParallel THEN "calls" ELSE "result")
        /\ next' = (IF InParallel THEN next + 1 ELSE next) /\ next <= Len(batch)
        /\ outcome' = [outcome EXCEPT ![Current] = "error"]
        /\ UNCHANGED <<ctx, transcript, batch, plan>>
    BY <1>7 DEF CallFailed, CallAborted, CallImmediate, At, EndsAtOnce, LoopEmits, Process,
       ToolEnd, Plain, batchVars, TypeOK, ControlOK
  <2>2. SaidCount' = SaidCount /\ SaidCount <= next - 1 /\ pc \in BatchLabel /\ pc' \in BatchLabel
    BY <1>0, <2>1 DEF SaidCount, BatchLabel, InParallel
  <2>3. \A i \in 1 .. SaidCount : batch[i] # Current
    <3>1. next \in DOMAIN batch /\ \A i \in 1 .. SaidCount : i \in DOMAIN batch /\ i # next
      BY <1>0, <1>1, <2>1, <2>2
    <3>2. QED
      BY <3>1 DEF ToolInv, SeparateCalls, Current
  <2>4. QED
    <3>1. \A i \in 1 .. SaidCount : batch[i] \in Call
      BY <1>0, <1>1, <2>2
    <3>2. \A i \in 1 .. SaidCount : outcome'[batch[i]] = outcome[batch[i]]
      BY <1>0, <2>1, <2>3, <3>1
    <3>3. SaidCount <= Len(batch)
      BY <1>0, <1>1, <2>2
    <3>4. QED
      BY <2>1, <2>2, <3>2, <3>3, SaidSame
<1>8. ASSUME NEW o \in {"ok", "terminate", "error"}, SequentialReturn(o) PROVE ContextInv'
  <2>1. /\ pc = "awaitTool" /\ pc' = "result" /\ next' = next /\ next <= Len(batch)
        /\ outcome' = [outcome EXCEPT ![Current] = o]
        /\ UNCHANGED <<ctx, transcript, batch, plan>>
    BY <1>8 DEF SequentialReturn, At, LoopEmits, Process, ToolEnd, Plain, batchVars, TypeOK,
       ControlOK
  <2>2. ~InParallel /\ pc \in BatchLabel /\ pc' \in BatchLabel
    BY <2>1 DEF ToolInv, Progress, BatchLabel
  <2>3. SaidCount = next - 1 /\ SaidCount' = SaidCount
    BY <2>1, <2>2 DEF SaidCount, InParallel
  <2>4. \A i \in 1 .. SaidCount : batch[i] # Current /\ batch[i] \in Call
    <3>1. next \in DOMAIN batch /\ \A i \in 1 .. SaidCount : i \in DOMAIN batch /\ i # next
      BY <1>0, <2>1, <2>3
    <3>2. QED
      BY <1>0, <3>1 DEF ToolInv, SeparateCalls, Current
  <2>5. \A i \in 1 .. SaidCount : outcome'[batch[i]] = outcome[batch[i]]
    BY <1>0, <2>1, <2>4
  <2>6. SaidCount <= Len(batch)
    BY <1>0, <2>1, <2>3
  <2>7. QED
    BY <2>1, <2>2, <2>3, <2>5, <2>6, SaidSame
<1>9. CASE ParallelExecute
  <2>1. /\ pc = "calls" /\ pc' = "join" /\ InParallel
        /\ UNCHANGED <<ctx, transcript, batch, plan>>
    BY <1>9 DEF ParallelExecute, At, ToolsEmitEnd, batchVars
  <2>2. SaidCount = 0 /\ SaidCount' = 0 /\ pc \in BatchLabel /\ pc' \in BatchLabel
    BY <2>1 DEF SaidCount, BatchLabel, InParallel
  <2>3. SaidCount <= Len(batch) /\ \A i \in 1 .. SaidCount : outcome'[batch[i]] = outcome[batch[i]]
    BY <1>0, <2>2
  <2>4. QED
    BY <2>1, <2>2, <2>3, SaidSame
<1>10. CASE CallStart \/ CallPrepares \/ CallPrepared \/ SequentialExecute \/ ResultStart
  <2>1. /\ pc \in BatchLabel /\ pc' \in BatchLabel
        /\ next' = (IF CallPrepared /\ InParallel THEN next + 1 ELSE next)
        /\ UNCHANGED <<ctx, transcript, batch, plan, outcome>>
        /\ (InParallel => (pc \in {"result", "resultEnd"} <=> pc' \in {"result", "resultEnd"}))
        /\ (CallPrepared /\ InParallel => pc \notin {"result", "resultEnd"})
    <3>1. CASE CallPrepared
      BY <3>1 DEF CallPrepared, At, GoTo, emitVars, batchVars, BatchLabel
    <3>2. CASE ~CallPrepared
      BY <1>10, <3>2 DEF CallStart, CallPrepares, SequentialExecute, ResultStart, At, GoTo,
         LoopEmits, Process, LoopKeeps, Plain, ToolStart, MessageStart, emitVars, batchVars,
         toolVars, BatchLabel
    <3>3. QED
      BY <3>1, <3>2
  <2>2. SaidCount' = SaidCount
    BY <2>1 DEF SaidCount, InParallel
  <2>3. SaidCount <= Len(batch)
    BY <1>0, <1>1, <2>1
  <2>4. QED
    BY <2>1, <2>2, <2>3, SaidSame
<1>11. QED
  BY <1>2, <1>3, <1>4, <1>5, <1>6, <1>7, <1>8, <1>9, <1>10 DEF BatchSteps

\* A tool call that returns has not been answered yet.
LEMMA ContextTool ==
  ASSUME TypeOK, ToolInv, ContextInv, ToolStep PROVE ContextInv'
<1>1. PICK c \in Call, o \in {"ok", "terminate", "error"} : ParallelReturn(c, o)
  BY DEF ToolStep
<1>2. /\ UNCHANGED <<pc, ctx, transcript, prompts, next, plan, batch>>
      /\ outcome' = [outcome EXCEPT ![c] = o] /\ tool[c] = "running"
  BY <1>1 DEF ParallelReturn, ToolsEmitEnd, inputVars, batchVars
<1>3. CASE pc \notin BatchLabel
  BY <1>2, <1>3 DEF ContextInv
<1>4. CASE pc \in BatchLabel
  <2>1. /\ next \in Nat \ {0} /\ Len(batch) \in Nat /\ DOMAIN batch = 1 .. Len(batch)
        /\ \A i \in DOMAIN batch : batch[i] \in Call
        /\ outcome \in [Call -> Outcome] /\ next <= Len(batch) + 1
    BY <1>4, LenProperties DEF TypeOK, BatchType, ToolType, ToolInv, Progress
  <2>2. SaidCount' = SaidCount /\ SaidCount <= Len(batch)
    BY <1>2, <2>1 DEF SaidCount, InParallel
  <2>3. \A i \in 1 .. SaidCount : i \in DOMAIN batch /\ tool[batch[i]] = "done"
    BY <1>4, <2>1, <2>2 DEF ToolInv, Progress, SaidCount
  <2>4. \A i \in 1 .. SaidCount : outcome'[batch[i]] = outcome[batch[i]]
    BY <1>2, <2>1, <2>3
  <2>5. QED
    BY <1>2, <1>4, <2>2, <2>4, SaidSame
<1>5. QED
  BY <1>3, <1>4

\* Every step preserves ContextInv.
LEMMA NextContext ==
  ASSUME TypeOK, ToolInv, AnswersInv, ContextInv, [Next]_vars PROVE ContextInv'
<1>1. CASE UserStep
  <2>1. CASE \E ps, skip : StartRun(ps, skip)
    BY <2>1 DEF StartRun, ContextInv, PromptLabel, TurnLabel, BatchLabel
  <2>2. CASE UNCHANGED Outside \/ Abort
    BY <2>2, ContextSame DEF Outside, Abort, emitVars, inputVars, batchVars, toolVars
  <2>3. QED
    BY <1>1, <2>1, <2>2, UserDoes
<1>2. CASE ListenerStep
  <2>1. UNCHANGED <<ctx, transcript, prompts, next, plan, batch, outcome>>
    BY <1>2 DEF ListenerStep, Skip, Deliver, Fail, Commit, Throw, inputVars, batchVars, toolVars
  <2>2. pc' = pc \/ pc' = "catchFatal"
    BY <1>2 DEF ListenerStep, Skip, Deliver, Fail, Commit, Throw
  <2>3. QED
    BY <2>1, <2>2, ContextSame, ContextElsewhere DEF PromptLabel, TurnLabel, BatchLabel
<1>3. CASE FailureSteps
  BY <1>3, ContextElsewhere DEF FailureSteps, Catch, SynthesizeResults, FixStart, FixEnd,
     FailStart, FailEnd, FailTurn, FailAgent, FinishRun, LoopEmits, GoTo, PromptLabel,
     TurnLabel, BatchLabel
<1>4. CASE UNCHANGED vars
  BY <1>4, ContextSame DEF vars
<1>5. QED
  BY <1>1, <1>2, <1>3, <1>4, ContextRun, ContextStream, ContextBatch, ContextTool
     DEF Next, LoopStep

\* Every request sends the transcript, whole and in order: the context that the loop keeps
\* beside it agrees with it whenever a response is asked for, after prompts, injected
\* messages and both kinds of batches (agent-loop.ts, runLoop: currentContext.messages).
THEOREM RequestsSendTranscript == Spec => []ContextIsTranscript
<1>1. Init => TypeOK /\ ExecInv /\ ToolInv /\ AnswersInv /\ ContextInv
  <2>1. Init => ContextInv
    BY DEF Init, ContextInv, PromptLabel, TurnLabel, BatchLabel
  <2>2. QED
    BY <2>1, InitType, InitExec, InitTool, InitAnswers
<1>2. TypeOK /\ ExecInv /\ ToolInv /\ AnswersInv /\ ContextInv /\ [Next]_vars
      => (TypeOK /\ ExecInv /\ ToolInv /\ AnswersInv /\ ContextInv)'
  BY NextType, NextExec, NextTool, NextAnswers, NextContext
<1>3. ContextInv => ContextIsTranscript
  BY DEF ContextInv, TurnLabel, ContextIsTranscript, At
<1>4. QED
  BY <1>1, <1>2, <1>3, PTL DEF Spec

-----------------------------------------------------------------------------
(* What a step of the loop does to the end of the run *)

EndLabel == {"ended", "failEnded"}

\* The loop only goes on when it emits nothing; it is not in the control of the
\* listeners, signals and runs.
LoopTurn ==
  /\ IsQuiet(Loop) /\ pc \notin EndLabel \cup {"idle"}
  /\ UNCHANGED <<activeRun, runs, lastTermination, abort, critical, failed, failures,
                 termination, endSeen>>

\* It emits agent_end, ...
LoopEnds == \E r : LoopEmits(AgentEnd(r), pc') /\ pc' \in EndLabel

\* ... or goes on, and may emit some other event.
LoopGoes ==
  /\ pc' \notin {"failEnded", "idle"} /\ (pc' = "ended" => terminal)
  /\ terminal' = terminal
  /\ \/ out'[Loop] = out[Loop]
     \/ \E ev \in Event : /\ ev.type \notin {"none", "agent_end"} /\ pc' # "ended"
                          /\ out'[Loop] = Emitting(ev, activeRun)

\* Emitting an event other than agent_end is going on.
LEMMA EmitsGoes ==
  ASSUME TypeOK, NEW ev \in Event, ev.type \notin {"none", "agent_end"},
         NEW l, l \notin EndLabel \cup {"idle"}, LoopEmits(ev, l)
  PROVE  LoopGoes
<1>1. out'[Loop] = Emitting(ev, activeRun)
  BY Coroutines DEF LoopEmits, TypeOK, EmitType
<1>2. terminal' = terminal /\ pc' = l
  BY DEF LoopEmits, Observe, TypeOK, EmitType
<1>3. QED
  BY <1>1, <1>2 DEF LoopGoes, EndLabel

\* Moving on without an event is going on, too.
LEMMA MovesGoes ==
  ASSUME NEW l, l \notin EndLabel \cup {"idle"}, GoTo(l)
  PROVE  LoopGoes
  BY DEF GoTo, emitVars, LoopGoes, EndLabel

\* The events that may be emitted are events.
LEMMA EventKinds ==
  /\ \A t \in EventType \ {"tool_execution_start"} : Plain(t) \in Event /\ Plain(t).type = t
  /\ \A m \in Message : /\ MessageStart(m) \in Event /\ MessageStart(m).type = "message_start"
                        /\ MessageEnd(m) \in Event /\ MessageEnd(m).type = "message_end"
  /\ \A c \in Call : /\ ToolStart(c) \in Event /\ ToolStart(c).type = "tool_execution_start"
                     /\ ToolEnd(c) \in Event /\ ToolEnd(c).type = "tool_execution_end"
<1>1. \A t \in EventType \ {"tool_execution_start"} : Plain(t) \in Event
  BY EventTypes DEF Emittable
<1>2. \A m \in Message : MessageStart(m) \in Event /\ MessageEnd(m) \in Event
  BY EventTypes DEF Emittable
<1>3. \A c \in Call : ToolStart(c) \in Event /\ ToolEnd(c) \in Event
  BY EventTypes DEF Emittable
<1>4. /\ \A t : Plain(t).type = t
      /\ \A m : MessageStart(m).type = "message_start" /\ MessageEnd(m).type = "message_end"
      /\ \A c : ToolStart(c).type = "tool_execution_start" /\ ToolEnd(c).type = "tool_execution_end"
  BY DEF Plain, MessageStart, MessageEnd, ToolStart, ToolEnd
<1>5. QED
  BY <1>1, <1>2, <1>3, <1>4

\* The loop outside responses and batches ends the run or goes on.
LEMMA RunGoes ==
  ASSUME TypeOK, RunSteps PROVE LoopTurn /\ (LoopEnds \/ LoopGoes)
<1>0. LoopTurn
  BY DEF RunSteps, RunStarted, PromptStart, PromptEnd, InitialPoll, TurnAborted,
     TurnsLimited, FirstTurn, NextTurn, FollowUps, NoFollowUps, InjectStart, InjectEnd,
     Ends, At, LoopKeeps, LoopFrame, runVars, signalVars, endVars, LoopTurn, EndLabel
<1>1. CASE RunStarted \/ NextTurn
  BY <1>0, <1>1, EventKinds, EmitsGoes DEF RunStarted, NextTurn, EventType, EndLabel
<1>2. CASE PromptStart
  <2>1. Head(prompts) \in Text
    BY <1>2 DEF PromptStart, TypeOK, ContextType
  <2>2. QED
    BY <1>0, <1>2, <2>1, UserType, EventKinds, EmitsGoes DEF PromptStart, EndLabel
<1>3. CASE PromptEnd
  <2>1. Head(prompts) \in Text
    BY <1>3 DEF PromptEnd, At, TypeOK, ContextType, ControlOK
  <2>2. QED
    BY <1>0, <1>3, <2>1, UserType, EventKinds, EmitsGoes DEF PromptEnd, EndLabel
<1>4. CASE InjectStart
  <2>1. Head(pending) \in Text
    BY <1>4 DEF InjectStart, TypeOK, ContextType
  <2>2. QED
    BY <1>0, <1>4, <2>1, UserType, EventKinds, EmitsGoes DEF InjectStart, EndLabel
<1>5. CASE InjectEnd
  <2>1. Head(pending) \in Text
    BY <1>5 DEF InjectEnd, At, TypeOK, ContextType, ControlOK
  <2>2. QED
    BY <1>0, <1>5, <2>1, UserType, EventKinds, EmitsGoes DEF InjectEnd, EndLabel
<1>6. CASE InitialPoll \/ FirstTurn \/ FollowUps
  BY <1>0, <1>6, MovesGoes DEF InitialPoll, FirstTurn, FollowUps, EndLabel
<1>7. CASE TurnAborted \/ TurnsLimited \/ NoFollowUps
  BY <1>0, <1>7 DEF TurnAborted, TurnsLimited, NoFollowUps, Ends, LoopEnds, LoopEmits, EndLabel
<1>8. QED
  BY <1>1, <1>2, <1>3, <1>4, <1>5, <1>6, <1>7 DEF RunSteps

\* So does it where a response streams, ...
LEMMA StreamGoes ==
  ASSUME TypeOK, StreamSteps PROVE LoopTurn /\ (LoopEnds \/ LoopGoes)
<1>0. LoopTurn
  BY DEF StreamSteps, StreamStart, StreamThrows, StreamDone, ResponseFailed, FailedTurn,
     NoCalls, PlanBatch, Ends, At, LoopKeeps, LoopFrame, runVars, signalVars, endVars,
     LoopTurn, EndLabel
<1>1. CASE StreamStart
  <2>1. Assistant(<<>>, "stop") \in Message
    BY AssistantType, EmptySeq DEF Stop
  <2>2. QED
    BY <1>0, <1>1, <2>1, EventKinds, EmitsGoes DEF StreamStart, EndLabel
<1>2. CASE \E n \in 0 .. MaxBatch, s \in Stop : StreamDone(n, s)
  <2>1. PICK n \in 0 .. MaxBatch, s \in Stop : StreamDone(n, s)
    BY <1>2
  <2> DEFINE cs == [i \in 1 .. n |-> used + i]
             m == Assistant(cs, s)
  <2>2. m \in Message
    <3>1. batch' = cs
      BY <2>1 DEF StreamDone, Assistant
    <3>2. cs \in Seq(Call)
      BY <2>1, <3>1, StreamStepsType DEF StreamSteps, TypeOK, BatchType
    <3>3. QED
      BY <3>2, AssistantType
  <2>3. LoopEmits(MessageEnd(m), "response")
    BY <2>1 DEF StreamDone
  <2>4. QED
    BY <1>0, <2>2, <2>3, EventKinds, EmitsGoes DEF EndLabel
<1>3. CASE StreamThrows \/ PlanBatch
  BY <1>0, <1>3, MovesGoes DEF StreamThrows, PlanBatch, EndLabel
<1>4. CASE ResponseFailed \/ NoCalls
  BY <1>0, <1>4, EventKinds, EmitsGoes DEF ResponseFailed, NoCalls, EventType, EndLabel
<1>5. CASE FailedTurn
  BY <1>0, <1>5 DEF FailedTurn, Ends, LoopEnds, LoopEmits, EndLabel
<1>6. QED
  BY <1>1, <1>2, <1>3, <1>4, <1>5 DEF StreamSteps

\* ... in a batch, ...
LEMMA BatchGoes ==
  ASSUME TypeOK, BatchSteps PROVE LoopTurn /\ (LoopEnds \/ LoopGoes)
<1>0. LoopTurn
  BY DEF BatchSteps, CallStart, CallFailed, CallAborted, CallImmediate, EndsAtOnce,
     CallPrepares, CallPrepared, SequentialExecute, SequentialReturn, ParallelExecute, Join,
     JoinThrows, ResultStart, ResultEnd, BatchDone, CallsLimited, PrepareNextTurnThrows,
     PollSteering, Ends, At, LoopKeeps, LoopFrame, runVars, signalVars, endVars, LoopTurn,
     EndLabel
<1>1. CASE CallFailed \/ CallAborted \/ CallImmediate \/ CallStart
           \/ (\E o \in {"ok", "terminate", "error"} : SequentialReturn(o))
  <2>1. Current \in Call
    BY <1>1, CurrentCall DEF CallFailed, CallAborted, CallImmediate, SequentialReturn, CallStart,
       At, TypeOK, ControlOK
  <2>2. \E l \in {"called", "calls", "result"} :
          LoopEmits(ToolStart(Current), l) \/ LoopEmits(ToolEnd(Current), l)
    BY <1>1 DEF CallFailed, CallAborted, CallImmediate, EndsAtOnce, SequentialReturn, CallStart
  <2>3. QED
    BY <1>0, <2>1, <2>2, EventKinds, EmitsGoes DEF EndLabel
<1>2. CASE CallPrepares \/ CallPrepared \/ SequentialExecute \/ Join \/ JoinThrows
           \/ PrepareNextTurnThrows \/ PollSteering
  BY <1>0, <1>2, MovesGoes DEF CallPrepares, CallPrepared, SequentialExecute, Join, JoinThrows,
     PrepareNextTurnThrows, PollSteering, EndLabel
<1>3. CASE ParallelExecute
  <2>1. out'[Loop] = out[Loop]
    BY <1>3, Coroutines DEF ParallelExecute, ToolsEmitEnd, CallsToEnd, PreparedCalls,
       BatchCalls, ElementsOf, TypeOK, BatchType
  <2>2. terminal' = terminal /\ pc' = "join"
    BY <1>3 DEF ParallelExecute, ToolsEmitEnd
  <2>3. QED
    BY <1>0, <2>1, <2>2 DEF LoopGoes
<1>4. CASE ResultStart \/ ResultEnd
  <2>1. Result(Current, outcome[Current]) \in Message
    BY <1>4, CurrentCall, ResultType DEF ResultStart, ResultEnd, At, TypeOK, ToolType, ControlOK
  <2>2. \E l \in {"resultEnd", "result", "calls"} :
          \/ LoopEmits(MessageStart(Result(Current, outcome[Current])), l)
          \/ LoopEmits(MessageEnd(Result(Current, outcome[Current])), l)
    BY <1>4 DEF ResultStart, ResultEnd
  <2>3. QED
    BY <1>0, <2>1, <2>2, EventKinds, EmitsGoes DEF EndLabel
<1>5. CASE BatchDone
  BY <1>0, <1>5, EventKinds, EmitsGoes DEF BatchDone, EventType, EndLabel
<1>6. CASE CallsLimited
  BY <1>0, <1>6 DEF CallsLimited, Ends, LoopEnds, LoopEmits, EndLabel
<1>7. QED
  BY <1>1, <1>2, <1>3, <1>4, <1>5, <1>6 DEF BatchSteps

\* ... and where it reports a failure.
LEMMA FailureGoes ==
  ASSUME TypeOK, FailureSteps, ~FinishRun PROVE LoopTurn /\ (LoopEnds \/ LoopGoes)
<1>0. LoopTurn
  BY DEF FailureSteps, Catch, SynthesizeResults, FixStart, FixEnd, FailStart, FailEnd,
     FailTurn, FailAgent, At, LoopKeeps, LoopFrame, runVars, signalVars, endVars, LoopTurn,
     EndLabel
<1>1. CASE Catch
  <2>1. CASE terminal
    BY <1>0, <1>1, <2>1 DEF Catch, GoTo, emitVars, LoopGoes
  <2>2. CASE ~terminal
    BY <1>0, <1>1, <2>2, EventKinds, EmitsGoes, MovesGoes DEF Catch, EventType, EndLabel
  <2>3. QED
    BY <2>1, <2>2
<1>2. CASE SynthesizeResults
  BY <1>0, <1>2, MovesGoes DEF SynthesizeResults, EndLabel
<1>3. CASE \E m \in fixups : FixStart(m) \/ FixEnd(m)
  <2>1. PICK m \in fixups : FixStart(m) \/ FixEnd(m)
    BY <1>3
  <2>2. m \in Message
    BY DEF TypeOK, FailType
  <2>3. QED
    BY <1>0, <2>1, <2>2, EventKinds, EmitsGoes DEF FixStart, FixEnd, EndLabel
<1>4. CASE FailStart \/ FailEnd
  <2>1. FailureMessage \in Message
    BY AssistantType, EmptySeq DEF TypeOK, FailType, Stop, FailureMessage
  <2>2. QED
    BY <1>0, <1>4, <2>1, EventKinds, EmitsGoes DEF FailStart, FailEnd, EndLabel
<1>5. CASE FailTurn
  BY <1>0, <1>5, EventKinds, EmitsGoes, MovesGoes DEF FailTurn, EventType, EndLabel
<1>6. CASE FailAgent
  BY <1>0, <1>6 DEF FailAgent, LoopEnds, LoopEmits, EndLabel
<1>7. QED
  BY <1>1, <1>2, <1>3, <1>4, <1>5, <1>6 DEF FailureSteps

\* Every step of the loop but the last ends the run or goes on.
LEMMA LoopTurns ==
  ASSUME TypeOK, LoopStep, ~FinishRun PROVE LoopTurn /\ (LoopEnds \/ LoopGoes)
  BY RunGoes, StreamGoes, BatchGoes, FailureGoes DEF LoopStep

-----------------------------------------------------------------------------
(* No call goes on when the run is over *)

\* agent_end is what is emitted last, and the agent is idle when there is no run.
EndControl ==
  /\ terminal => pc \in EndLabel \cup {"idle"}
  /\ pc \in EndLabel /\ ~IsQuiet(Loop) => Emits(Loop, "agent_end")
  /\ (activeRun = 0 <=> pc = "idle")
  /\ pc = "idle" => IsQuiet(Loop)

\* They are kept by the loop, ...
LEMMA EndLoop ==
  ASSUME TypeOK, EndControl, LoopTurn, LoopEnds \/ LoopGoes PROVE EndControl'
<1>1. CASE LoopEnds
  <2>1. PICK r : LoopEmits(AgentEnd(r), pc') /\ pc' \in EndLabel
    BY <1>1 DEF LoopEnds
  <2>2. Emits(Loop, "agent_end")'
    BY <2>1, Coroutines DEF LoopEmits, TypeOK, EmitType, Emits, Emitting, AgentEnd, Plain
  <2>3. QED
    BY <2>1, <2>2 DEF EndControl, LoopTurn, EndLabel
<1>2. CASE LoopGoes /\ out'[Loop] = out[Loop]
  BY <1>2 DEF EndControl, LoopTurn, LoopGoes, EndLabel, IsQuiet
<1>3. CASE LoopGoes /\ out'[Loop] # out[Loop]
  BY <1>3 DEF EndControl, LoopTurn, LoopGoes, EndLabel
<1>4. QED
  BY <1>1, <1>2, <1>3

\* ... by the listeners, ...
LEMMA EndListener ==
  ASSUME TypeOK, ToolInv, EndControl, ListenerStep PROVE EndControl'
<1>0. out \in [Coroutine -> Emission] /\ Loop \in Coroutine /\ Loop \notin Call
  BY Coroutines DEF TypeOK, EmitType
<1>1. PICK co \in Coroutine :
        Commit(co) \/ Throw(co) \/ (\E l \in Listener : Skip(co, l) \/ Deliver(co, l) \/ Fail(co, l))
  BY DEF ListenerStep
<1>2. CASE \E l \in Listener : Skip(co, l) \/ Deliver(co, l) \/ Fail(co, l)
  <2>0. \E l, f : out' = [out EXCEPT ![co] = Awaited(@, l, f)]
    BY <1>2 DEF Skip, Deliver, Fail
  <2>1. out'[Loop].ev = out[Loop].ev
    BY <1>0, <2>0 DEF Awaited, Emission
  <2>2. UNCHANGED <<terminal, pc, activeRun>>
    BY <1>2 DEF Skip, Deliver, Fail, runVars
  <2>3. QED
    BY <2>1, <2>2 DEF EndControl, IsQuiet, Emits, EndLabel
<1>3. CASE Commit(co)
  <2>1. UNCHANGED <<terminal, pc, activeRun>> /\ (out'[Loop] = out[Loop] \/ IsQuiet(Loop)')
    BY <1>0, <1>3 DEF Commit, runVars, IsQuiet, Quiet, Plain
  <2>2. QED
    BY <2>1 DEF EndControl, IsQuiet, Emits, EndLabel
<1>4. CASE Throw(co) /\ co \in Call
  <2>1. out[co].ev.type = "tool_execution_end" /\ terminal \in BOOLEAN
    BY <1>4 DEF Throw, ToolInv, CallsEmit, Emits, TypeOK, EmitType
  <2>2. UNCHANGED <<terminal, pc, activeRun>> /\ out'[Loop] = out[Loop]
    BY <1>0, <1>4, <2>1 DEF Throw, runVars
  <2>3. QED
    BY <2>2 DEF EndControl, IsQuiet, Emits, EndLabel
<1>5. CASE Throw(co) /\ co \notin Call
  <2>1. co = Loop
    BY <1>5 DEF Coroutine
  <2>2. IsQuiet(Loop)' /\ UNCHANGED activeRun /\ ~IsQuiet(Loop)
    BY <1>0, <1>5, <2>1 DEF Throw, runVars, IsQuiet, Quiet, Plain
  <2>3. terminal' = (terminal /\ ~Emits(Loop, "agent_end"))
        /\ pc' = (IF pc \in SafeLabel THEN pc ELSE "catchFatal")
    BY <1>5, <2>1 DEF Throw, Emits
  <2>4. pc # "idle" /\ pc' # "idle" /\ ~terminal'
    BY <2>2, <2>3 DEF EndControl, SafeLabel
  <2>5. QED
    BY <2>2, <2>4 DEF EndControl
<1>6. QED
  BY <1>1, <1>2, <1>3, <1>4, <1>5

\* ... and by whatever else happens.
LEMMA EndControls ==
  ASSUME TypeOK, ToolInv, EndControl, [Next]_vars PROVE EndControl'
<1>0. out \in [Coroutine -> Emission] /\ Loop \in Coroutine /\ Loop \notin Call
  BY Coroutines DEF TypeOK, EmitType
<1>1. CASE UserStep
  <2>1. CASE \E ps, skip : StartRun(ps, skip)
    <3>1. pc' = "started" /\ activeRun' = runs + 1 /\ ~terminal'
      BY <2>1 DEF StartRun
    <3>2. activeRun' # 0
      BY <3>1 DEF TypeOK, RunType, Run
    <3>3. QED
      BY <3>1, <3>2 DEF EndControl, EndLabel
  <2>2. CASE UNCHANGED Outside \/ Abort
    BY <2>2 DEF Outside, Abort, EndControl, runVars, emitVars, IsQuiet, Emits, EndLabel
  <2>3. QED
    BY <1>1, <2>1, <2>2, UserDoes
<1>2. CASE LoopStep /\ ~FinishRun
  BY <1>2, LoopTurns, EndLoop
<1>3. CASE FinishRun
  BY <1>3 DEF FinishRun, EndControl, IsQuiet, EndLabel
<1>4. CASE ListenerStep
  BY <1>4, EndListener
<1>5. CASE ToolStep
  <2>1. UNCHANGED <<terminal, pc, activeRun>> /\ out'[Loop] = out[Loop]
    BY <1>0, <1>5 DEF ToolStep, ParallelReturn, ToolsEmitEnd, runVars
  <2>2. QED
    BY <2>1 DEF EndControl, IsQuiet, Emits, EndLabel
<1>6. CASE UNCHANGED vars
  BY <1>6 DEF vars, EndControl, IsQuiet, Emits, EndLabel
<1>7. QED
  BY <1>1, <1>2, <1>3, <1>4, <1>5, <1>6 DEF Next

-----------------------------------------------------------------------------
(* No call goes on when the run is over *)

NoneThrown == \A c \in Call : tool[c] # "thrown"
GoingOn(c) == tool[c] \in {"running", "ending"}
Awaits == pc \in {"join", "awaitTool"}

\* While no call has failed fatally, calls go on only while the loop awaits them.
CallsAwaited == NoneThrown => \A c \in Call : GoingOn(c) => Awaits /\ c \in BatchCalls

\* Where the loop awaits no call none goes on, and it stays so if none is started.
LEMMA NoneGoesOn ==
  ASSUME CallsAwaited, ~Awaits,
         \A c \in Call : /\ tool[c] = "thrown" => tool'[c] = "thrown"
                         /\ GoingOn(c)' => GoingOn(c)
  PROVE  CallsAwaited'
  BY DEF CallsAwaited, NoneThrown, GoingOn

\* What the listeners do changes nothing about that, ...
LEMMA AwaitedByListeners ==
  ASSUME TypeOK, ToolInv, CallsAwaited, ListenerStep PROVE CallsAwaited'
<1>0. tool \in [Call -> {"none", "prepared", "running", "ending", "done", "thrown"}]
  BY DEF TypeOK, ToolType
<1>1. PICK co \in Coroutine :
        Commit(co) \/ Throw(co) \/ (\E l \in Listener : Skip(co, l) \/ Deliver(co, l) \/ Fail(co, l))
  BY DEF ListenerStep
<1>2. UNCHANGED batch
  BY <1>1 DEF Commit, Throw, Skip, Deliver, Fail, batchVars
<1>3. CASE (\E l \in Listener : Skip(co, l) \/ Deliver(co, l) \/ Fail(co, l))
           \/ (Commit(co) /\ co \notin Call)
  <2>1. UNCHANGED <<tool, pc>>
    BY <1>3 DEF Skip, Deliver, Fail, Commit, toolVars
  <2>2. QED
    BY <1>2, <2>1 DEF CallsAwaited, NoneThrown, GoingOn, Awaits, BatchCalls, ElementsOf
<1>4. CASE Commit(co) /\ co \in Call
  <2>1. tool[co] = "ending" /\ UNCHANGED pc /\ tool' = [tool EXCEPT ![co] = "done"]
    BY <1>4 DEF Commit, ToolInv, CallsEmit
  <2>2. QED
    BY <1>0, <1>2, <1>4, <2>1 DEF CallsAwaited, NoneThrown, GoingOn, Awaits, BatchCalls, ElementsOf
<1>5. CASE Throw(co) /\ co \in Call
  BY <1>0, <1>5 DEF Throw, CallsAwaited, NoneThrown
<1>6. CASE Throw(co) /\ co \notin Call
  <2>1. co = Loop
    BY <1>6 DEF Coroutine
  <2>2. ~IsQuiet(Loop) /\ UNCHANGED tool
    BY <1>6, <2>1 DEF Throw
  <2>3. ~Awaits
    BY <2>2 DEF ToolInv, Started, Awaits
  <2>4. QED
    BY <2>2, <2>3, NoneGoesOn DEF GoingOn
<1>7. QED
  BY <1>1, <1>3, <1>4, <1>5, <1>6

\* ... nor does a batch.
LEMMA AwaitedInBatch ==
  ASSUME TypeOK, ToolInv, CallsAwaited, BatchSteps PROVE CallsAwaited'
<1>0. tool \in [Call -> {"none", "prepared", "running", "ending", "done", "thrown"}]
  BY DEF TypeOK, ToolType
<1>1. CASE CallFailed \/ CallAborted \/ CallImmediate \/ CallPrepared
  <2>1. pc \in {"called", "preparing"} /\ next <= Len(batch)
    BY <1>1 DEF CallFailed, CallAborted, CallImmediate, CallPrepared, At, TypeOK, ControlOK
  <2>2. next \in DOMAIN batch /\ Current \in Call /\ next \in Nat
    BY <2>1, CurrentCall DEF TypeOK, BatchType
  <2>3. tool[Current] = "none"
    BY <2>1, <2>2 DEF ToolInv, Progress, BatchLabel, Current
  <2>4. tool' \in {[tool EXCEPT ![Current] = "done"], [tool EXCEPT ![Current] = "prepared"]}
    BY <1>1 DEF CallFailed, CallAborted, CallImmediate, CallPrepared, EndsAtOnce
  <2>5. QED
    BY <1>0, <2>1, <2>2, <2>3, <2>4, NoneGoesOn DEF GoingOn, Awaits
<1>2. CASE SequentialExecute
  <2>1. /\ tool[Current] = "prepared" /\ pc = "awaitTool" /\ pc' = "awaitTool"
        /\ tool' = [tool EXCEPT ![Current] = "running"] /\ UNCHANGED batch
    BY <1>2 DEF SequentialExecute, At, GoTo, batchVars
  <2>2. Current \in Call /\ Current \in BatchCalls
    BY <2>1, CurrentCall DEF TypeOK, ControlOK
  <2>3. QED
    BY <1>0, <2>1, <2>2 DEF CallsAwaited, NoneThrown, GoingOn, Awaits, BatchCalls, ElementsOf
<1>3. ASSUME NEW o, SequentialReturn(o) PROVE CallsAwaited'
  <2>1. /\ pc = "awaitTool" /\ tool[Current] = "running"
        /\ tool' = [tool EXCEPT ![Current] = "done"]
    BY <1>3 DEF SequentialReturn, At
  <2>2. next \in DOMAIN batch /\ Current \in Call
    BY <2>1, CurrentCall DEF TypeOK, ControlOK
  <2>3. \A i \in DOMAIN batch : i # next => tool[batch[i]] \in {"done", "none"}
    BY <2>1 DEF ToolInv, Progress, BatchLabel, TypeOK, BatchType
  <2>4. \A c \in BatchCalls : c = Current \/ ~GoingOn(c)
    BY <2>3 DEF BatchCalls, ElementsOf, GoingOn, Current
  <2>5. \A c \in Call : c # Current => tool'[c] = tool[c]
    BY <1>0, <2>1
  <2>6. \A c \in BatchCalls : c \in Call
    BY DEF TypeOK, BatchType, BatchCalls, ElementsOf
  <2>7. NoneThrown' => NoneThrown
    BY <2>1, <2>5 DEF NoneThrown
  <2>8. NoneThrown => \A c \in Call : c # Current => ~GoingOn(c)
    BY <2>4 DEF CallsAwaited
  <2>9. ASSUME NoneThrown', NEW c \in Call PROVE ~(tool'[c] \in {"running", "ending"})
    BY <1>0, <2>1, <2>2, <2>5, <2>7, <2>8, <2>9 DEF GoingOn
  <2>10. QED
    BY <2>9 DEF CallsAwaited, GoingOn
<1>4. CASE ParallelExecute
  <2>1. /\ pc = "calls" /\ pc' = "join" /\ UNCHANGED batch
        /\ \A c \in Call : \/ tool'[c] = tool[c]
                           \/ c \in PreparedCalls /\ GoingOn(c)'
    BY <1>4 DEF ParallelExecute, At, batchVars, CallsToEnd, CallsToExecute, GoingOn
  <2>2. \A c \in PreparedCalls : tool[c] = "prepared" /\ c \in BatchCalls
    BY DEF PreparedCalls
  <2>3. NoneThrown' => NoneThrown
    BY <2>1, <2>2 DEF NoneThrown
  <2>4. NoneThrown => \A c \in Call : GoingOn(c)' => c \in PreparedCalls
    BY <2>1 DEF CallsAwaited, Awaits, GoingOn
  <2>5. Awaits' /\ BatchCalls' = BatchCalls
    BY <2>1 DEF Awaits, BatchCalls, ElementsOf
  <2>6. QED
    BY <2>2, <2>3, <2>4, <2>5 DEF CallsAwaited
<1>5. CASE Join \/ JoinThrows
  <2>1. UNCHANGED tool /\ (BatchSettled \/ BatchThrows)
    BY <1>5 DEF Join, JoinThrows, LoopKeeps, toolVars
  <2>2. BatchCalls \subseteq Call
    BY DEF TypeOK, BatchType, BatchCalls, ElementsOf
  <2>3. NoneThrown => \A c \in Call : ~GoingOn(c)
    BY <2>1, <2>2 DEF CallsAwaited, NoneThrown, BatchSettled, BatchThrows, GoingOn
  <2>4. QED
    BY <2>1, <2>3 DEF CallsAwaited, NoneThrown, GoingOn
<1>6. CASE CallStart \/ CallPrepares \/ ResultStart \/ ResultEnd \/ BatchDone \/ CallsLimited
           \/ PrepareNextTurnThrows \/ PollSteering
  <2>1. ~Awaits /\ UNCHANGED tool
    BY <1>6 DEF CallStart, CallPrepares, ResultStart, ResultEnd, BatchDone, CallsLimited,
       PrepareNextTurnThrows, PollSteering, At, Ends, LoopKeeps, toolVars, Awaits
  <2>2. QED
    BY <2>1, NoneGoesOn DEF GoingOn
<1>7. QED
  BY <1>1, <1>2, <1>3, <1>4, <1>5, <1>6 DEF BatchSteps

\* Every step keeps calls awaited.
LEMMA NextAwaited ==
  ASSUME TypeOK, ToolInv, EndControl, CallsAwaited, [Next]_vars PROVE CallsAwaited'
<1>0. tool \in [Call -> {"none", "prepared", "running", "ending", "done", "thrown"}]
  BY DEF TypeOK, ToolType
<1>1. CASE UserStep
  <2>1. CASE \E ps, skip : StartRun(ps, skip)
    <3>1. activeRun = 0 /\ UNCHANGED tool
      BY <2>1 DEF StartRun, toolVars
    <3>2. ~Awaits
      BY <3>1 DEF EndControl, Awaits
    <3>3. QED
      BY <3>1, <3>2, NoneGoesOn DEF GoingOn
  <2>2. CASE UNCHANGED Outside \/ Abort
    <3>1. UNCHANGED <<tool, pc, batch>>
      BY <2>2 DEF Outside, Abort, batchVars, toolVars
    <3>2. QED
      BY <3>1 DEF CallsAwaited, NoneThrown, GoingOn, Awaits, BatchCalls, ElementsOf
  <2>3. QED
    BY <1>1, <2>1, <2>2, UserDoes
<1>2. CASE RunSteps \/ StreamSteps \/ FailureSteps
  <2>1. UNCHANGED tool
    BY <1>2 DEF RunSteps, RunStarted, PromptStart, PromptEnd, InitialPoll, TurnAborted,
       TurnsLimited, FirstTurn, NextTurn, FollowUps, NoFollowUps, InjectStart, InjectEnd,
       StreamSteps, StreamStart, StreamThrows, StreamDone, ResponseFailed, FailedTurn, NoCalls,
       PlanBatch, FailureSteps, Catch, SynthesizeResults, FixStart, FixEnd, FailStart, FailEnd,
       FailTurn, FailAgent, FinishRun, Ends, LoopKeeps, toolVars
  <2>2. ~Awaits
    BY <1>2 DEF RunSteps, RunStarted, PromptStart, PromptEnd, InitialPoll, TurnAborted,
       TurnsLimited, FirstTurn, NextTurn, FollowUps, NoFollowUps, InjectStart, InjectEnd,
       StreamSteps, StreamStart, StreamThrows, StreamDone, ResponseFailed, FailedTurn, NoCalls,
       PlanBatch, FailureSteps, Catch, SynthesizeResults, FixStart, FixEnd, FailStart, FailEnd,
       FailTurn, FailAgent, FinishRun, At, Awaits
  <2>3. QED
    BY <2>1, <2>2, NoneGoesOn DEF GoingOn
<1>3. CASE BatchSteps
  BY <1>3, AwaitedInBatch
<1>4. CASE ListenerStep
  BY <1>4, AwaitedByListeners
<1>5. CASE ToolStep
  <2>1. PICK c \in Call, o \in {"ok", "terminate", "error"} : ParallelReturn(c, o)
    BY <1>5 DEF ToolStep
  <2>2. /\ tool[c] = "running" /\ UNCHANGED <<pc, batch>>
        /\ tool' \in {[tool EXCEPT ![c] = "thrown"], [tool EXCEPT ![c] = "ending"]}
    BY <2>1 DEF ParallelReturn, batchVars
  <2>3. QED
    BY <1>0, <2>2 DEF CallsAwaited, NoneThrown, GoingOn, Awaits, BatchCalls, ElementsOf
<1>6. CASE UNCHANGED vars
  BY <1>6 DEF vars, CallsAwaited, NoneThrown, GoingOn, Awaits, BatchCalls, ElementsOf
<1>7. QED
  BY <1>1, <1>2, <1>3, <1>4, <1>5, <1>6 DEF Next, LoopStep

EndInv == EndControl /\ CallsAwaited

\* At the start the agent is idle.
LEMMA InitEnd == Init => EndInv
  BY Coroutines DEF Init, EndInv, EndControl, CallsAwaited, EndLabel, IsQuiet, Quiet, Plain,
     GoingOn

\* The run is over after its agent_end, and calls go on only while they are awaited.
THEOREM EndInvariant == Spec => []EndInv
<1>1. Init => TypeOK /\ ExecInv /\ ToolInv /\ EndInv
  BY InitType, InitExec, InitTool, InitEnd
<1>2. TypeOK /\ ExecInv /\ ToolInv /\ EndInv /\ [Next]_vars
      => (TypeOK /\ ExecInv /\ ToolInv /\ EndInv)'
  BY NextType, NextExec, NextTool, EndControls, NextAwaited DEF EndInv
<1>3. QED
  BY <1>1, <1>2, PTL DEF Spec

\* Once agent_end is emitted or the agent is idle, no call executes or emits, unless a
\* fatal listener failure in a parallel call ended the run (processEvents, finishRun).
THEOREM EndsAreFinal == Spec => []EndIsFinal
<1>1. EndInv => EndIsFinal
  BY DEF EndInv, EndControl, CallsAwaited, NoneThrown, GoingOn, Awaits, EndLabel, EndIsFinal
<1>2. QED
  BY <1>1, EndInvariant, PTL

-----------------------------------------------------------------------------
(* Everybody learns of the end *)

Isolated == Listener \ Fatal
Ending == Emits(Loop, "agent_end")

\* How often an isolated listener of the active run that did not fail has handled
\* agent_end: not before it is emitted, and afterwards once, unless a fatal listener
\* failed on it, or on another event while the failure was being reported.
Heard(l) ==
  IF Ending THEN endSeen[l] = (IF l \in out[Loop].todo \/ out[Loop].fatal THEN 0 ELSE 1)
  ELSE IF pc \in EndLabel
       THEN \/ endSeen[l] = 1
            \/ endSeen[l] = 0 /\ termination = "none" /\ critical[activeRun]
       ELSE endSeen[l] = 0

\* The loop emits for the active run, and the fatal listeners are the first to be awaited
\* at its end; the run has no termination before its agent_end was accepted.
ObserveInv ==
  /\ activeRun \in {0, runs}
  /\ ~IsQuiet(Loop) => /\ activeRun # 0 /\ out[Loop].run = activeRun
                       /\ out[Loop].fatal => critical[activeRun]
  /\ Ending => terminal /\ (out[Loop].todo \cap Fatal # {} => Isolated \subseteq out[Loop].todo)
  /\ activeRun # 0 /\ (pc \notin EndLabel \/ ~IsQuiet(Loop)) => termination = "none"
  /\ activeRun # 0 => \A l \in Isolated \ failed[activeRun] : Heard(l)
  /\ ObserverLearnsEnd

\* What the runs have failed only grows.
Grows ==
  \A r \in Run : failed[r] \subseteq failed'[r] /\ (critical[r] => critical'[r])

\* An active run is one of the runs.
LEMMA ActiveRun == ASSUME TypeOK PROVE /\ activeRun # 0 => activeRun \in Run
                                       /\ runs # 0 => runs \in Run
                                       /\ runs \in Nat /\ 0 \notin Run
  BY DEF TypeOK, RunType, Run

\* A step that leaves the loop and its emission alone keeps ObserveInv.
LEMMA ObserveSame ==
  ASSUME TypeOK, ObserveInv, Grows, out'[Loop] = out[Loop],
         UNCHANGED <<activeRun, runs, lastTermination, termination, endSeen, terminal, pc>>
  PROVE  ObserveInv'
<1>1. activeRun # 0 => /\ failed[activeRun] \subseteq failed'[activeRun]
                       /\ (critical[activeRun] => critical'[activeRun])
  BY ActiveRun DEF Grows
<1>2. activeRun' # 0 => \A l \in Isolated \ failed'[activeRun'] : Heard(l)'
  BY <1>1 DEF ObserveInv, Heard, Ending, Emits
<1>3. ObserverLearnsEnd'
  <2>1. runs # 0 => failed[runs] \subseteq failed'[runs]
    BY ActiveRun DEF Grows
  <2>2. QED
    BY <2>1, ActiveRun DEF ObserveInv, ObserverLearnsEnd
<1>4. QED
  BY <1>1, <1>2, <1>3 DEF ObserveInv, IsQuiet, Ending, Emits

\* The loop keeps ObserveInv: the observers hear of nothing before agent_end.
LEMMA ObserveLoop ==
  ASSUME TypeOK, EndControl, ObserveInv, LoopTurn, LoopEnds \/ LoopGoes PROVE ObserveInv'
<1>1. activeRun # 0 /\ ~Ending /\ termination = "none" /\ ~terminal
  BY DEF LoopTurn, EndControl, ObserveInv, Ending, Emits, IsQuiet
<1>2. \A l \in Isolated \ failed[activeRun] : endSeen[l] = 0
  BY <1>1 DEF ObserveInv, Heard, LoopTurn
<1>3. UNCHANGED <<activeRun, runs, lastTermination, critical, failed, termination, endSeen>>
  BY DEF LoopTurn
<1>4. ObserverLearnsEnd'
  BY <1>1, <1>3 DEF ObserverLearnsEnd
<1>5. CASE LoopEnds
  <2>1. PICK r : LoopEmits(AgentEnd(r), pc') /\ pc' \in EndLabel
    BY <1>5 DEF LoopEnds
  <2>2. out'[Loop] = Emitting(AgentEnd(r), activeRun)
    BY <2>1, Coroutines DEF LoopEmits, TypeOK, EmitType
  <2>3. /\ Ending' /\ ~IsQuiet(Loop)' /\ out'[Loop].run = activeRun /\ ~out'[Loop].fatal
        /\ out'[Loop].todo = Listener
    BY <2>2 DEF Ending, Emits, IsQuiet, Emitting, AgentEnd, Plain
  <2>4. terminal'
    BY <2>1 DEF LoopEmits, Observe, AgentEnd, Plain
  <2>5. \A l \in Isolated \ failed'[activeRun'] : Heard(l)'
    BY <1>2, <1>3, <2>3 DEF Heard, Isolated
  <2>6. QED
    BY <1>1, <1>3, <1>4, <2>3, <2>4, <2>5 DEF ObserveInv, Isolated
<1>6. CASE LoopGoes
  <2>1. pc' \notin EndLabel
    BY <1>1, <1>6 DEF LoopGoes, EndLabel
  <2>2. ~Ending' /\ (~IsQuiet(Loop)' => out'[Loop].run = activeRun /\ ~out'[Loop].fatal)
    <3>1. CASE out'[Loop] = out[Loop]
      BY <1>1, <3>1 DEF LoopTurn, IsQuiet, Ending, Emits
    <3>2. CASE \E ev \in Event : ev.type \notin {"none", "agent_end"}
                                 /\ out'[Loop] = Emitting(ev, activeRun)
      BY <3>2 DEF Emitting, Ending, Emits
    <3>3. QED
      BY <1>6, <3>1, <3>2 DEF LoopGoes
  <2>3. \A l \in Isolated \ failed'[activeRun'] : Heard(l)'
    BY <1>2, <1>3, <2>1, <2>2 DEF Heard
  <2>4. QED
    BY <1>1, <1>3, <1>4, <2>1, <2>2, <2>3 DEF ObserveInv
<1>7. QED
  BY <1>5, <1>6

\* A failure joins those of the run.
LEMMA FailGrows ==
  ASSUME TypeOK, NEW co, NEW l, Fail(co, l) PROVE Grows
<1>1. critical \in [Run -> BOOLEAN] /\ failed \in [Run -> SUBSET Listener]
  BY DEF TypeOK, SignalType
<1>2. \A r \in Run : failed[r] \subseteq failed'[r]
  BY <1>1 DEF Fail
<1>3. \A r \in Run : critical[r] => critical'[r]
  BY <1>1 DEF Fail
<1>4. QED
  BY <1>2, <1>3 DEF Grows

\* So do the listeners of what a call emits, ...
LEMMA ObserveCalls ==
  ASSUME TypeOK, ToolInv, ObserveInv, NEW co \in Call,
         Commit(co) \/ Throw(co) \/ (\E l \in Listener : Skip(co, l) \/ Deliver(co, l) \/ Fail(co, l))
  PROVE  ObserveInv'
<1>0. /\ out \in [Coroutine -> Emission] /\ co # Loop /\ co \in Coroutine /\ Loop \in Coroutine
      /\ critical \in [Run -> BOOLEAN] /\ failed \in [Run -> SUBSET Listener] /\ terminal \in BOOLEAN
  BY Coroutines DEF TypeOK, EmitType, SignalType
<1>1. out[co].ev.type \in {"none", "tool_execution_end"}
  BY DEF ToolInv, CallsEmit, Emits, IsQuiet
<1>2. out[co].ev.type # "agent_end"
  BY <1>1
<1>3. UNCHANGED <<activeRun, runs, lastTermination, termination, endSeen, terminal, pc>>
  BY <1>0, <1>2 DEF Commit, Throw, Skip, Deliver, Fail, runVars, endVars
<1>4. out'[Loop] = out[Loop]
  BY <1>0 DEF Commit, Throw, Skip, Deliver, Fail
<1>5. Grows
  <2>1. CASE UNCHANGED <<failed, critical>>
    BY <2>1 DEF Grows
  <2>2. ASSUME NEW l, Fail(co, l) PROVE Grows
    BY <1>0, FailGrows, <2>2
  <2>3. QED
    BY <2>1, <2>2 DEF Commit, Throw, Skip, Deliver, signalVars
<1>6. QED
  BY <1>3, <1>4, <1>5, ObserveSame

\* ... and those of what the loop emits, ...
LEMMA ObserveListeners ==
  ASSUME TypeOK, EndControl, ObserveInv,
         Commit(Loop) \/ Throw(Loop)
           \/ (\E l \in Listener : Skip(Loop, l) \/ Deliver(Loop, l) \/ Fail(Loop, l))
  PROVE  ObserveInv'
<1> DEFINE e == out[Loop]
<1>0. /\ out \in [Coroutine -> Emission] /\ Loop \in Coroutine /\ Loop \notin Call /\ e \in Emission
      /\ critical \in [Run -> BOOLEAN] /\ failed \in [Run -> SUBSET Listener]
      /\ endSeen \in [Listener -> Nat] /\ terminal \in BOOLEAN /\ Isolated \subseteq Listener
  BY Coroutines DEF TypeOK, EmitType, SignalType, EndType, Isolated
<1>1. ASSUME NEW l \in Listener, NEW f \in BOOLEAN, NextListener(Loop, l),
             out' = [out EXCEPT ![Loop] = Awaited(@, l, f)],
             UNCHANGED <<runs, activeRun, lastTermination, termination, terminal, pc>>, Grows,
             \A k \in Listener \ {l} : endSeen'[k] = endSeen[k],
             Ending => \/ l \in failed'[activeRun] /\ endSeen' = endSeen
                       \/ f /\ l \in Fatal /\ endSeen' = endSeen
                       \/ e.fatal /\ endSeen' = endSeen /\ ~f
                       \/ l \in Fatal /\ ~f
                       \/ endSeen'[l] = endSeen[l] + 1 /\ ~f /\ ~e.fatal,
             ~Ending => endSeen' = endSeen, f => l \in Fatal,
             activeRun # 0 /\ f /\ e.run = activeRun => critical'[activeRun]
      PROVE  ObserveInv'
  <2>1. out'[Loop] = Awaited(e, l, f)
    BY <1>0, <1>1
  <2>2. /\ out'[Loop].ev = e.ev /\ out'[Loop].run = e.run /\ out'[Loop].todo = e.todo \ {l}
        /\ out'[Loop].fatal = (e.fatal \/ f)
    BY <1>0, <2>1 DEF Awaited, Emission
  <2>3. (Ending' <=> Ending) /\ (IsQuiet(Loop)' <=> IsQuiet(Loop))
    BY <2>2 DEF Ending, Emits, IsQuiet
  <2>4. activeRun # 0 => /\ failed[activeRun] \subseteq failed'[activeRun]
                         /\ critical[activeRun] => critical'[activeRun]
    BY <1>1, ActiveRun DEF Grows
  <2>5. Ending => activeRun # 0 /\ terminal /\ (e.todo \cap Fatal # {} => Isolated \subseteq e.todo)
    BY DEF ObserveInv, Ending, Emits, IsQuiet
  <2>6. l \in e.todo /\ (Ending /\ e.todo \cap Fatal # {} => l \in Fatal)
    BY <1>1 DEF NextListener, Precedes, Ending, Emits
  <2>7. Ending /\ (e.todo \ {l}) \cap Fatal # {} => Isolated \subseteq e.todo \ {l}
    BY <2>5, <2>6 DEF Isolated
  <2>8. Ending /\ f => \A k \in Isolated : k \in e.todo
    BY <1>1, <2>5, <2>6
  <2>9. ASSUME Ending, NEW k \in Isolated \ failed'[activeRun]
        PROVE  endSeen'[k] = (IF k \in e.todo \ {l} \/ (e.fatal \/ f) THEN 0 ELSE 1)
    <3>1. endSeen[k] = (IF k \in e.todo \/ e.fatal THEN 0 ELSE 1) /\ k \in Listener
      BY <1>0, <2>4, <2>5, <2>9 DEF ObserveInv, Heard
    <3>2. CASE k # l
      BY <1>1, <2>8, <2>9, <3>1, <3>2
    <3>3. CASE k = l
      BY <1>1, <2>6, <2>9, <3>1, <3>3 DEF Isolated
    <3>4. QED
      BY <3>2, <3>3
  <2>10. activeRun # 0 => \A k \in Isolated \ failed'[activeRun] : Heard(k)'
    <3>1. CASE Ending
      BY <1>1, <2>2, <2>3, <2>9, <3>1 DEF Heard
    <3>2. CASE ~Ending
      BY <1>1, <2>3, <2>4, <3>2 DEF Heard, ObserveInv
    <3>3. QED
      BY <3>1, <3>2
  <2>11. ObserverLearnsEnd'
    <3>1. CASE activeRun # 0
      BY <1>1, <3>1 DEF ObserverLearnsEnd
    <3>2. CASE activeRun = 0
      <4>1. ~Ending
        BY <2>5, <3>2
      <4>2. runs # 0 => failed[runs] \subseteq failed'[runs]
        BY <1>1, ActiveRun DEF Grows
      <4>3. QED
        BY <1>1, <4>1, <4>2, ActiveRun DEF ObserveInv, ObserverLearnsEnd
    <3>3. QED
      BY <3>1, <3>2
  <2>12. QED
    BY <1>1, <2>2, <2>3, <2>4, <2>5, <2>7, <2>10, <2>11 DEF ObserveInv
<1>2. ASSUME NEW l \in Listener, Skip(Loop, l) PROVE ObserveInv'
  <2>1. UNCHANGED <<runs, activeRun, lastTermination, termination, terminal, pc, endSeen, failed, critical>>
    BY <1>2 DEF Skip, runVars, endVars, signalVars
  <2>2. NextListener(Loop, l) /\ out' = [out EXCEPT ![Loop] = Awaited(@, l, FALSE)]
    BY <1>2 DEF Skip
  <2>3. Ending => l \in failed'[activeRun] \/ e.fatal
    BY <1>2, <2>1 DEF Skip, Skipped, ObserveInv, Ending, Emits, IsQuiet
  <2>4. Grows
    BY <2>1 DEF Grows
  <2>5. QED
    BY <1>1, <2>1, <2>2, <2>3, <2>4
<1>3. ASSUME NEW l \in Listener, Deliver(Loop, l) PROVE ObserveInv'
  <2>1. UNCHANGED <<runs, activeRun, lastTermination, termination, terminal, pc, failed, critical>>
    BY <1>3 DEF Deliver, runVars, signalVars
  <2>2. NextListener(Loop, l) /\ out' = [out EXCEPT ![Loop] = Awaited(@, l, FALSE)]
    BY <1>3 DEF Deliver
  <2>3. endSeen' = IF Ending THEN [endSeen EXCEPT ![l] = @ + 1] ELSE endSeen
    BY <1>3 DEF Deliver, Ending, Emits
  <2>4. Grows
    BY <2>1 DEF Grows
  <2>5. l \in Fatal \/ ~e.fatal
    BY <1>3 DEF Deliver, Skipped
  <2>6. (\A k \in Listener \ {l} : endSeen'[k] = endSeen[k])
        /\ (Ending => endSeen'[l] = endSeen[l] + 1)
    BY <1>0, <2>3
  <2>7. QED
    BY <1>1, <2>1, <2>2, <2>3, <2>4, <2>5, <2>6
<1>4. ASSUME NEW l \in Listener, Fail(Loop, l) PROVE ObserveInv'
  <2>1. UNCHANGED <<runs, activeRun, lastTermination, termination, terminal, pc, endSeen>>
    BY <1>4 DEF Fail, runVars, endVars
  <2>2. NextListener(Loop, l) /\ out' = [out EXCEPT ![Loop] = Awaited(@, l, l \in Fatal)]
    BY <1>4 DEF Fail
  <2>3. activeRun # 0 => l \in failed'[activeRun]
    BY <1>4, ActiveRun DEF Fail
  <2>4. Ending => activeRun # 0
    BY DEF ObserveInv, Ending, Emits, IsQuiet
  <2>5. activeRun # 0 /\ l \in Fatal /\ e.run = activeRun => critical'[activeRun]
    BY <1>0, <1>4, ActiveRun DEF Fail
  <2>6. Grows
    BY <1>4, FailGrows
  <2>7. CASE l \in Fatal
    <3>1. out' = [out EXCEPT ![Loop] = Awaited(@, l, TRUE)]
      BY <2>2, <2>7
    <3>2. QED
      BY <1>1, <2>1, <2>2, <2>3, <2>4, <2>5, <2>6, <2>7, <3>1
  <2>8. CASE l \notin Fatal
    <3>0. (l \in Fatal) = FALSE
      BY <2>8
    <3>1. out' = [out EXCEPT ![Loop] = Awaited(@, l, FALSE)]
      BY <2>2, <3>0
    <3>2. QED
      BY <1>1, <2>1, <2>2, <2>3, <2>4, <2>5, <2>6, <2>8, <3>1
  <2>9. QED
    BY <2>7, <2>8
<1>5. CASE Commit(Loop)
  <2>1. /\ UNCHANGED <<runs, activeRun, lastTermination, terminal, pc, failed, critical, endSeen>>
        /\ e.todo = {} /\ ~e.fatal /\ ~IsQuiet(Loop)
        /\ termination' = IF Ending THEN e.ev.reason ELSE termination
    BY <1>5 DEF Commit, runVars, signalVars, Ending, Emits
  <2>2. IsQuiet(Loop)' /\ ~Ending'
    BY <1>0, <1>5 DEF Commit, Quiet, IsQuiet, Plain, Ending, Emits
  <2>3. activeRun # 0
    BY <2>1 DEF ObserveInv
  <2>4. Ending <=> pc \in EndLabel
    BY <2>1, <2>3 DEF EndControl, ObserveInv, Ending, EndLabel
  <2>5. \A l \in Isolated \ failed'[activeRun'] : Heard(l)'
    BY <2>1, <2>2, <2>3, <2>4 DEF ObserveInv, Heard
  <2>6. QED
    BY <2>1, <2>2, <2>3, <2>4, <2>5 DEF ObserveInv, ObserverLearnsEnd
<1>6. CASE Throw(Loop)
  <2>1. /\ UNCHANGED <<runs, activeRun, lastTermination, failed, critical, endSeen, termination>>
        /\ e.fatal /\ ~IsQuiet(Loop)
        /\ pc' = (IF pc \in SafeLabel THEN pc ELSE "catchFatal")
    BY <1>0, <1>6 DEF Throw, runVars, signalVars, endVars
  <2>2. IsQuiet(Loop)' /\ ~Ending'
    BY <1>0, <1>6 DEF Throw, Quiet, IsQuiet, Plain, Ending, Emits
  <2>3. activeRun # 0 /\ critical[activeRun] /\ termination = "none"
    BY <2>1 DEF ObserveInv
  <2>4. pc' \in EndLabel => pc \in EndLabel
    BY <2>1 DEF EndLabel, SafeLabel
  <2>5. pc \in EndLabel <=> Ending
    BY <2>1, <2>3 DEF EndControl, ObserveInv, Ending, EndLabel
  <2>6. \A l \in Isolated \ failed'[activeRun'] : endSeen[l] = 0
    BY <2>1, <2>3, <2>5 DEF ObserveInv, Heard
  <2>7. \A l \in Isolated \ failed'[activeRun'] : Heard(l)'
    BY <2>1, <2>2, <2>3, <2>4, <2>6 DEF Heard
  <2>8. QED
    BY <2>1, <2>2, <2>3, <2>7 DEF ObserveInv, ObserverLearnsEnd
<1>7. QED
  BY <1>2, <1>3, <1>4, <1>5, <1>6

\* ... and whatever else happens.
LEMMA NextObserve ==
  ASSUME TypeOK, ToolInv, EndControl, ObserveInv, [Next]_vars PROVE ObserveInv'
<1>0. out \in [Coroutine -> Emission] /\ Loop \in Coroutine /\ Loop \notin Call
  BY Coroutines DEF TypeOK, EmitType
<1>1. CASE UserStep
  <2>1. CASE \E ps, skip : StartRun(ps, skip)
    <3>1. /\ activeRun' = runs + 1 /\ runs' = runs + 1 /\ termination' = "none" /\ pc' = "started"
          /\ endSeen' = [l \in Listener |-> 0] /\ UNCHANGED failed
          /\ out' = [out EXCEPT ![Loop] = Emitting(Plain("agent_start"), runs + 1)]
      BY <2>1 DEF StartRun, signalVars
    <3>2. /\ ~Ending' /\ out'[Loop].run = runs + 1 /\ ~out'[Loop].fatal
      BY <1>0, <3>1 DEF Ending, Emits, Emitting, Plain
    <3>3. activeRun' # 0
      BY <3>1, ActiveRun
    <3>4. \A l \in Isolated : Heard(l)'
      BY <3>1, <3>2 DEF Heard, EndLabel, Isolated
    <3>5. QED
      BY <3>1, <3>2, <3>3, <3>4 DEF ObserveInv, ObserverLearnsEnd
  <2>2. CASE UNCHANGED Outside \/ Abort
    <3>1. UNCHANGED <<activeRun, runs, lastTermination, termination, endSeen, terminal, pc, out,
                      failed, critical>>
      BY <2>2 DEF Outside, Abort, runVars, signalVars, endVars, emitVars
    <3>2. QED
      BY <3>1, ObserveSame DEF Grows
  <2>3. QED
    BY <1>1, <2>1, <2>2, UserDoes
<1>2. CASE LoopStep /\ ~FinishRun
  BY <1>2, LoopTurns, ObserveLoop
<1>3. CASE FinishRun
  <2>1. /\ pc \in EndLabel /\ IsQuiet(Loop) /\ activeRun' = 0
        /\ lastTermination' = FinalTermination
        /\ UNCHANGED <<runs, failed, endSeen, out>>
    BY <1>3 DEF FinishRun, EndLabel, runVars, signalVars, endVars
  <2>2. ~Ending /\ activeRun # 0
    BY <2>1 DEF Ending, Emits, IsQuiet, EndControl, EndLabel
  <2>3. \A l \in Isolated \ failed[activeRun] :
           \/ endSeen[l] = 1
           \/ endSeen[l] = 0 /\ FinalTermination = "error"
    BY <2>1, <2>2 DEF ObserveInv, Heard, FinalTermination
  <2>4. activeRun = runs
    BY <2>2 DEF ObserveInv
  <2>5. ObserverLearnsEnd'
    BY <2>1, <2>3, <2>4 DEF ObserverLearnsEnd, Isolated
  <2>6. QED
    BY <2>1, <2>2, <2>5 DEF ObserveInv, IsQuiet, Ending, Emits
<1>4. CASE ListenerStep
  BY <1>4, ObserveCalls, ObserveListeners DEF ListenerStep, Coroutine
<1>5. CASE ToolStep
  <2>1. UNCHANGED <<activeRun, runs, lastTermination, termination, endSeen, terminal, pc, failed,
                    critical>> /\ out'[Loop] = out[Loop]
    BY <1>0, <1>5 DEF ToolStep, ParallelReturn, ToolsEmitEnd, runVars, signalVars, endVars
  <2>2. QED
    BY <2>1, ObserveSame DEF Grows
<1>6. CASE UNCHANGED vars
  <2>1. UNCHANGED <<activeRun, runs, lastTermination, termination, endSeen, terminal, pc, out,
                    failed, critical>>
    BY <1>6 DEF vars
  <2>2. QED
    BY <2>1, ObserveSame DEF Grows
<1>7. QED
  BY <1>1, <1>2, <1>3, <1>4, <1>5, <1>6 DEF Next

\* At the start nobody has heard of anything.
LEMMA InitObserve == Init => ObserveInv
  BY Coroutines DEF Init, ObserveInv, ObserverLearnsEnd, Ending, Emits, IsQuiet, Quiet, Plain

\* An isolated listener that did not fail handles agent_end exactly once, unless the run is
\* reported as an error (processEvents, finishRun).
THEOREM ObserversLearn == Spec => []ObserverLearnsEnd
<1>1. Init => TypeOK /\ ExecInv /\ ToolInv /\ EndInv /\ ObserveInv
  BY InitType, InitExec, InitTool, InitEnd, InitObserve
<1>2. TypeOK /\ ExecInv /\ ToolInv /\ EndInv /\ ObserveInv /\ [Next]_vars
      => (TypeOK /\ ExecInv /\ ToolInv /\ EndInv /\ ObserveInv)'
  BY NextType, NextExec, NextTool, EndControls, NextAwaited, NextObserve DEF EndInv
<1>3. ObserveInv => ObserverLearnsEnd
  BY DEF ObserveInv
<1>4. QED
  BY <1>1, <1>2, <1>3, PTL DEF Spec

-----------------------------------------------------------------------------
(* The limits hold *)

Responses == {i \in DOMAIN transcript : Conv!Complete(transcript[i])}

\* The turn that was counted last has not had its response yet.
FirstLabel == {"started", "prompts", "promptEnd"}
AwaitLabel == {"inject", "injectEnd", "streaming"}
Waiting == pc \in FirstLabel \cup AwaitLabel \/ (pc = "top" /\ firstTurn)
OwnTurn == IF Waiting THEN 1 ELSE 0

\* Behind the first turn the loop knows that it is.
LaterLabel ==
  AwaitLabel \cup {"response", "failedTurn", "turnEnded"} \cup BatchLabel

\* The runs before got at most TurnLimit responses each, this one as many as it has begun
\* turns, less the one that waits for its response.
TurnsCounted ==
  /\ runs = 0 => Responses = {}
  /\ runs # 0 => /\ turnsStarted \in 1 .. TurnLimit
                 /\ Cardinality(Responses) <= TurnLimit * (runs - 1) + turnsStarted - OwnTurn
TurnInv ==
  /\ firstTurn => pc \notin LaterLabel
  /\ TurnLimit # 0 => TurnsCounted

\* The listeners and the calls leave the turns, the transcript and the batch to the loop;
\* at most they take it to where it reports a failure.
LEMMA OthersStay ==
  ASSUME ListenerStep \/ ToolStep \/ UNCHANGED vars
  PROVE  /\ UNCHANGED <<runs, firstTurn, turnsStarted, transcript, accepted, batch, plan, executed>>
         /\ pc' = pc \/ pc' = "catchFatal"
<1>1. CASE ListenerStep
  <2>1. PICK co \in Coroutine :
          Commit(co) \/ Throw(co) \/ (\E l \in Listener : Skip(co, l) \/ Deliver(co, l) \/ Fail(co, l))
    BY <1>1 DEF ListenerStep
  <2>2. CASE Commit(co) \/ Throw(co)
    BY <2>2 DEF Commit, Throw, runVars, turnVars, batchVars, toolVars
  <2>3. CASE \E l \in Listener : Skip(co, l) \/ Deliver(co, l) \/ Fail(co, l)
    BY <2>3 DEF Skip, Deliver, Fail, runVars, turnVars, batchVars, toolVars
  <2>4. QED
    BY <2>1, <2>2, <2>3
<1>2. CASE ToolStep
  BY <1>2 DEF ToolStep, ParallelReturn, ToolsEmitEnd, runVars, turnVars, batchVars
<1>3. CASE UNCHANGED vars
  BY <1>3 DEF vars
<1>4. QED
  BY <1>1, <1>2, <1>3

\* The loop comes to a later label only from one, or through FirstTurn or NextTurn.
LEMMA LaterSteps ==
  ASSUME [Next]_vars, pc' \in LaterLabel PROVE pc \in LaterLabel \/ FirstTurn \/ NextTurn
<1>1. CASE UserStep
  BY <1>1, UserDoes DEF StartRun, Outside, Abort, LaterLabel, AwaitLabel, BatchLabel
<1>2. CASE ListenerStep \/ ToolStep \/ UNCHANGED vars
  BY <1>2, OthersStay DEF LaterLabel, AwaitLabel, BatchLabel
<1>3. CASE RunSteps
  BY <1>3 DEF RunSteps, RunStarted, PromptStart, PromptEnd, InitialPoll, TurnAborted,
     TurnsLimited, FollowUps, NoFollowUps, InjectStart, InjectEnd,
     Ends, LoopEmits, GoTo, At, LaterLabel, AwaitLabel, BatchLabel
<1>4. CASE StreamSteps
  BY <1>4 DEF StreamSteps, StreamStart, StreamThrows, StreamDone, ResponseFailed, FailedTurn,
     NoCalls, PlanBatch, Ends, LoopEmits, GoTo, At, LaterLabel, AwaitLabel, BatchLabel
<1>5. CASE BatchSteps
  BY <1>5 DEF BatchSteps, CallStart, CallFailed, CallAborted, CallImmediate, EndsAtOnce,
     CallPrepares, CallPrepared, SequentialExecute, SequentialReturn, ParallelExecute, Join,
     JoinThrows, ResultStart, ResultEnd, BatchDone, CallsLimited, PrepareNextTurnThrows,
     PollSteering, Ends, LoopEmits, GoTo, At, LaterLabel, AwaitLabel, BatchLabel
<1>6. CASE FailureSteps
  BY <1>6 DEF FailureSteps, Catch, SynthesizeResults, FixStart, FixEnd, FailStart, FailEnd,
     FailTurn, FailAgent, FinishRun, LoopEmits, GoTo, LaterLabel, AwaitLabel, BatchLabel
<1>7. QED
  BY <1>1, <1>2, <1>3, <1>4, <1>5, <1>6 DEF Next, LoopStep

\* A turn begins with the run, or with NextTurn.
LEMMA TurnSteps ==
  ASSUME [Next]_vars
  PROVE  \/ \E ps, skip : StartRun(ps, skip)
         \/ NextTurn
         \/ UNCHANGED <<runs, turnsStarted>> /\ (firstTurn' => firstTurn)
<1>1. CASE UserStep
  BY <1>1, UserDoes DEF Outside, Abort, turnVars, runVars
<1>2. CASE ListenerStep \/ ToolStep \/ UNCHANGED vars
  BY <1>2, OthersStay
<1>3. CASE RunSteps
  BY <1>3 DEF RunSteps, RunStarted, PromptStart, PromptEnd, InitialPoll, TurnAborted, FirstTurn,
     TurnsLimited, FollowUps, NoFollowUps, InjectStart, InjectEnd, Ends, LoopKeeps, LoopFrame,
     turnVars, runVars
<1>4. CASE StreamSteps
  BY <1>4 DEF StreamSteps, StreamStart, StreamThrows, StreamDone, ResponseFailed, FailedTurn,
     NoCalls, PlanBatch, Ends, LoopKeeps, LoopFrame, turnVars, runVars
<1>5. CASE BatchSteps
  BY <1>5 DEF BatchSteps, CallStart, CallFailed, CallAborted, CallImmediate, EndsAtOnce,
     CallPrepares, CallPrepared, SequentialExecute, SequentialReturn, ParallelExecute, Join,
     JoinThrows, ResultStart, ResultEnd, BatchDone, CallsLimited, PrepareNextTurnThrows,
     PollSteering, Ends, LoopKeeps, LoopFrame, turnVars, runVars
<1>6. CASE FailureSteps
  BY <1>6 DEF FailureSteps, Catch, SynthesizeResults, FixStart, FixEnd, FailStart, FailEnd,
     FailTurn, FailAgent, FinishRun, LoopKeeps, LoopFrame, turnVars, runVars
<1>7. QED
  BY <1>1, <1>2, <1>3, <1>4, <1>5, <1>6 DEF Next, LoopStep

\* The loop knows that it is behind the first turn.
LEMMA FirstTurnKept ==
  ASSUME [Next]_vars, firstTurn => pc \notin LaterLabel PROVE firstTurn' => pc' \notin LaterLabel
<1>1. CASE \E ps, skip : StartRun(ps, skip)
  BY <1>1 DEF StartRun, LaterLabel, AwaitLabel, BatchLabel
<1>2. CASE NextTurn \/ FirstTurn
  BY <1>2 DEF NextTurn, FirstTurn
<1>3. CASE ~NextTurn /\ ~FirstTurn /\ ~\E ps, skip : StartRun(ps, skip)
  BY <1>3, LaterSteps, TurnSteps
<1>4. QED
  BY <1>1, <1>2, <1>3

\* No step but these two makes a turn wait.
LEMMA WaitingSteps ==
  ASSUME [Next]_vars, TurnInv, Waiting'
  PROVE  Waiting \/ (\E ps, skip : StartRun(ps, skip)) \/ NextTurn
<1>1. CASE UserStep
  BY <1>1, UserDoes DEF Outside, Abort, Waiting, turnVars
<1>2. CASE ListenerStep \/ ToolStep \/ UNCHANGED vars
  BY <1>2, OthersStay DEF Waiting, FirstLabel, AwaitLabel
<1>3. CASE RunSteps
  BY <1>3 DEF RunSteps, RunStarted, PromptStart, PromptEnd, InitialPoll, TurnAborted, FirstTurn,
     TurnsLimited, FollowUps, NoFollowUps, InjectStart, InjectEnd, Ends, LoopEmits, GoTo, At,
     Waiting, FirstLabel, AwaitLabel
<1>4. CASE StreamSteps
  BY <1>4 DEF StreamSteps, StreamStart, StreamThrows, StreamDone, ResponseFailed, FailedTurn,
     NoCalls, PlanBatch, Ends, LoopEmits, GoTo, At, Waiting, FirstLabel, AwaitLabel
<1>5. CASE BatchSteps /\ ~PollSteering
  BY <1>5 DEF BatchSteps, CallStart, CallFailed, CallAborted, CallImmediate, EndsAtOnce,
     CallPrepares, CallPrepared, SequentialExecute, SequentialReturn, ParallelExecute, Join,
     JoinThrows, ResultStart, ResultEnd, BatchDone, CallsLimited, PrepareNextTurnThrows,
     Ends, LoopEmits, GoTo, Waiting, FirstLabel, AwaitLabel
<1>6. CASE PollSteering
  BY <1>6 DEF PollSteering, At, GoTo, TurnInv, LaterLabel, Waiting, FirstLabel, AwaitLabel, turnVars
<1>7. CASE FailureSteps
  BY <1>7 DEF FailureSteps, Catch, SynthesizeResults, FixStart, FixEnd, FailStart, FailEnd,
     FailTurn, FailAgent, FinishRun, LoopEmits, GoTo, Waiting, FirstLabel, AwaitLabel
<1>8. QED
  BY <1>1, <1>2, <1>3, <1>4, <1>5, <1>6, <1>7 DEF Next, LoopStep

\* A tool result is no response, and replaces none.
LEMMA ResultsRespond ==
  ASSUME NEW S, transcript \in Seq(S), NEW m \in S, m.role = "toolResult",
         transcript' = Recorded(transcript, m)
  PROVE  Responses' \subseteq Responses
<1> DEFINE same == {j \in DOMAIN transcript : transcript[j].role = "toolResult"
                                              /\ transcript[j].call = m.call}
           k == CHOOSE j \in same : \A h \in same : j <= h
<1>1. CASE same = {}
  <2>1. transcript' = Append(transcript, m)
    BY <1>1 DEF Recorded
  <2>2. \A i \in DOMAIN transcript' : transcript'[i] = m \/ (i \in DOMAIN transcript
                                                            /\ transcript'[i] = transcript[i])
    BY <2>1, AppendProperties, LenProperties
  <2>3. QED
    BY <2>2 DEF Responses, Conv!Complete
<1>2. CASE same # {}
  <2>1. transcript' = [transcript EXCEPT ![k] = m]
    BY <1>2 DEF Recorded
  <2>2. \A i \in DOMAIN transcript' : i \in DOMAIN transcript
                                      /\ (transcript'[i] = m \/ transcript'[i] = transcript[i])
    BY <2>1
  <2>3. QED
    BY <2>2 DEF Responses, Conv!Complete
<1>3. QED
  BY <1>1, <1>2

\* Only the end of a stream adds a response that counts.
LEMMA ResponsesAdded ==
  ASSUME TypeOK, AnswersInv, [Next]_vars
  PROVE  \/ Responses' \subseteq Responses
         \/ /\ Responses' \subseteq Responses \cup {Len(transcript) + 1}
            /\ \E n \in 0 .. MaxBatch, s \in Stop : StreamDone(n, s)
<1>0. transcript \in Seq(Message)
  BY DEF TypeOK, EmitType
<1>1. CASE UNCHANGED transcript
  BY <1>1 DEF Responses, Conv!Complete
<1>2. ASSUME NEW m \in Message, transcript' = Append(transcript, m)
      PROVE  /\ Responses' \subseteq Responses \cup {Len(transcript) + 1}
             /\ ~Conv!Complete(m) => Responses' \subseteq Responses
  <2> DEFINE M == Message
  <2>0. transcript \in Seq(M) /\ m \in M
    BY <1>0
  <2> HIDE DEF M
  <2>1. \A i \in DOMAIN transcript' : \/ i = Len(transcript) + 1 /\ transcript'[i] = m
                                      \/ i \in DOMAIN transcript /\ transcript'[i] = transcript[i]
    BY <1>2, <2>0, AppendProperties, LenProperties
  <2>2. QED
    BY <2>1 DEF Responses, Conv!Complete
<1>3. CASE ResultEnd
  <2>1. pc = "resultEnd" /\ next <= Len(batch)
    BY <1>3 DEF ResultEnd, At, TypeOK, ControlOK
  <2>2. Result(Current, outcome[Current]) \in Message
    BY <2>1, CurrentCall, ResultType DEF TypeOK, ToolType
  <2>3. transcript' = Recorded(transcript, Result(Current, outcome[Current]))
    BY <1>3 DEF ResultEnd, LoopEmits, Process, MessageEnd, Plain
  <2>4. Result(Current, outcome[Current]).role = "toolResult"
    BY DEF Result
  <2>5. QED
    BY <1>0, <2>2, <2>3, <2>4, ResultsRespond
<1>4. ASSUME NEW m \in fixups, FixEnd(m) PROVE Responses' \subseteq Responses
  <2>1. transcript' = Recorded(transcript, m)
    BY <1>4 DEF FixEnd, LoopEmits, Process, MessageEnd, Plain
  <2>2. m \in Message /\ m.role = "toolResult"
    BY DEF TypeOK, FailType, AnswersInv
  <2>3. QED
    BY <1>0, <2>1, <2>2, ResultsRespond
<1>5. QED
  <2>1. \/ UNCHANGED transcript
        \/ \E m \in Message : /\ transcript' = Append(transcript, m)
                              /\ \/ ~Conv!Complete(m)
                                 \/ \E n \in 0 .. MaxBatch, s \in Stop : StreamDone(n, s)
        \/ ResultEnd
        \/ \E m \in fixups : FixEnd(m)
    BY Speeches
  <2>2. QED
    BY <1>1, <1>2, <1>3, <1>4, <2>1

\* A part of a sequence is finite.
LEMMA PartFinite ==
  ASSUME NEW S, NEW s \in Seq(S), NEW R \in SUBSET (DOMAIN s)
  PROVE  IsFiniteSet(R) /\ Cardinality(R) \in Nat
<1>1. R \subseteq 1 .. Len(s) /\ Len(s) \in Nat
  BY LenProperties
<1>2. IsFiniteSet(1 .. Len(s))
  BY <1>1, FS_Interval
<1>3. QED
  BY <1>1, <1>2, FS_Subset, FS_CardinalityType

\* A set that has at most one element more than another has at most one more.
LEMMA OneMore ==
  ASSUME NEW S, IsFiniteSet(S), NEW x, NEW T \in SUBSET (S \cup {x})
  PROVE  Cardinality(T) <= Cardinality(S) + 1
<1>1. IsFiniteSet(S \cup {x}) /\ Cardinality(S) \in Nat
      /\ Cardinality(S \cup {x}) \in {Cardinality(S), Cardinality(S) + 1}
  BY FS_AddElement, FS_CardinalityType
<1>2. IsFiniteSet(T) /\ Cardinality(T) <= Cardinality(S \cup {x})
  BY <1>1, FS_Subset
<1>3. Cardinality(T) \in Nat
  BY <1>2, FS_CardinalityType
<1>4. QED
  BY <1>1, <1>2, <1>3

\* Every step preserves TurnInv.
LEMMA NextTurns ==
  ASSUME TypeOK, TypeOK', AnswersInv, EndControl, ObserveInv, TurnInv, [Next]_vars
  PROVE  TurnInv'
<1>1. firstTurn' => pc' \notin LaterLabel
  BY FirstTurnKept DEF TurnInv
<1>2. ASSUME TurnLimit # 0 PROVE TurnsCounted'
  <2>0. /\ TurnsCounted /\ TurnLimit \in Nat /\ runs \in Nat /\ turnsStarted \in Nat
        /\ TurnLimit * (runs - 1) \in Int /\ TurnLimit * (runs + 1 - 1) = TurnLimit * (runs - 1) + TurnLimit
    BY <1>2, ActiveRun, AgentRunAssumption DEF TurnInv, TypeOK, TurnType
  <2> DEFINE n == Cardinality(Responses)
             total == TurnLimit * (runs - 1)
  <2>1. /\ IsFiniteSet(Responses) /\ n \in Nat
        /\ n' \in Nat
    <3>1. /\ transcript \in Seq(Message) /\ Responses \in SUBSET (DOMAIN transcript)
          /\ transcript' \in Seq(Message) /\ Responses' \in SUBSET (DOMAIN transcript')
      BY DEF TypeOK, EmitType, Responses
    <3>2. QED
      BY <3>1, PartFinite
  <2>2. Responses' \subseteq Responses => n' <= n
    BY <2>1, FS_Subset
  <2>3. Responses' \subseteq Responses \cup {Len(transcript) + 1} => n' <= n + 1
    BY <2>1, OneMore
  <2>4. CASE \E ps, skip : StartRun(ps, skip)
    <3>1. runs' = runs + 1 /\ turnsStarted' = 1 /\ pc' = "started" /\ UNCHANGED transcript
      BY <2>4 DEF StartRun
    <3>2. Waiting' /\ n' = n
      BY <3>1 DEF Waiting, FirstLabel, Responses, Conv!Complete
    <3>3. OwnTurn' = 1 /\ OwnTurn \in {0, 1}
      BY <3>2 DEF OwnTurn
    <3>4. CASE runs = 0
      <4>1. n = 0
        BY <2>0, <3>4, FS_EmptySet DEF TurnsCounted
      <4>2. TurnLimit * (runs' - 1) = 0
        BY <2>0, <3>1, <3>4
      <4>3. QED
        BY <1>2, <2>0, <3>1, <3>2, <3>3, <3>4, <4>1, <4>2 DEF TurnsCounted
    <3>5. CASE runs # 0
      <4>1. n <= total + turnsStarted - OwnTurn /\ turnsStarted <= TurnLimit
        BY <2>0, <3>5 DEF TurnsCounted
      <4>2. TurnLimit * (runs' - 1) = total + TurnLimit
        BY <2>0, <3>1
      <4>3. runs' # 0 /\ turnsStarted' \in 1 .. TurnLimit
        BY <1>2, <2>0, <3>1
      <4>4. n' <= TurnLimit * (runs' - 1) + turnsStarted' - OwnTurn'
        <5>0. total \in Int /\ TurnLimit \in Nat /\ turnsStarted \in Nat
          BY <2>0
        <5> HIDE DEF n, total
        <5>1. n <= total + TurnLimit
          BY <2>1, <3>3, <4>1, <5>0
        <5>2. n' <= (total + TurnLimit) + 1 - 1
          BY <2>1, <3>2, <5>0, <5>1
        <5>3. QED
          BY <3>1, <3>3, <4>2, <5>2
      <4>5. QED
        BY <4>3, <4>4 DEF TurnsCounted
    <3>6. QED
      BY <3>4, <3>5
  <2>5. CASE ~\E ps, skip : StartRun(ps, skip)
    <3>1. CASE NextTurn
      <4>1. /\ turnsStarted' = turnsStarted + 1 /\ UNCHANGED <<runs, transcript>>
            /\ ~Waiting /\ turnsStarted < TurnLimit
        BY <1>2, <2>0, <3>1 DEF NextTurn, LoopEmits, Process, Plain, LoopFrame, runVars, At,
           TurnsExhausted, Waiting, FirstLabel, AwaitLabel
      <4>2. n' = n /\ OwnTurn = 0 /\ OwnTurn' \in {0, 1}
        BY <4>1 DEF Responses, Conv!Complete, OwnTurn
      <4>3. CASE runs = 0
        BY <2>0, <4>1, <4>3 DEF TurnsCounted, Responses, Conv!Complete
      <4>4. CASE runs # 0
        <5>1. n <= total + turnsStarted /\ turnsStarted \in 1 .. TurnLimit
          BY <2>0, <2>1, <4>2, <4>4 DEF TurnsCounted
        <5>2. turnsStarted' \in 1 .. TurnLimit
          BY <2>0, <4>1, <5>1
        <5>3. TurnLimit * (runs' - 1) = total /\ total \in Int
          BY <2>0, <4>1
        <5>4. n' <= total + turnsStarted' - OwnTurn'
          <6>1. OwnTurn' \in {0, 1} /\ turnsStarted' = turnsStarted + 1
            BY <2>0, <4>1, <4>2
          <6>2. total \in Int /\ n \in Nat /\ n <= total + turnsStarted /\ n' = n /\ turnsStarted \in Nat
            BY <2>0, <2>1, <4>2, <5>1, <5>3
          <6> HIDE DEF n, total
          <6>3. \A own \in {0, 1} : n <= total + (turnsStarted + 1) - own
            BY <6>2
          <6>4. n <= total + (turnsStarted + 1) - OwnTurn'
            BY <6>1, <6>3, Zenon
          <6>5. QED
            BY <6>1, <6>2, <6>4, Zenon
        <5>5. QED
          BY <4>1, <4>4, <5>2, <5>3, <5>4 DEF TurnsCounted
      <4>5. QED
        BY <4>3, <4>4
    <3>2. CASE \E k \in 0 .. MaxBatch, s \in Stop : StreamDone(k, s)
      <4>1. pc = "streaming" /\ pc' = "response" /\ UNCHANGED <<runs, turnsStarted>>
        BY <3>2 DEF StreamDone, At, LoopEmits, LoopFrame, runVars, turnVars
      <4>2. OwnTurn = 1 /\ OwnTurn' = 0 /\ n' <= n + 1
        <5>1. Waiting /\ ~Waiting'
          BY <4>1 DEF Waiting, FirstLabel, AwaitLabel
        <5>2. n' <= n + 1
          BY <2>1, <2>2, <2>3, ResponsesAdded
        <5>3. QED
          BY <5>1, <5>2 DEF OwnTurn
      <4>3. runs # 0
        BY <4>1 DEF EndControl, ObserveInv
      <4>4. QED
        BY <2>0, <2>1, <4>1, <4>2, <4>3 DEF TurnsCounted
    <3>3. CASE ~NextTurn /\ ~\E k \in 0 .. MaxBatch, s \in Stop : StreamDone(k, s)
      <4>1. UNCHANGED <<runs, turnsStarted>> /\ Responses' \subseteq Responses
        BY <2>5, <3>3, TurnSteps, ResponsesAdded
      <4>2. Waiting' => Waiting
        BY <2>5, <3>3, WaitingSteps
      <4>3. OwnTurn \in {0, 1} /\ OwnTurn' \in {0, 1} /\ OwnTurn' <= OwnTurn
        BY <4>2 DEF OwnTurn
      <4>4. QED
        BY <2>0, <2>1, <2>2, <4>1, <4>3 DEF TurnsCounted
    <3>4. QED
      BY <3>1, <3>2, <3>3
  <2>6. QED
    BY <2>4, <2>5
<1>3. QED
  BY <1>1, <1>2 DEF TurnInv

\* The calls that were executed, and those of the batch if they may come to be.
Candidates == executed \cup (IF pc \in BatchLabel /\ ToBeExecuted THEN BatchCalls ELSE {})

\* The runs before executed at most CallLimit calls each, and this one those it accepted.
CallsCounted ==
  /\ runs = 0 => executed = {}
  /\ runs # 0 => /\ accepted <= CallLimit
                 /\ Cardinality(Candidates) <= CallLimit * (runs - 1) + accepted
CallInv == CallLimit # 0 => CallsCounted

\* Candidates are calls, finitely many.
LEMMA CandidatesFinite ==
  ASSUME NEW T \in SUBSET Call PROVE IsFiniteSet(T) /\ Cardinality(T) \in Nat
<1>1. IsFiniteSet(Call)
  BY FS_Interval, AgentRunAssumption DEF Call
<1>2. QED
  BY <1>1, FS_Subset, FS_CardinalityType

\* A batch has no more calls than it is long.
LEMMA BatchSize ==
  ASSUME TypeOK PROVE Cardinality(BatchCalls) <= Len(batch) /\ Len(batch) \in Nat
<1> DEFINE D == 1 .. Len(batch)
<1>1. Len(batch) \in Nat /\ DOMAIN batch = D /\ batch \in [D -> Call]
  BY LenProperties DEF TypeOK, BatchType
<1>2. IsFiniteSet(D) /\ Cardinality(D) = Len(batch)
  BY <1>1, FS_Interval
<1>3. batch \in Surjection(D, BatchCalls)
  BY <1>1 DEF Surjection, BatchCalls, ElementsOf
<1>4. Cardinality(BatchCalls) <= Cardinality(D)
  BY <1>2, <1>3, FS_Surjection
<1>5. QED
  BY <1>1, <1>2, <1>4

\* Calls are executed only in their batch.
LEMMA ExecutesCandidates ==
  ASSUME TypeOK, ExecInv, [Next]_vars PROVE executed' \subseteq Candidates
<1>1. CASE SequentialExecute
  <2>1. executed' = executed \cup {Current} /\ pc = "awaitTool"
    BY <1>1 DEF SequentialExecute, At
  <2>2. Current \in BatchCalls /\ ToBeExecuted
    BY <2>1, CurrentCall DEF TypeOK, ControlOK, ExecInv, PlanFits
  <2>3. QED
    BY <2>1, <2>2 DEF Candidates, BatchLabel
<1>2. CASE ParallelExecute
  BY <1>2 DEF ParallelExecute, At, CallsToExecute, PreparedCalls, InParallel, ToBeExecuted,
     Candidates, BatchLabel
<1>3. CASE UserStep
  BY <1>3, UserDoes DEF StartRun, Outside, Abort, toolVars, Candidates
<1>4. CASE ListenerStep \/ ToolStep \/ UNCHANGED vars
  BY <1>4, OthersStay DEF Candidates
<1>5. CASE RunSteps \/ StreamSteps
  BY <1>5 DEF RunSteps, RunStarted, PromptStart, PromptEnd, InitialPoll, TurnAborted,
     TurnsLimited, FirstTurn, NextTurn, FollowUps, NoFollowUps, InjectStart, InjectEnd,
     StreamSteps, StreamStart, StreamThrows, StreamDone, ResponseFailed, FailedTurn, NoCalls,
     PlanBatch, Ends, LoopKeeps, toolVars, Candidates
<1>6. CASE BatchSteps /\ ~SequentialExecute /\ ~ParallelExecute
  BY <1>6 DEF BatchSteps, CallStart, CallFailed, CallAborted, CallImmediate, EndsAtOnce,
     CallPrepares, CallPrepared, SequentialReturn, Join, JoinThrows, ResultStart, ResultEnd,
     BatchDone, CallsLimited, PrepareNextTurnThrows, PollSteering, Ends, LoopKeeps, toolVars,
     Candidates
<1>7. CASE FailureSteps
  BY <1>7 DEF FailureSteps, Catch, SynthesizeResults, FixStart, FixEnd, FailStart, FailEnd,
     FailTurn, FailAgent, FinishRun, LoopKeeps, toolVars, Candidates
<1>8. QED
  BY <1>1, <1>2, <1>3, <1>4, <1>5, <1>6, <1>7 DEF Next, LoopStep

\* The number of accepted calls changes with the run and with the plan of a batch.
LEMMA AcceptedSteps ==
  ASSUME [Next]_vars
  PROVE  (\E ps, skip : StartRun(ps, skip)) \/ PlanBatch \/ UNCHANGED <<runs, accepted>>
<1>1. CASE UserStep
  BY <1>1, UserDoes DEF Outside, Abort, batchVars, runVars
<1>2. CASE ListenerStep \/ ToolStep \/ UNCHANGED vars
  BY <1>2, OthersStay
<1>3. CASE RunSteps
  BY <1>3 DEF RunSteps, RunStarted, PromptStart, PromptEnd, InitialPoll, TurnAborted, FirstTurn,
     TurnsLimited, NextTurn, FollowUps, NoFollowUps, InjectStart, InjectEnd, Ends, LoopKeeps,
     LoopFrame, batchVars, runVars
<1>4. CASE StreamSteps
  BY <1>4 DEF StreamSteps, StreamStart, StreamThrows, StreamDone, ResponseFailed, FailedTurn,
     NoCalls, Ends, LoopKeeps, LoopFrame, batchVars, runVars
<1>5. CASE BatchSteps
  BY <1>5 DEF BatchSteps, CallStart, CallFailed, CallAborted, CallImmediate, EndsAtOnce,
     CallPrepares, CallPrepared, SequentialExecute, SequentialReturn, ParallelExecute, Join,
     JoinThrows, ResultStart, ResultEnd, BatchDone, CallsLimited, PrepareNextTurnThrows,
     PollSteering, Ends, LoopKeeps, LoopFrame, batchVars, runVars
<1>6. CASE FailureSteps
  BY <1>6 DEF FailureSteps, Catch, SynthesizeResults, FixStart, FixEnd, FailStart, FailEnd,
     FailTurn, FailAgent, FinishRun, LoopKeeps, LoopFrame, batchVars, runVars
<1>7. QED
  BY <1>1, <1>2, <1>3, <1>4, <1>5, <1>6 DEF Next, LoopStep

\* Only a plan makes candidates.
LEMMA CandidatesShrink ==
  ASSUME TypeOK, ExecInv, [Next]_vars, ~PlanBatch PROVE Candidates' \subseteq Candidates
<1>1. executed' \subseteq Candidates
  BY ExecutesCandidates
<1>2. CASE pc' \in BatchLabel
  <2>1. pc \in BatchLabel /\ UNCHANGED <<batch, plan>>
    <3>1. CASE \E n \in 0 .. MaxBatch, s \in Stop : StreamDone(n, s)
      BY <1>2, <3>1 DEF StreamDone, LoopEmits, BatchLabel
    <3>2. CASE BatchSteps
      BY <1>2, <3>2, BatchForward
    <3>3. CASE UNCHANGED <<pc, plan, batch>>
      BY <1>2, <3>3
    <3>4. QED
      BY <1>2, <3>1, <3>2, <3>3, Positions
  <2>2. QED
    BY <1>1, <2>1 DEF Candidates, ToBeExecuted, BatchCalls, ElementsOf
<1>3. CASE pc' \notin BatchLabel
  BY <1>1, <1>3 DEF Candidates
<1>4. QED
  BY <1>2, <1>3

\* Every step preserves CallInv.
LEMMA NextCalls ==
  ASSUME TypeOK, TypeOK', ExecInv, EndControl, ObserveInv, CallInv, [Next]_vars PROVE CallInv'
<1> SUFFICES ASSUME CallLimit # 0 PROVE CallsCounted'
  BY DEF CallInv
<1> DEFINE n == Cardinality(Candidates)
           total == CallLimit * (runs - 1)
<1>0. /\ CallsCounted /\ CallLimit \in Nat /\ runs \in Nat /\ accepted \in Nat /\ total \in Int
      /\ CallLimit * (runs + 1 - 1) = total + CallLimit
  BY ActiveRun, AgentRunAssumption DEF CallInv, TypeOK, BatchType
<1>1. BatchCalls \subseteq Call /\ executed \subseteq Call
  BY DEF TypeOK, BatchType, ToolType, BatchCalls, ElementsOf
<1>2. Candidates \in SUBSET Call /\ executed \in SUBSET Candidates
  BY <1>1 DEF Candidates
<1>3. IsFiniteSet(Candidates) /\ n \in Nat
  BY <1>2, CandidatesFinite
<1>4. IsFiniteSet(executed) /\ Cardinality(executed) \in Nat /\ Cardinality(executed) <= n
  BY <1>1, <1>2, <1>3, CandidatesFinite, FS_Subset
<1>5. CASE \E ps, skip : StartRun(ps, skip)
  <2>1. runs' = runs + 1 /\ accepted' = 0 /\ pc' = "started" /\ UNCHANGED executed
    BY <1>5 DEF StartRun, toolVars
  <2>2. Candidates' = executed
    BY <2>1 DEF Candidates, BatchLabel
  <2>3. runs' # 0 /\ accepted' <= CallLimit
    BY <1>0, <2>1
  <2>4. Cardinality(executed) <= CallLimit * (runs' - 1) + accepted'
    <3>1. CASE runs = 0
      <4>1. Cardinality(executed) = 0
        BY <1>0, <3>1, FS_EmptySet DEF CallsCounted
      <4>2. CallLimit * (runs' - 1) = 0
        BY <1>0, <2>1, <3>1
      <4>3. QED
        BY <2>1, <4>1, <4>2
    <3>2. CASE runs # 0
      <4>1. n <= total + accepted /\ accepted <= CallLimit
        BY <1>0, <3>2 DEF CallsCounted
      <4>2. total \in Int /\ CallLimit \in Nat /\ accepted \in Nat
        BY <1>0
      <4>3. CallLimit * (runs' - 1) = total + CallLimit
        BY <1>0, <2>1
      <4>4. Cardinality(executed) <= total + CallLimit
        <5> HIDE DEF n, total
        <5>1. QED
          BY <1>3, <1>4, <4>1, <4>2
      <4>5. total + CallLimit \in Int
        BY <4>2
      <4>6. QED
        BY <2>1, <4>3, <4>4, <4>5
    <3>3. QED
      BY <3>1, <3>2
  <2>5. QED
    BY <2>2, <2>3, <2>4 DEF CallsCounted
<1>6. CASE PlanBatch
  <2>1. /\ pc = "response" /\ pc' = "calls" /\ plan' \in BatchPlans /\ UNCHANGED <<runs, batch, executed>>
        /\ accepted' = (IF OverLimit THEN accepted ELSE accepted + Len(batch))
    BY <1>6 DEF PlanBatch, At, GoTo, LoopFrame, runVars, toolVars
  <2>2. runs # 0
    BY <2>1 DEF EndControl, ObserveInv
  <2>3. n <= total + accepted /\ accepted <= CallLimit
    BY <1>0, <2>2 DEF CallsCounted
  <2>4. Len(batch) \in Nat /\ Cardinality(BatchCalls) <= Len(batch)
    BY BatchSize
  <2>5. accepted' <= CallLimit /\ accepted' \in Nat /\ accepted <= accepted'
    BY <1>0, <2>1, <2>3, <2>4 DEF OverLimit
  <2>6. CASE ToBeExecuted'
    <3>1. accepted' = accepted + Len(batch)
      BY <2>1, <2>6 DEF BatchPlans, ToBeExecuted
    <3>2. Candidates' = executed \cup BatchCalls
      BY <2>1, <2>6 DEF Candidates, BatchLabel, BatchCalls, ElementsOf
    <3>3. IsFiniteSet(BatchCalls) /\ Cardinality(BatchCalls) \in Nat
          /\ Cardinality(executed \cap BatchCalls) \in Nat
      BY <1>1, CandidatesFinite
    <3>4. Cardinality(executed \cup BatchCalls)
          = Cardinality(executed) + Cardinality(BatchCalls) - Cardinality(executed \cap BatchCalls)
      BY <1>4, <3>3, FS_Union
    <3>5. Cardinality(executed \cup BatchCalls) <= n + Len(batch)
      <4> HIDE DEF n
      <4>1. QED
        BY <1>3, <1>4, <2>4, <3>3, <3>4
    <3>6. Cardinality(executed \cup BatchCalls) \in Nat
      BY <1>1, CandidatesFinite
    <3>7. Cardinality(executed \cup BatchCalls) <= total + (accepted + Len(batch))
      <4>1. accepted \in Nat /\ total \in Int
        BY <1>0
      <4> HIDE DEF n, total
      <4>2. QED
        BY <1>3, <2>3, <2>4, <3>5, <3>6, <4>1
    <3>8. QED
      BY <2>1, <2>2, <2>5, <3>1, <3>2, <3>7 DEF CallsCounted
  <2>7. CASE ~ToBeExecuted'
    <3>1. Candidates' = executed
      BY <2>1, <2>7 DEF Candidates
    <3>2. Cardinality(executed) <= total + accepted'
      <4>1. accepted \in Nat /\ total \in Int
        BY <1>0
      <4> HIDE DEF n, total
      <4>2. QED
        BY <1>3, <1>4, <2>3, <2>5, <4>1
    <3>3. QED
      BY <2>1, <2>2, <2>5, <3>1, <3>2 DEF CallsCounted
  <2>8. QED
    BY <2>6, <2>7
<1>7. CASE ~PlanBatch /\ ~\E ps, skip : StartRun(ps, skip)
  <2>1. UNCHANGED <<runs, accepted>> /\ Candidates' \in SUBSET Candidates
    BY <1>7, AcceptedSteps, CandidatesShrink
  <2>2. n' <= n /\ n' \in Nat
    BY <1>2, <1>3, <2>1, FS_Subset, CandidatesFinite
  <2>3. CASE runs = 0
    <3>1. pc \notin BatchLabel
      BY <2>3 DEF EndControl, ObserveInv, BatchLabel
    <3>2. executed' \subseteq executed
      BY <3>1, ExecutesCandidates DEF Candidates
    <3>3. QED
      BY <1>0, <2>1, <2>3, <3>2 DEF CallsCounted
  <2>4. CASE runs # 0
    <3>1. n <= total + accepted /\ accepted <= CallLimit
      BY <1>0, <2>4 DEF CallsCounted
    <3>2. n' <= total + accepted
      <4>1. total \in Int /\ accepted \in Nat
        BY <1>0
      <4> HIDE DEF n, total
      <4>2. QED
        BY <1>3, <2>2, <3>1, <4>1
    <3>3. QED
      BY <2>1, <2>4, <3>1, <3>2 DEF CallsCounted
  <2>5. QED
    BY <2>3, <2>4
<1>8. QED
  BY <1>5, <1>6, <1>7

\* At the start no response has come and no call was executed.
LEMMA InitLimits == Init => TurnInv /\ CallInv
<1> SUFFICES ASSUME Init PROVE TurnInv /\ CallInv
  OBVIOUS
<1>1. pc = "idle" /\ runs = 0 /\ executed = {} /\ transcript = <<>>
  BY DEF Init
<1>2. pc \notin LaterLabel /\ pc \notin BatchLabel
  BY <1>1 DEF LaterLabel, AwaitLabel, BatchLabel
<1>3. Responses = {}
  BY <1>1 DEF Responses
<1>4. QED
  BY <1>1, <1>2, <1>3 DEF TurnInv, TurnsCounted, CallInv, CallsCounted

\* What was counted of the last run is within its limits, and so are all runs together.
LEMMA Limited == ASSUME TypeOK, TurnInv, CallInv PROVE LimitsRespected
<1>1. ASSUME CallLimit # 0 PROVE Cardinality(executed) <= CallLimit * runs
  <2>0. /\ CallsCounted /\ CallLimit \in Nat /\ runs \in Nat /\ accepted \in Nat
        /\ CallLimit * (runs - 1) \in Int /\ CallLimit * 0 = 0
        /\ CallLimit * runs = CallLimit * (runs - 1) + CallLimit
    BY <1>1, ActiveRun, AgentRunAssumption DEF CallInv, TypeOK, BatchType
  <2> DEFINE total == CallLimit * (runs - 1)
  <2>1. CASE runs = 0
    BY <2>0, <2>1, FS_EmptySet DEF CallsCounted
  <2>2. CASE runs # 0
    <3>1. accepted <= CallLimit /\ Cardinality(Candidates) <= total + accepted
      BY <2>0, <2>2 DEF CallsCounted
    <3>2. /\ executed \in SUBSET Candidates /\ Candidates \in SUBSET Call
          /\ executed \in SUBSET Call
      <4>1. BatchCalls \subseteq Call /\ executed \subseteq Call
        BY DEF TypeOK, BatchType, ToolType, BatchCalls, ElementsOf
      <4>2. QED
        BY <4>1 DEF Candidates
    <3>3. /\ Cardinality(executed) <= Cardinality(Candidates)
          /\ Cardinality(executed) \in Nat /\ Cardinality(Candidates) \in Nat
      BY <3>2, CandidatesFinite, FS_Subset
    <3>4. total \in Int /\ CallLimit * runs = total + CallLimit
      BY <2>0
    <3> HIDE DEF total
    <3>5. QED
      BY <2>0, <3>1, <3>3, <3>4
  <2>3. QED
    BY <2>1, <2>2
<1>2. ASSUME TurnLimit # 0 PROVE Cardinality(Responses) <= TurnLimit * runs
  <2>0. /\ TurnsCounted /\ TurnLimit \in Nat /\ runs \in Nat /\ TurnLimit * 0 = 0
        /\ TurnLimit * (runs - 1) \in Int
        /\ TurnLimit * runs = TurnLimit * (runs - 1) + TurnLimit
    BY <1>2, ActiveRun, AgentRunAssumption DEF TurnInv, TypeOK
  <2> DEFINE total == TurnLimit * (runs - 1)
             n == Cardinality(Responses)
  <2>1. CASE runs = 0
    BY <2>0, <2>1, FS_EmptySet DEF TurnsCounted
  <2>2. CASE runs # 0
    <3>1. turnsStarted \in 1 .. TurnLimit /\ n <= total + turnsStarted - OwnTurn
      BY <2>0, <2>2 DEF TurnsCounted
    <3>2. OwnTurn \in {0, 1}
      BY DEF OwnTurn
    <3>3. n \in Nat
      <4>1. transcript \in Seq(Message) /\ Responses \in SUBSET (DOMAIN transcript)
        BY DEF TypeOK, EmitType, Responses
      <4>2. QED
        BY <4>1, PartFinite
    <3>4. total \in Int /\ TurnLimit * runs = total + TurnLimit
      BY <2>0
    <3> HIDE DEF n, total
    <3>5. \A own \in {0, 1} :
            n <= total + turnsStarted - own => n <= total + TurnLimit
      BY <2>0, <3>1, <3>3, <3>4
    <3>6. n <= total + TurnLimit
      BY <3>1, <3>2, <3>5, Zenon
    <3>7. QED
      BY <3>4, <3>6 DEF n
  <2>3. QED
    BY <2>1, <2>2
<1>3. QED
  BY <1>1, <1>2 DEF LimitsRespected, Responses

\* The runs so far got at most TurnLimit responses each that did not fail, and executed at
\* most CallLimit calls each (agent-loop.ts, executionLimits).
THEOREM LimitsHold == Spec => []LimitsRespected
<1> DEFINE Inv == /\ TypeOK /\ ExecInv /\ ToolInv /\ AnswersInv /\ EndInv /\ ObserveInv
                  /\ TurnInv /\ CallInv
<1>1. Init => Inv
  BY InitType, InitExec, InitTool, InitAnswers, InitEnd, InitObserve, InitLimits
<1>2. Inv /\ [Next]_vars => Inv'
  <2> SUFFICES ASSUME Inv, [Next]_vars PROVE Inv'
    OBVIOUS
  <2>1. TypeOK' /\ ExecInv' /\ ToolInv' /\ AnswersInv'
    BY NextType, NextExec, NextTool, NextAnswers
  <2>2. EndInv' /\ ObserveInv'
    BY EndControls, NextAwaited, NextObserve DEF EndInv
  <2>3. TurnInv' /\ CallInv'
    BY <2>1, NextTurns, NextCalls DEF EndInv
  <2>4. QED
    BY <2>1, <2>2, <2>3
<1>3. Inv => LimitsRespected
  BY Limited
<1>4. QED
  BY <1>1, <1>2, <1>3, PTL DEF Spec

\* However a run ends, no call of it goes on, every listener that can learn of it does, and
\* its limits held (agent.ts, finishRun; agent-loop.ts, the exits of runLoop).
THEOREM RunsEndWell == Spec => []RunsEndProperly
<1>1. EndIsFinal /\ ObserverLearnsEnd /\ LimitsRespected => RunsEndProperly
  BY DEF RunsEndProperly
<1>2. QED
  BY <1>1, EndsAreFinal, ObserversLearn, LimitsHold, PTL

-----------------------------------------------------------------------------
(* The transcript is a conversation                                               *)
(* Its promise rests on ConvInv: which calls are still owed an answer, that they  *)
(* are those of the last response, behind which only results stand, and that the  *)
(* results that terminalizeFailure makes up are all that is missing.              *)

\* The calls of complete responses that have no answer yet.
Owed ==
  {c \in Call : /\ ~Answered(c)
                /\ \E i \in DOMAIN transcript :
                      Conv!Complete(transcript[i]) /\ c \in CallsOf(transcript[i])}

\* The last response has the calls of the batch, and only results were said since.
OpenAt(p) ==
  /\ p \in DOMAIN transcript
  /\ transcript[p].role = "assistant" /\ transcript[p].calls = batch
  /\ Conv!Recent(p)
Open == \E p : OpenAt(p)

FixLabel == {"fix", "fixEnd"}
DebtLabel == {"response", "catch", "catchFatal", "unmatched"} \cup FixLabel \cup BatchLabel
FailedLabel == {"failTurn", "failAgent", "failEnded", "idle"}
SettledLabel == PromptLabel \cup (TurnLabel \ {"response"})

\* Calls are numbered as they are requested, and requested before they are answered;
\* those of a batch are known together, and accepted ones were answered.
Orderly ==
  /\ \A i, j \in DOMAIN batch : i < j => batch[i] < batch[j]
  /\ \A i, j \in DOMAIN transcript :
       /\ transcript[i].role = "assistant" /\ transcript[j].role = "toolResult"
       /\ transcript[j].call \in CallsOf(transcript[i])
       => i < j
  /\ \A c, d \in BatchCalls : phase[c] # "none" => phase[d] # "none"
  /\ \A c \in Call : c \in resulted \/ SaysResult(c) => Answered(c)

\* Which answers are owed where the loop is.
OwedInv ==
  /\ \A c \in Owed : c \in BatchCalls /\ phase[c] # "none"
  /\ pc \notin DebtLabel => Owed = {}
  /\ pc = "response" /\ response \in {"error", "aborted"} => Owed = {}
  /\ pc \in BatchLabel => \A i \in DOMAIN batch : Said(i) => Answered(batch[i])
  /\ pc \in FixLabel => \A c \in Owed : \E m \in fixups : m.call = c

\* Where the batch is in the transcript, and which of its results were not accepted.
OpenInv ==
  /\ pc \in {"response"} \cup BatchLabel => Open
  /\ pc \notin FailedLabel /\ Unmatched # {} => Open /\ Unmatched \subseteq BatchCalls
  /\ pc \in BatchLabel =>
       \A i \in DOMAIN batch : Said(i) => batch[i] \in resulted \/ SaysResult(batch[i])
  /\ pc \in SettledLabel => Unmatched = {}
  /\ pc \in FixLabel /\ fixups # {} =>
       /\ Open /\ \A m \in fixups : m.call \in BatchCalls
       /\ \A c \in BatchCalls : Answered(c) \/ \E m \in fixups : m.call = c

ConvInv == Orderly /\ OwedInv /\ OpenInv

\* Recording a result appends it, or puts it in the place of an earlier one.
LEMMA RecordsResult ==
  ASSUME NEW S, NEW ms \in Seq(S), NEW m \in S, m.role = "toolResult"
  PROVE  \/ /\ \A j \in DOMAIN ms : ~(ms[j].role = "toolResult" /\ ms[j].call = m.call)
            /\ Recorded(ms, m) = Append(ms, m)
         \/ \E j \in DOMAIN ms : /\ ms[j].role = "toolResult" /\ ms[j].call = m.call
                                 /\ Recorded(ms, m) = [ms EXCEPT ![j] = m]
<1> DEFINE same == {j \in DOMAIN ms : ms[j].role = "toolResult" /\ ms[j].call = m.call}
<1>1. CASE same # {}
  <2>1. same \in SUBSET Nat
    BY LenProperties
  <2>2. \E j \in same : \A k \in same : j <= k
    BY <1>1, <2>1, Least
  <2>3. (CHOOSE j \in same : \A k \in same : j <= k) \in same
    BY <2>2
  <2>4. Recorded(ms, m) = [ms EXCEPT ![CHOOSE j \in same : \A k \in same : j <= k] = m]
    BY <1>1 DEF Recorded
  <2>5. QED
    BY <2>3, <2>4
<1>2. CASE same = {}
  BY <1>2 DEF Recorded
<1>3. QED
  BY <1>1, <1>2

\* A message is added, or a made-up result takes the place of an earlier one.
Adds(m) == m \in Message /\ transcript' = Append(transcript, m)
Replaces(j, m) ==
  /\ m \in Message /\ m.role = "toolResult"
  /\ j \in DOMAIN transcript
  /\ transcript[j].role = "toolResult" /\ transcript[j].call = m.call
  /\ transcript' = [transcript EXCEPT ![j] = m]

\* What a response says.
StreamSays(m) ==
  /\ Adds(m) /\ m.role = "assistant" /\ m.calls = batch' /\ m.stop = response'
  /\ pc = "streaming" /\ pc' = "response"

\* What a step says.
SaysPlainly(m) ==
  /\ Adds(m) /\ m.role # "toolResult" /\ ~Conv!Complete(m) /\ CallsOf(m) = {}
  /\ pc \in {"promptEnd", "injectEnd"} \/ (pc = "failEnd" /\ pc' = "failTurn")
SaysBatched(m) ==
  /\ ResultEnd /\ Adds(m) /\ m.role = "toolResult" /\ m.call = Current /\ ~Answered(Current)
SaysFixed(m) ==
  /\ m \in fixups /\ FixEnd(m) /\ m.role = "toolResult" /\ m.call \in Call
  /\ (Adds(m) /\ ~Answered(m.call)) \/ \E j : Replaces(j, m)

Streams == \E n \in 0 .. MaxBatch, s \in Stop : StreamDone(n, s)

\* What a response says is what it asks for.
LEMMA StreamsSay ==
  ASSUME TypeOK, Streams PROVE \E m : StreamSays(m)
<1>1. PICK n \in 0 .. MaxBatch, s \in Stop : StreamDone(n, s)
  BY DEF Streams
<1> DEFINE cs == [i \in 1 .. n |-> used + i]
           m == Assistant(cs, s)
<1>2. batch' = cs /\ response' = s /\ pc = "streaming" /\ pc' = "response"
  BY <1>1 DEF StreamDone, At, LoopEmits, Assistant
<1>3. cs \in Seq(Call)
  BY <1>1, <1>2, StreamStepsType DEF StreamSteps, TypeOK, BatchType
<1>4. m \in Message /\ m.role = "assistant" /\ m.calls = cs /\ m.stop = s
  BY <1>3, AssistantType DEF Assistant
<1>5. transcript' = Append(transcript, m)
  BY <1>1, <1>4, Spoken DEF StreamDone
<1>6. QED
  BY <1>2, <1>4, <1>5 DEF StreamSays, Adds

\* A batch says each result once.
LEMMA BatchSays ==
  ASSUME TypeOK, AnswersInv, ResultEnd PROVE \E m : SaysBatched(m)
<1> DEFINE m == Result(Current, outcome[Current])
<1>1. transcript \in Seq(Message)
  BY DEF TypeOK, EmitType
<1>2. next \in DOMAIN batch /\ m \in Message
  BY CurrentCall, ResultType DEF ResultEnd, At, TypeOK, ToolType, ControlOK
<1>3. transcript' = Recorded(transcript, m) /\ m.call = Current /\ m.role = "toolResult"
  BY DEF ResultEnd, LoopEmits, Process, MessageEnd, Plain, Result
<1>4. ~Answered(Current)
  <2>1. pc = "resultEnd" /\ next \in Nat
    BY DEF ResultEnd, At, TypeOK, BatchType
  <2>2. QED
    BY <1>2, <2>1 DEF AnswersInv, BatchLabel, Said, Current
<1>5. transcript' = Append(transcript, m)
  BY <1>1, <1>2, <1>3, <1>4, RecordsResult DEF Answered
<1>6. QED
  BY <1>2, <1>3, <1>4, <1>5 DEF SaysBatched, Adds

\* terminalizeFailure says what is missing, or says it again.
LEMMA FixSays ==
  ASSUME TypeOK, AnswersInv, NEW m \in fixups, FixEnd(m) PROVE SaysFixed(m)
<1>1. transcript \in Seq(Message)
  BY DEF TypeOK, EmitType
<1>2. m \in Message /\ transcript' = Recorded(transcript, m)
  BY DEF FixEnd, LoopEmits, Process, MessageEnd, Plain, TypeOK, FailType
<1>3. m.role = "toolResult" /\ m.call \in Call
  BY DEF AnswersInv
<1>4. (Adds(m) /\ ~Answered(m.call)) \/ \E j : Replaces(j, m)
  BY <1>1, <1>2, <1>3, RecordsResult DEF Answered, Adds, Replaces
<1>5. QED
  BY <1>3, <1>4 DEF SaysFixed

\* A step says one message at most.
LEMMA StepSays ==
  ASSUME TypeOK, AnswersInv, [Next]_vars
  PROVE  \/ UNCHANGED transcript
         \/ Streams
         \/ \E m : SaysPlainly(m) \/ SaysBatched(m) \/ SaysFixed(m)
<1>1. ASSUME NEW m \in Message, m.role # "toolResult", transcript' = Append(transcript, m),
             ~Conv!Complete(m), CallsOf(m) = {},
             pc \in {"promptEnd", "injectEnd"} \/ (pc = "failEnd" /\ pc' = "failTurn")
      PROVE  SaysPlainly(m)
  BY <1>1 DEF SaysPlainly, Adds
<1>2. QED
  BY <1>1, BatchSays, FixSays, Speeches DEF Streams

\* What was said keeps its place, its role, and the call it answers.
Stays ==
  \A i \in DOMAIN transcript :
    /\ i \in DOMAIN transcript' /\ transcript'[i].role = transcript[i].role
    /\ IF transcript[i].role = "toolResult" THEN transcript'[i].call = transcript[i].call
       ELSE transcript'[i] = transcript[i]

\* A message that is added comes last.
LEMMA Added ==
  ASSUME TypeOK, NEW m, Adds(m)
  PROVE  /\ Stays /\ Len(transcript) \in Nat /\ DOMAIN transcript = 1 .. Len(transcript)
         /\ Len(transcript') = Len(transcript) + 1
         /\ DOMAIN transcript' = 1 .. Len(transcript) + 1
         /\ \A i \in DOMAIN transcript : transcript'[i] = transcript[i]
         /\ transcript'[Len(transcript) + 1] = m
<1>1. transcript \in Seq(Message) /\ m \in Message /\ transcript' = Append(transcript, m)
  BY DEF TypeOK, EmitType, Adds
<1>2. /\ Len(transcript) \in Nat /\ DOMAIN transcript = 1 .. Len(transcript)
      /\ Len(transcript') = Len(transcript) + 1
      /\ DOMAIN transcript' = 1 .. Len(transcript) + 1
      /\ \A i \in DOMAIN transcript : transcript'[i] = transcript[i]
      /\ transcript'[Len(transcript) + 1] = m
  BY <1>1, AppendProperties, LenProperties
<1>3. QED
  BY <1>2 DEF Stays

\* One that is replaced leaves its place to one like it.
LEMMA Replaced ==
  ASSUME TypeOK, NEW m, NEW j, Replaces(j, m)
  PROVE  /\ Stays /\ DOMAIN transcript' = DOMAIN transcript /\ Len(transcript') = Len(transcript)
         /\ \A i \in DOMAIN transcript : i # j => transcript'[i] = transcript[i]
         /\ transcript'[j] = m
<1>1. transcript \in Seq(Message) /\ m \in Message
      /\ transcript' = [transcript EXCEPT ![j] = m] /\ j \in DOMAIN transcript
  BY DEF TypeOK, EmitType, Replaces
<1>2. DOMAIN transcript' = DOMAIN transcript /\ Len(transcript') = Len(transcript)
  BY <1>1, ExceptSeq
<1>3. QED
  BY <1>1, <1>2 DEF Stays, Replaces

\* Whatever a step says, what was said before stays.
LEMMA SaidStays ==
  ASSUME TypeOK, AnswersInv, [Next]_vars PROVE Stays
<1>1. CASE Streams
  BY <1>1, StreamsSay, Added DEF StreamSays
<1>2. CASE UNCHANGED transcript
  BY <1>2 DEF Stays
<1>3. CASE \E m : SaysPlainly(m) \/ SaysBatched(m) \/ SaysFixed(m)
  BY <1>3, Added, Replaced DEF SaysPlainly, SaysBatched, SaysFixed
<1>4. QED
  BY <1>1, <1>2, <1>3, StepSays

\* So do the answers.
LEMMA AnswersStay == ASSUME Stays, NEW c, Answered(c) PROVE Answered(c)'
  BY DEF Stays, Answered

\* A result answers its call.
LEMMA ResultAnswers ==
  ASSUME TypeOK, NEW m, m.role = "toolResult", Adds(m) \/ \E j : Replaces(j, m)
  PROVE  Answered(m.call)'
<1>1. CASE Adds(m)
  <2>1. /\ Len(transcript) \in Nat /\ DOMAIN transcript' = 1 .. Len(transcript) + 1
        /\ transcript'[Len(transcript) + 1] = m
    BY <1>1, Added
  <2>2. Len(transcript) + 1 \in DOMAIN transcript'
    BY <2>1
  <2>3. QED
    BY <2>1, <2>2 DEF Answered
<1>2. CASE \E j : Replaces(j, m)
  <2>1. PICK j : Replaces(j, m)
    BY <1>2
  <2>2. j \in DOMAIN transcript' /\ transcript'[j] = m
    BY <2>1, Replaced DEF Replaces
  <2>3. QED
    BY <2>2 DEF Answered
<1>3. QED
  BY <1>1, <1>2

\* Only a response makes debts.
LEMMA OwedShrinks ==
  ASSUME TypeOK, AnswersInv, [Next]_vars, ~Streams PROVE Owed' \subseteq Owed
<1>1. \A c : Answered(c) => Answered(c)'
  BY SaidStays, AnswersStay
<1>2. \A i \in DOMAIN transcript' : Conv!Complete(transcript'[i])
        => i \in DOMAIN transcript /\ transcript'[i] = transcript[i]
  <2>1. CASE UNCHANGED transcript
    BY <2>1
  <2>2. ASSUME NEW m, Adds(m), ~Conv!Complete(m)
        PROVE  \A i \in DOMAIN transcript' : Conv!Complete(transcript'[i])
                 => i \in DOMAIN transcript /\ transcript'[i] = transcript[i]
    BY <2>2, Added
  <2>3. ASSUME NEW m, NEW j, Replaces(j, m), ~Conv!Complete(m)
        PROVE  \A i \in DOMAIN transcript' : Conv!Complete(transcript'[i])
                 => i \in DOMAIN transcript /\ transcript'[i] = transcript[i]
    BY <2>3, Replaced
  <2>4. \A m : m.role = "toolResult" => ~Conv!Complete(m)
    BY DEF Conv!Complete
  <2>5. QED
    BY <2>1, <2>2, <2>3, <2>4, StepSays DEF SaysPlainly, SaysBatched, SaysFixed
<1>3. QED
  BY <1>1, <1>2 DEF Owed

\* Results do not come between the batch and the end of the transcript.
LEMMA OpenStays ==
  ASSUME TypeOK, UNCHANGED batch, NEW p, OpenAt(p),
         \/ UNCHANGED transcript
         \/ \E m : m.role = "toolResult" /\ (Adds(m) \/ \E j : Replaces(j, m))
  PROVE  OpenAt(p)'
<1>1. CASE UNCHANGED transcript
  BY <1>1 DEF OpenAt, Conv!Recent
<1>2. ASSUME NEW m, m.role = "toolResult", Adds(m) PROVE OpenAt(p)'
  BY <1>2, Added DEF OpenAt, Conv!Recent
<1>3. ASSUME NEW m, NEW j, m.role = "toolResult", Replaces(j, m) PROVE OpenAt(p)'
  <2>1. p \in DOMAIN transcript' /\ transcript'[p] = transcript[p]
    BY <1>3, Replaced DEF OpenAt, Replaces
  <2>2. DOMAIN transcript = 1 .. Len(transcript) /\ Len(transcript) \in Nat
    BY LenProperties DEF TypeOK, EmitType
  <2>3. \A i \in p + 1 .. Len(transcript) : i \in DOMAIN transcript
    BY <2>2 DEF OpenAt
  <2>4. QED
    BY <1>3, <2>1, <2>3, Replaced DEF OpenAt, Conv!Recent, Stays
<1>4. QED
  BY <1>1, <1>2, <1>3

\* What was accepted stays accepted during the run.
LEMMA ResultedStays ==
  ASSUME [Next]_vars PROVE resulted \subseteq resulted' \/ \E ps, skip : StartRun(ps, skip)
<1>1. CASE UserStep
  BY <1>1, UserDoes DEF Outside, Abort
<1>2. CASE ListenerStep \/ ToolStep \/ UNCHANGED vars
  BY <1>2 DEF ListenerStep, Skip, Deliver, Fail, Commit, Throw, ToolStep, ParallelReturn, vars
<1>3. CASE RunSteps \/ StreamSteps
  BY <1>3 DEF RunSteps, RunStarted, PromptStart, PromptEnd, InitialPoll, TurnAborted,
     TurnsLimited, FirstTurn, NextTurn, FollowUps, NoFollowUps, InjectStart, InjectEnd,
     StreamSteps, StreamStart, StreamThrows, StreamDone, ResponseFailed, FailedTurn, NoCalls,
     PlanBatch, Ends, LoopKeeps, LoopFrame
<1>4. CASE BatchSteps
  BY <1>4 DEF BatchSteps, CallStart, CallFailed, CallAborted, CallImmediate, EndsAtOnce,
     CallPrepares, CallPrepared, SequentialExecute, SequentialReturn, ParallelExecute, Join,
     JoinThrows, ResultStart, ResultEnd, BatchDone, CallsLimited, PrepareNextTurnThrows,
     PollSteering, Ends, LoopKeeps, LoopFrame
<1>5. CASE FailureSteps
  BY <1>5 DEF FailureSteps, Catch, SynthesizeResults, FixStart, FixEnd, FailStart, FailEnd,
     FailTurn, FailAgent, FinishRun, LoopKeeps, LoopFrame
<1>6. QED
  BY <1>1, <1>2, <1>3, <1>4, <1>5 DEF Next, LoopStep

\* Only a response adds to the calls that wait for a result.
LEMMA UnmatchedShrinks ==
  ASSUME TypeOK, ExecInv, [Next]_vars, ~Streams PROVE Unmatched' \subseteq Unmatched
<1>1. CASE \E ps, skip : StartRun(ps, skip)
  BY <1>1 DEF StartRun, Unmatched
<1>2. CASE ~\E ps, skip : StartRun(ps, skip)
  BY <1>2, ResultedStays, PhaseKnown DEF Unmatched, Streams
<1>3. QED
  BY <1>1, <1>2

\* What a response asks for is new: nobody answered it, and it is numbered.
LEMMA NewBatch ==
  ASSUME TypeOK, TypeOK', AnswersInv, Streams
  PROVE  /\ \A i, j \in DOMAIN batch' : i < j => batch'[i] < batch'[j]
         /\ BatchCalls' \subseteq Call
         /\ \A c \in BatchCalls' : c > used /\ ~Answered(c)
<1>1. PICK n \in 0 .. MaxBatch, s \in Stop : StreamDone(n, s)
  BY DEF Streams
<1>2. batch' = [i \in 1 .. n |-> used + i] /\ used \in Nat /\ n \in Nat
  BY <1>1, AgentRunAssumption DEF StreamDone, Assistant, TypeOK, BatchType
<1>3. \A i, j \in DOMAIN batch' : i < j => batch'[i] < batch'[j]
  BY <1>2
<1>4. BatchCalls' \subseteq Call /\ \A c \in BatchCalls' : c > used
  BY <1>1, NewCalls
<1>5. \A c \in Call : c \in Nat /\ (Answered(c) => c <= used)
  BY DEF AnswersInv, Call
<1>6. QED
  BY <1>2, <1>3, <1>4, <1>5

\* Requests come before their answers.
LEMMA RequestsFirst ==
  ASSUME TypeOK, TypeOK', AnswersInv, Orderly, [Next]_vars,
         NEW i \in DOMAIN transcript', NEW j \in DOMAIN transcript',
         transcript'[i].role = "assistant", transcript'[j].role = "toolResult",
         transcript'[j].call \in CallsOf(transcript'[i])
  PROVE  i < j
<1>1. ASSUME i \in DOMAIN transcript, j \in DOMAIN transcript PROVE i < j
  <2>1. Stays
    BY SaidStays
  <2>2. /\ transcript[i].role = "assistant" /\ transcript[j].role = "toolResult"
        /\ transcript[j].call \in CallsOf(transcript[i])
    BY <1>1, <2>1 DEF Stays
  <2>3. QED
    BY <1>1, <2>2 DEF Orderly
<1>2. CASE UNCHANGED transcript \/ \E k, m : Replaces(k, m)
  BY <1>1, <1>2, Replaced
<1>3. ASSUME NEW m, Adds(m), m.role = "toolResult" PROVE i < j
  BY <1>1, <1>3, Added
<1>4. ASSUME NEW m, Adds(m), CallsOf(m) = {}, m.role # "toolResult" PROVE i < j
  BY <1>1, <1>4, Added
<1>5. CASE Streams
  <2>1. PICK m : StreamSays(m)
    BY <1>5, StreamsSay
  <2>2. CallsOf(m) = BatchCalls'
    BY <2>1 DEF StreamSays, CallsOf, BatchCalls, ElementsOf
  <2>3. \A k \in DOMAIN transcript : transcript[k].role = "toolResult"
           => transcript[k].call \notin BatchCalls'
    BY <1>5, NewBatch DEF Answered
  <2>4. j \in DOMAIN transcript /\ transcript'[j] = transcript[j]
    BY <2>1, Added DEF StreamSays
  <2>5. i \in DOMAIN transcript
    BY <2>1, <2>2, <2>3, <2>4, Added DEF StreamSays
  <2>6. QED
    BY <1>1, <2>4, <2>5
<1>6. QED
  BY <1>2, <1>3, <1>4, <1>5, StepSays DEF SaysPlainly, SaysBatched, SaysFixed

\* A result that the listeners have accepted, or hear of, was said before, except where the
\* loop says it now.
LEMMA AcceptedBefore ==
  ASSUME TypeOK, ToolInv, [Next]_vars, NEW c \in Call, c \in resulted' \/ SaysResult(c)'
  PROVE  \/ c \in resulted \/ SaysResult(c)
         \/ ResultEnd /\ c = Current
         \/ \E m \in fixups : FixEnd(m) /\ c = m.call
<1>0. Loop \in Coroutine /\ out \in [Coroutine -> Emission]
  BY Coroutines DEF TypeOK, EmitType
<1>1. CASE UserStep
  <2>1. CASE \E ps, skip : StartRun(ps, skip)
    <3>1. resulted' = {} /\ \E r : out' = [out EXCEPT ![Loop] = Emitting(Plain("agent_start"), r)]
      BY <2>1 DEF StartRun
    <3>2. out'[Loop].ev.type = "agent_start"
      BY <1>0, <3>1 DEF Emitting, Plain
    <3>3. QED
      BY <3>1, <3>2 DEF SaysResult, Emits
  <2>2. QED
    BY <1>1, <2>1, UserDoes, Accepting
<1>2. CASE ListenerStep \/ ToolStep \/ UNCHANGED vars
  BY <1>2, Accepting
<1>3. ASSUME UNCHANGED resulted, UNCHANGED out \/ out'[Loop] = out[Loop]
      PROVE  c \in resulted \/ SaysResult(c)
  BY <1>3 DEF SaysResult, Emits
<1>4. ASSUME UNCHANGED resulted, NEW ev, NEW l, LoopEmits(ev, l),
             ev.type # "message_end" \/ ev.msg.role # "toolResult"
      PROVE  c \in resulted
  <2>1. out'[Loop].ev = ev
    BY <1>0, <1>4 DEF LoopEmits, Emitting
  <2>2. QED
    BY <1>4, <2>1 DEF SaysResult, Emits
<1>5. /\ \A t : Plain(t).type = t
      /\ \A m : MessageStart(m).type = "message_start"
      /\ \A m : MessageEnd(m).msg = m
      /\ \A d : ToolStart(d).type = "tool_execution_start" /\ ToolEnd(d).type = "tool_execution_end"
      /\ \A r : AgentEnd(r).type = "agent_end"
      /\ \A t : User(t).role = "user"
      /\ \A cs, s : Assistant(cs, s).role = "assistant"
  BY DEF Plain, MessageStart, MessageEnd, ToolStart, ToolEnd, AgentEnd, User, Assistant
<1>6. CASE RunSteps
  <2>1. UNCHANGED resulted
    BY <1>6 DEF RunSteps, RunStarted, PromptStart, PromptEnd, InitialPoll, TurnAborted,
     TurnsLimited, FirstTurn, NextTurn, FollowUps, NoFollowUps, InjectStart, InjectEnd, Ends,
     LoopKeeps, LoopFrame
  <2>2. \/ UNCHANGED out
        \/ \E ev, l : LoopEmits(ev, l) /\ (ev.type # "message_end" \/ ev.msg.role # "toolResult")
    BY <1>5, <1>6 DEF RunSteps, RunStarted, PromptStart, PromptEnd, InitialPoll, TurnAborted,
     TurnsLimited, FirstTurn, NextTurn, FollowUps, NoFollowUps, InjectStart, InjectEnd, Ends,
     GoTo, emitVars
  <2>3. QED
    BY <1>3, <1>4, <2>1, <2>2
<1>7. CASE StreamSteps
  <2>1. UNCHANGED resulted
    BY <1>7 DEF StreamSteps, StreamStart, StreamThrows, StreamDone, ResponseFailed, FailedTurn,
     NoCalls, PlanBatch, Ends, LoopKeeps, LoopFrame
  <2>2. \/ UNCHANGED out
        \/ \E ev, l : LoopEmits(ev, l) /\ (ev.type # "message_end" \/ ev.msg.role # "toolResult")
    <3>1. CASE Streams
      BY <1>5, <3>1 DEF Streams, StreamDone
    <3>2. CASE ~Streams
      BY <1>5, <1>7, <3>2 DEF StreamSteps, StreamStart, StreamThrows, ResponseFailed,
         FailedTurn, NoCalls, PlanBatch, Ends, GoTo, emitVars, Streams
    <3>3. QED
      BY <3>1, <3>2
  <2>3. QED
    BY <1>3, <1>4, <2>1, <2>2
<1>8. CASE BatchSteps /\ ~ResultEnd
  <2>1. UNCHANGED resulted
    BY <1>8 DEF BatchSteps, CallStart, CallFailed, CallAborted, CallImmediate, EndsAtOnce,
     CallPrepares, CallPrepared, SequentialExecute, SequentialReturn, ParallelExecute, Join,
     JoinThrows, ResultStart, BatchDone, CallsLimited, PrepareNextTurnThrows,
     PollSteering, Ends, LoopKeeps, LoopFrame
  <2>2. CASE ParallelExecute
    <3>1. out' = [co \in Coroutine |->
                    IF co \in CallsToEnd THEN Emitting(ToolEnd(co), activeRun) ELSE out[co]]
      BY <2>2 DEF ParallelExecute, ToolsEmitEnd
    <3>2. Loop \notin CallsToEnd
      BY Coroutines DEF CallsToEnd, PreparedCalls, BatchCalls, ElementsOf, TypeOK, BatchType
    <3>3. QED
      BY <1>0, <1>3, <2>1, <3>1, <3>2
  <2>3. CASE ~ParallelExecute
    <3>1. \/ UNCHANGED out
          \/ \E ev, l : LoopEmits(ev, l) /\ (ev.type # "message_end" \/ ev.msg.role # "toolResult")
      BY <1>5, <1>8, <2>3 DEF BatchSteps, CallStart, CallFailed, CallAborted, CallImmediate,
       EndsAtOnce, CallPrepares, CallPrepared, SequentialExecute, SequentialReturn, Join,
       JoinThrows, ResultStart, BatchDone, CallsLimited, PrepareNextTurnThrows, PollSteering,
       Ends, GoTo, emitVars
    <3>2. QED
      BY <1>3, <1>4, <2>1, <3>1
  <2>4. QED
    BY <2>2, <2>3
<1>9. ASSUME NEW m, MessageEnd(m).type = "message_end", UNCHANGED resulted, NEW l,
             LoopEmits(MessageEnd(m), l)
      PROVE  c \in resulted \/ c = m.call
  <2>1. out'[Loop].ev = MessageEnd(m)
    BY <1>0, <1>9 DEF LoopEmits, Emitting
  <2>2. QED
    BY <1>5, <1>9, <2>1 DEF SaysResult
<1>10. \A m : MessageEnd(m).type = "message_end"
  BY DEF MessageEnd, Plain
<1>11. CASE ResultEnd
  <2>1. UNCHANGED resulted /\ Result(Current, outcome[Current]).call = Current
    BY <1>11 DEF ResultEnd, LoopFrame, Result
  <2>2. \E l : LoopEmits(MessageEnd(Result(Current, outcome[Current])), l)
    BY <1>11 DEF ResultEnd
  <2>3. QED
    BY <1>9, <1>10, <1>11, <2>1, <2>2
<1>12. CASE \E m \in fixups : FixEnd(m)
  <2>1. PICK m \in fixups : FixEnd(m)
    BY <1>12
  <2>2. UNCHANGED resulted /\ LoopEmits(MessageEnd(m), "fix")
    BY <2>1 DEF FixEnd, LoopFrame
  <2>3. QED
    BY <1>9, <1>10, <2>1, <2>2
<1>13. CASE FailureSteps /\ ~\E m \in fixups : FixEnd(m)
  <2>1. UNCHANGED resulted
    BY <1>13 DEF FailureSteps, Catch, SynthesizeResults, FixStart, FailStart, FailEnd,
     FailTurn, FailAgent, FinishRun, LoopKeeps, LoopFrame
  <2>2. \/ UNCHANGED out
        \/ \E ev, l : LoopEmits(ev, l) /\ (ev.type # "message_end" \/ ev.msg.role # "toolResult")
    BY <1>5, <1>13 DEF FailureSteps, Catch, SynthesizeResults, FixStart, FailStart, FailEnd,
     FailTurn, FailAgent, FinishRun, FailureMessage, GoTo, emitVars
  <2>3. QED
    BY <1>3, <1>4, <2>1, <2>2
<1>14. QED
  BY <1>1, <1>2, <1>6, <1>7, <1>8, <1>11, <1>12, <1>13 DEF Next, LoopStep

\* Every step keeps the calls, the requests and the answers in order.
LEMMA NextOrderly ==
  ASSUME TypeOK, TypeOK', ExecInv, ToolInv, AnswersInv, Orderly, [Next]_vars PROVE Orderly'
<1>1. \A i, j \in DOMAIN batch' : i < j => batch'[i] < batch'[j]
  BY NewBatch, BatchStays DEF Orderly, Streams
<1>2. \A i, j \in DOMAIN transcript' :
         /\ transcript'[i].role = "assistant" /\ transcript'[j].role = "toolResult"
         /\ transcript'[j].call \in CallsOf(transcript'[i])
         => i < j
  BY RequestsFirst
<1>3. \A c, d \in BatchCalls' : phase'[c] # "none" => phase'[d] # "none"
  <2>1. CASE Streams
    <3>1. PICK n \in 0 .. MaxBatch, s \in Stop : StreamDone(n, s)
      BY <2>1 DEF Streams
    <3> DEFINE m == Assistant([i \in 1 .. n |-> used + i], s)
    <3>2. phase' = ObservedPhase(MessageEnd(m)) /\ batch' = m.calls
      BY <3>1 DEF StreamDone, LoopEmits, Observe
    <3>3. BatchCalls' = CallsOf(m)
      BY <3>2 DEF BatchCalls, ElementsOf, CallsOf
    <3>4. m.role = "assistant" /\ MessageEnd(m).type = "message_end" /\ MessageEnd(m).msg = m
      BY DEF Assistant, MessageEnd, Plain
    <3>5. phase' = [c \in Call |-> IF phase[c] = "none" /\ c \in CallsOf(m)
                                   THEN "not-started" ELSE phase[c]]
      BY <3>2, <3>4 DEF ObservedPhase
    <3>6. BatchCalls' \subseteq Call
      BY <2>1, NewBatch
    <3>7. QED
      BY <3>3, <3>5, <3>6
  <2>2. CASE ~Streams
    <3>1. UNCHANGED batch /\ BatchCalls' = BatchCalls /\ BatchCalls \subseteq Call
      BY <2>2, BatchStays DEF Streams, BatchCalls, ElementsOf, TypeOK, BatchType
    <3>2. CASE \E ps, skip : StartRun(ps, skip)
      BY <3>1, <3>2 DEF StartRun
    <3>3. CASE ~\E ps, skip : StartRun(ps, skip)
      BY <2>2, <3>1, <3>3, PhaseKnown DEF Orderly, Streams
    <3>4. QED
      BY <3>2, <3>3
  <2>3. QED
    BY <2>1, <2>2
<1>4. ASSUME NEW c \in Call, c \in resulted' \/ SaysResult(c)' PROVE Answered(c)'
  <2>1. CASE c \in resulted \/ SaysResult(c)
    BY <2>1, SaidStays, AnswersStay DEF Orderly
  <2>2. CASE ResultEnd /\ c = Current
    <3>1. \E m : SaysBatched(m)
      BY <2>2, BatchSays
    <3>2. QED
      BY <2>2, <3>1, ResultAnswers DEF SaysBatched
  <2>3. CASE \E m \in fixups : FixEnd(m) /\ c = m.call
    <3>1. PICK m \in fixups : FixEnd(m) /\ c = m.call
      BY <2>3
    <3>2. QED
      BY <3>1, FixSays, ResultAnswers DEF SaysFixed
  <2>4. QED
    BY <1>4, <2>1, <2>2, <2>3, AcceptedBefore
<1>5. QED
  BY <1>1, <1>2, <1>3, <1>4 DEF Orderly

\* Where nothing is owed the loop comes from such a place, or after a failed response, one
\* without calls, a whole batch, or the made-up results.
LEMMA SettledFlow ==
  ASSUME EndControl, [Next]_vars, pc' \notin DebtLabel
  PROVE  pc \notin DebtLabel \/ ResponseFailed \/ NoCalls \/ BatchDone \/ FailStart
<1>1. CASE UserStep
  BY <1>1, UserDoes DEF StartRun, Outside, Abort, EndControl, DebtLabel, FixLabel, BatchLabel
<1>2. CASE ListenerStep \/ ToolStep \/ UNCHANGED vars
  BY <1>2 DEF ListenerStep, Skip, Deliver, Fail, Commit, Throw, ToolStep, ParallelReturn, vars,
     DebtLabel
<1>3. CASE RunSteps
  BY <1>3 DEF RunSteps, RunStarted, PromptStart, PromptEnd, InitialPoll, TurnAborted,
     TurnsLimited, FirstTurn, NextTurn, FollowUps, NoFollowUps, InjectStart, InjectEnd, At,
     DebtLabel, FixLabel, BatchLabel
<1>4. CASE StreamSteps
  BY <1>4 DEF StreamSteps, StreamStart, StreamThrows, StreamDone, FailedTurn, PlanBatch, At,
     GoTo, DebtLabel, FixLabel, BatchLabel
<1>5. CASE BatchSteps
  <2>1. CASE BatchDone \/ CallsLimited \/ PrepareNextTurnThrows \/ PollSteering
    BY <2>1 DEF CallsLimited, PrepareNextTurnThrows, PollSteering, At, DebtLabel, FixLabel,
       BatchLabel
  <2>2. CASE BatchSteps /\ ~(BatchDone \/ CallsLimited \/ PrepareNextTurnThrows \/ PollSteering)
    BY <2>2 DEF BatchSteps, CallStart, CallFailed, CallAborted, CallImmediate, EndsAtOnce,
       CallPrepares, CallPrepared, SequentialExecute, SequentialReturn, ParallelExecute, Join,
       JoinThrows, ResultStart, ResultEnd, LoopEmits, GoTo, DebtLabel, BatchLabel
  <2>3. QED
    BY <1>5, <2>1, <2>2
<1>6. CASE FailureSteps
  <2>1. CASE Catch
    BY <2>1 DEF Catch, EndControl, EndLabel, LoopEmits, GoTo, DebtLabel
  <2>2. CASE ~Catch
    BY <1>6, <2>2 DEF FailureSteps, SynthesizeResults, FixStart, FixEnd, FailEnd, FailTurn,
       FailAgent, FinishRun, At, LoopEmits, GoTo, DebtLabel, FixLabel, BatchLabel
  <2>3. QED
    BY <2>1, <2>2
<1>7. QED
  BY <1>1, <1>2, <1>3, <1>4, <1>5, <1>6 DEF Next, LoopStep

\* The results of a batch are said one by one.
LEMMA SaidFlow ==
  ASSUME TypeOK, ExecInv, [Next]_vars, pc' \in BatchLabel, NEW i \in DOMAIN batch, Said(i)'
  PROVE  pc \in BatchLabel /\ (Said(i) \/ (ResultEnd /\ i = next))
<1>0. next \in Nat \ {0} /\ i \in Nat \ {0}
  BY LenProperties DEF TypeOK, BatchType
<1>1. CASE UNCHANGED <<pc, next, plan>>
  BY <1>1 DEF Said, InParallel
<1>2. CASE PlanBatch
  BY <1>0, <1>2 DEF PlanBatch, Said
<1>3. CASE \E n \in 0 .. MaxBatch, s \in Stop : StreamDone(n, s)
  BY <1>3 DEF StreamDone, LoopEmits, BatchLabel
<1>4. CASE BatchSteps
  <2>1. pc \in BatchLabel /\ UNCHANGED plan /\ (ResultEnd => next' = next + 1)
    BY <1>4, BatchForward
  <2>2. CASE ResultEnd
    BY <1>0, <2>1, <2>2 DEF Said, InParallel, ResultEnd, At
  <2>3. CASE Join
    BY <1>0, <2>3 DEF Join, Said
  <2>4. CASE CallPrepared \/ EndsAtOnce
    <3>1. InParallel => pc' = "calls"
      BY <2>4 DEF CallPrepared, EndsAtOnce, LoopEmits, GoTo
    <3>2. ~InParallel => next' = next
      BY <2>4 DEF CallPrepared, EndsAtOnce
    <3>3. QED
      BY <2>1, <3>1, <3>2 DEF Said, InParallel
  <2>5. CASE ~ResultEnd /\ ~Join /\ ~CallPrepared /\ ~EndsAtOnce
    <3>1. UNCHANGED next
      BY <1>4, <2>5 DEF BatchSteps, CallStart, CallFailed, CallAborted, CallImmediate,
       CallPrepares, SequentialExecute, SequentialReturn, ParallelExecute, JoinThrows,
       ResultStart, BatchDone, CallsLimited, PrepareNextTurnThrows, PollSteering, Ends, LoopKeeps
    <3>2. pc' \in {"result", "resultEnd"} => pc \in {"result", "resultEnd"} \/ ~InParallel
      BY <1>4, <2>5 DEF BatchSteps, CallStart, CallFailed, CallAborted, CallImmediate,
       CallPrepares, SequentialExecute, SequentialReturn, ParallelExecute, JoinThrows,
       ResultStart, BatchDone, CallsLimited, PrepareNextTurnThrows, PollSteering, Ends,
       LoopEmits, GoTo, At, ExecInv, PlanFits, InParallel
    <3>3. QED
      BY <2>1, <3>1, <3>2 DEF Said, InParallel
  <2>6. QED
    BY <2>2, <2>3, <2>4, <2>5
<1>5. QED
  BY <1>1, <1>2, <1>3, <1>4, Positions DEF BatchLabel

\* A call of a new response counts as requested.
LEMMA StreamKnows ==
  ASSUME TypeOK, Streams, NEW c \in Call, c \in BatchCalls' PROVE phase'[c] # "none"
<1>1. PICK n \in 0 .. MaxBatch, s \in Stop : StreamDone(n, s)
  BY DEF Streams
<1> DEFINE m == Assistant([i \in 1 .. n |-> used + i], s)
<1>2. phase' = ObservedPhase(MessageEnd(m)) /\ batch' = m.calls
  BY <1>1 DEF StreamDone, LoopEmits, Observe
<1>3. BatchCalls' = CallsOf(m)
  BY <1>2 DEF BatchCalls, ElementsOf, CallsOf
<1>4. m.role = "assistant" /\ MessageEnd(m).type = "message_end" /\ MessageEnd(m).msg = m
  BY DEF Assistant, MessageEnd, Plain
<1>5. phase' = [d \in Call |-> IF phase[d] = "none" /\ d \in CallsOf(m)
                               THEN "not-started" ELSE phase[d]]
  BY <1>2, <1>4 DEF ObservedPhase
<1>6. QED
  BY <1>3, <1>5

\* After a response its calls are owed, if it is complete.
LEMMA StreamOwes ==
  ASSUME TypeOK, AnswersInv, OwedInv, Streams, [Next]_vars
  PROVE  /\ Owed' \subseteq BatchCalls'
         /\ response' \in {"error", "aborted"} => Owed' = {}
<1>1. PICK m : StreamSays(m)
  BY StreamsSay
<1>2. Owed = {}
  BY <1>1 DEF StreamSays, OwedInv, DebtLabel, FixLabel, BatchLabel
<1>3. CallsOf(m) = BatchCalls'
  BY <1>1 DEF StreamSays, CallsOf, BatchCalls, ElementsOf
<1>4. \A c : Answered(c) => Answered(c)'
  BY SaidStays, AnswersStay
<1>5. \A c \in Owed' : Conv!Complete(m) /\ c \in CallsOf(m)
  <2>1. TAKE c \in Owed'
  <2>2. PICK i \in DOMAIN transcript' : Conv!Complete(transcript'[i]) /\ c \in CallsOf(transcript'[i])
    BY DEF Owed
  <2>3. c \in Call /\ ~Answered(c)
    BY <1>4 DEF Owed
  <2>4. i \notin DOMAIN transcript
    BY <1>1, <1>2, <2>2, <2>3, Added DEF StreamSays, Owed
  <2>5. transcript'[i] = m
    BY <1>1, <2>4, Added DEF StreamSays
  <2>6. QED
    BY <2>2, <2>5
<1>6. QED
  BY <1>1, <1>3, <1>5 DEF StreamSays, Conv!Complete

\* Every step keeps what is owed.
LEMMA NextOwed ==
  ASSUME TypeOK, TypeOK', ExecInv, ToolInv, AnswersInv, EndControl, ConvInv, [Next]_vars
  PROVE  OwedInv'
<1>0. Orderly /\ OwedInv /\ OpenInv
  BY DEF ConvInv
<1>1. CASE Streams
  <2>1. pc' = "response"
    BY <1>1 DEF Streams, StreamDone, LoopEmits
  <2>2. /\ Owed' \subseteq BatchCalls'
        /\ response' \in {"error", "aborted"} => Owed' = {}
    BY <1>0, <1>1, StreamOwes
  <2>3. \A c \in Owed' : c \in BatchCalls' /\ phase'[c] # "none"
    BY <1>1, <2>2, StreamKnows DEF Owed
  <2>4. QED
    BY <2>1, <2>2, <2>3 DEF OwedInv, DebtLabel, FixLabel, BatchLabel
<1>2. CASE ~Streams
  <2>1. Owed' \subseteq Owed /\ UNCHANGED <<batch, response>> /\ BatchCalls' = BatchCalls
    BY <1>2, OwedShrinks, BatchStays DEF Streams, BatchCalls, ElementsOf
  <2>2. \A c : Answered(c) => Answered(c)'
    BY SaidStays, AnswersStay
  <2>3. \A c \in Owed' : c \in BatchCalls' /\ phase'[c] # "none"
    <3>1. CASE \E ps, skip : StartRun(ps, skip)
      <4>1. pc = "idle"
        BY <3>1 DEF StartRun, EndControl
      <4>2. Owed = {}
        BY <1>0, <4>1 DEF OwedInv, DebtLabel, FixLabel, BatchLabel
      <4>3. QED
        BY <2>1, <4>2
    <3>2. CASE ~\E ps, skip : StartRun(ps, skip)
      BY <1>0, <1>2, <2>1, <3>2, PhaseKnown DEF OwedInv, Owed, Streams
    <3>3. QED
      BY <3>1, <3>2
  <2>4. ASSUME pc' \notin DebtLabel PROVE Owed' = {}
    <3>1. CASE pc \notin DebtLabel
      BY <1>0, <2>1, <3>1 DEF OwedInv
    <3>2. CASE ResponseFailed
      BY <1>0, <2>1, <3>2 DEF OwedInv, ResponseFailed, At
    <3>3. CASE NoCalls
      BY <1>0, <2>1, <3>3 DEF OwedInv, NoCalls, BatchCalls, ElementsOf
    <3>4. CASE BatchDone
      <4>1. pc \in BatchLabel /\ next > Len(batch) /\ (InParallel => pc = "result")
        BY <3>4 DEF BatchDone, At, BatchLabel
      <4>2. \A i \in DOMAIN batch : Said(i)
        BY <4>1, LenProperties DEF Said, TypeOK, BatchType
      <4>3. \A i \in DOMAIN batch : Answered(batch[i])
        BY <1>0, <4>1, <4>2 DEF OwedInv
      <4>4. \A c \in BatchCalls : Answered(c)
        BY <4>3 DEF BatchCalls, ElementsOf
      <4>5. QED
        BY <1>0, <2>1, <4>4 DEF OwedInv, Owed
    <3>5. CASE FailStart
      BY <1>0, <2>1, <3>5 DEF OwedInv, FailStart, At, FixLabel
    <3>6. QED
      BY <2>4, <3>1, <3>2, <3>3, <3>4, <3>5, SettledFlow
  <2>5. ASSUME pc' = "response", response' \in {"error", "aborted"} PROVE Owed' = {}
    <3>1. ~BatchSteps /\ ~PlanBatch
      BY <2>5 DEF BatchSteps, CallStart, CallFailed, CallAborted, CallImmediate, EndsAtOnce,
       CallPrepares, CallPrepared, SequentialExecute, SequentialReturn, ParallelExecute, Join,
       JoinThrows, ResultStart, ResultEnd, BatchDone, CallsLimited, PrepareNextTurnThrows,
       PollSteering, Ends, LoopEmits, GoTo, PlanBatch
    <3>2. pc = "response"
      BY <1>2, <2>5, <3>1, Positions DEF Streams
    <3>3. QED
      BY <1>0, <2>1, <2>5, <3>2 DEF OwedInv
  <2>6. ASSUME pc' \in BatchLabel, NEW i \in DOMAIN batch, Said(i)',
              NEW c, c = batch[i]
       PROVE  Answered(c)'
    <3>1. CASE Said(i) /\ pc \in BatchLabel
      BY <1>0, <2>2, <2>6, <3>1 DEF OwedInv
    <3>2. CASE ResultEnd /\ i = next
      <4>1. PICK m : SaysBatched(m)
        BY <3>2, BatchSays
      <4>2. m.call = c
        BY <2>6, <3>2, <4>1 DEF SaysBatched, Current
      <4>3. Answered(m.call)'
        BY <4>1, ResultAnswers DEF SaysBatched
      <4>4. QED
        BY <4>2, <4>3
    <3>3. QED
      BY <2>6, <3>1, <3>2, SaidFlow
  <2>7. ASSUME pc' \in FixLabel, NEW c \in Owed' PROVE \E m \in fixups' : m.call = c
    <3>0. c \in Owed /\ c \in Call /\ phase[c] # "none" /\ ~Answered(c)'
      BY <1>0, <2>1 DEF OwedInv, Owed
    <3>1. CASE SynthesizeResults
      <4>1. fixups' = {Result(d, phase[d]) : d \in Unmatched}
        BY <3>1 DEF SynthesizeResults
      <4>2. c \in Unmatched
        BY <1>0, <2>2, <3>0 DEF Unmatched, Orderly
      <4>3. Result(c, phase[c]).call = c
        BY DEF Result
      <4>4. QED
        BY <4>1, <4>2, <4>3
    <3>2. CASE \E m \in fixups : FixStart(m)
      BY <1>0, <3>0, <3>2 DEF OwedInv, FixStart, At, LoopKeeps, failVars, FixLabel
    <3>3. CASE \E m \in fixups : FixEnd(m)
      <4>1. PICK m \in fixups : FixEnd(m)
        BY <3>3
      <4>2. fixups' = fixups \ {m} /\ pc = "fixEnd"
        BY <4>1 DEF FixEnd, At
      <4>3. PICK n \in fixups : n.call = c
        BY <1>0, <3>0, <4>2 DEF OwedInv, FixLabel
      <4>4. Answered(m.call)'
        BY <4>1, FixSays, ResultAnswers DEF SaysFixed
      <4>5. n # m
        BY <3>0, <4>3, <4>4
      <4>6. QED
        BY <4>2, <4>3, <4>5
    <3>4. CASE UNCHANGED <<pc, fixups, executed>>
      BY <1>0, <2>7, <3>0, <3>4 DEF OwedInv
    <3>5. QED
      BY <2>7, <3>1, <3>2, <3>3, <3>4, FixPositions DEF FixLabel
  <2>8. QED
    BY <2>1, <2>3, <2>4, <2>5, <2>6, <2>7 DEF OwedInv
<1>3. QED
  BY <1>1, <1>2

\* In a batch, a result that was said stays with the listeners until they accepted it.
LEMMA AcceptedStays ==
  ASSUME TypeOK, ToolInv, [Next]_vars, pc \in BatchLabel, pc' \in BatchLabel, NEW c \in Call,
         c \in resulted \/ SaysResult(c)
  PROVE  c \in resulted' \/ SaysResult(c)'
<1>0. out \in [Coroutine -> Emission] /\ Loop \in Coroutine /\ Loop \notin Call
  BY Coroutines DEF TypeOK, EmitType
<1>1. CASE UserStep \/ UNCHANGED vars
  BY <1>1, UserDoes DEF StartRun, Outside, Abort, emitVars, SaysResult, Emits, vars, BatchLabel
<1>2. CASE ToolStep
  <2>1. UNCHANGED resulted /\ out'[Loop] = out[Loop]
    BY <1>0, <1>2 DEF ToolStep, ParallelReturn, ToolsEmitEnd
  <2>2. QED
    BY <2>1 DEF SaysResult, Emits
<1>3. CASE ListenerStep
  <2>1. PICK co \in Coroutine :
          Commit(co) \/ Throw(co) \/ \E l \in Listener : Skip(co, l) \/ Deliver(co, l) \/ Fail(co, l)
    BY <1>3 DEF ListenerStep
  <2>2. CASE \E l \in Listener : Skip(co, l) \/ Deliver(co, l) \/ Fail(co, l)
    <3>1. UNCHANGED resulted /\ \E l, f : out' = [out EXCEPT ![co] = Awaited(@, l, f)]
      BY <2>2 DEF Skip, Deliver, Fail
    <3>2. out'[Loop].ev = out[Loop].ev
      BY <1>0, <3>1 DEF Awaited, Emission
    <3>3. QED
      BY <3>1, <3>2 DEF SaysResult, Emits
  <2>3. CASE Commit(co)
    <3>1. /\ out' = [out EXCEPT ![co] = Quiet]
          /\ resulted' = IF out[co].ev.type = "message_end" /\ out[co].ev.msg.role = "toolResult"
                         THEN resulted \cup {out[co].ev.msg.call} ELSE resulted
      BY <2>3 DEF Commit
    <3>2. CASE co = Loop
      BY <3>1, <3>2 DEF SaysResult, Emits
    <3>3. CASE co # Loop
      BY <1>0, <3>1, <3>3 DEF SaysResult, Emits
    <3>4. QED
      BY <3>2, <3>3
  <2>4. CASE Throw(co)
    <3>1. co # Loop
      BY <1>0, <2>4 DEF Throw, BatchLabel, SafeLabel
    <3>2. UNCHANGED resulted /\ out'[Loop] = out[Loop]
      BY <1>0, <2>4, <3>1 DEF Throw
    <3>3. QED
      BY <3>2 DEF SaysResult, Emits
  <2>5. QED
    BY <2>1, <2>2, <2>3, <2>4
<1>4. CASE LoopStep
  <2>1. IsQuiet(Loop)
    BY <1>4 DEF LoopStep, RunSteps, RunStarted, PromptStart, PromptEnd, InitialPoll,
     TurnAborted, TurnsLimited, FirstTurn, NextTurn, FollowUps, NoFollowUps, InjectStart,
     InjectEnd, StreamSteps, StreamStart, StreamThrows, StreamDone, ResponseFailed,
     FailedTurn, NoCalls, PlanBatch, BatchSteps, CallStart, CallFailed, CallAborted,
     CallImmediate, CallPrepares, CallPrepared, SequentialExecute, SequentialReturn,
     ParallelExecute, Join, JoinThrows, ResultStart, ResultEnd, BatchDone, CallsLimited,
     PrepareNextTurnThrows, PollSteering, FailureSteps, Catch, SynthesizeResults, FixStart,
     FixEnd, FailStart, FailEnd, FailTurn, FailAgent, FinishRun, At
  <2>2. c \in resulted
    BY <2>1 DEF SaysResult, Emits, IsQuiet
  <2>3. ~\E ps, skip : StartRun(ps, skip)
    BY DEF StartRun, BatchLabel
  <2>4. QED
    BY <2>2, <2>3, ResultedStays
<1>5. QED
  BY <1>1, <1>2, <1>3, <1>4 DEF Next

\* The batch stays open until a prompt, another response or the failure is said.
LEMMA OpenKept ==
  ASSUME TypeOK, AnswersInv, [Next]_vars, ~Streams, Open, pc \notin {"promptEnd", "injectEnd"},
         pc' # "failTurn"
  PROVE  Open'
<1>1. PICK p : OpenAt(p)
  BY DEF Open
<1>2. UNCHANGED batch
  BY BatchStays DEF Streams
<1>3. \/ UNCHANGED transcript
      \/ \E m : m.role = "toolResult" /\ (Adds(m) \/ \E j : Replaces(j, m))
  BY StepSays DEF SaysPlainly, SaysBatched, SaysFixed
<1>4. OpenAt(p)'
  BY <1>1, <1>2, <1>3, OpenStays
<1>5. QED
  BY <1>4 DEF Open

\* A run that is reported as failed only ends.
LEMMA FailedFlow ==
  ASSUME EndControl, [Next]_vars, pc \in FailedLabel
  PROVE  pc' \in FailedLabel \/ \E ps, skip : StartRun(ps, skip)
<1>1. CASE UserStep
  BY <1>1, UserDoes DEF Outside, Abort
<1>2. CASE ListenerStep \/ ToolStep \/ UNCHANGED vars
  <2>1. ASSUME NEW co, co \notin Call, co \in Coroutine, Throw(co) PROVE pc \in SafeLabel
    BY <2>1 DEF Throw, Coroutine, EndControl, FailedLabel, SafeLabel
  <2>2. QED
    BY <1>2, <2>1 DEF ListenerStep, Skip, Deliver, Fail, Commit, Throw, ToolStep,
       ParallelReturn, vars
<1>3. CASE RunSteps \/ StreamSteps
  BY <1>3 DEF RunSteps, RunStarted, PromptStart, PromptEnd, InitialPoll, TurnAborted,
     TurnsLimited, FirstTurn, NextTurn, FollowUps, NoFollowUps, InjectStart, InjectEnd,
     StreamSteps, StreamStart, StreamThrows, StreamDone, ResponseFailed, FailedTurn, NoCalls,
     PlanBatch, At, FailedLabel
<1>4. CASE BatchSteps
  BY <1>4 DEF BatchSteps, CallStart, CallFailed, CallAborted, CallImmediate,
     CallPrepares, CallPrepared, SequentialExecute, SequentialReturn, ParallelExecute, Join,
     JoinThrows, ResultStart, ResultEnd, BatchDone, CallsLimited, PrepareNextTurnThrows,
     PollSteering, At, FailedLabel
<1>5. CASE FailureSteps
  BY <1>5 DEF FailureSteps, Catch, SynthesizeResults, FixStart, FixEnd, FailStart, FailEnd,
     FailTurn, FailAgent, FinishRun, At, LoopEmits, GoTo, FailedLabel
<1>6. QED
  BY <1>1, <1>2, <1>3, <1>4, <1>5 DEF Next, LoopStep

\* The loop comes to its turns from a new run, a response without calls, or a whole batch.
LEMMA TurnFlow ==
  ASSUME [Next]_vars, pc' \in SettledLabel
  PROVE  pc \in SettledLabel \/ NoCalls \/ BatchDone \/ \E ps, skip : StartRun(ps, skip)
<1>1. CASE UserStep
  BY <1>1, UserDoes DEF Outside, Abort
<1>2. CASE ListenerStep \/ ToolStep \/ UNCHANGED vars
  <2>1. pc' = pc \/ pc' = "catchFatal"
    BY <1>2 DEF ListenerStep, Skip, Deliver, Fail, Commit, Throw, ToolStep, ParallelReturn, vars
  <2>2. QED
    BY <2>1 DEF SettledLabel, PromptLabel, TurnLabel
<1>3. CASE RunSteps \/ StreamSteps
  BY <1>3 DEF RunSteps, RunStarted, PromptStart, PromptEnd, InitialPoll, TurnAborted,
     TurnsLimited, FirstTurn, NextTurn, FollowUps, NoFollowUps, InjectStart, InjectEnd,
     StreamSteps, StreamStart, StreamThrows, StreamDone, ResponseFailed, FailedTurn,
     PlanBatch, At, Ends, LoopEmits, GoTo, SettledLabel, PromptLabel, TurnLabel
<1>4. CASE BatchSteps
  BY <1>4 DEF BatchSteps, CallStart, CallFailed, CallAborted, CallImmediate, EndsAtOnce,
     CallPrepares, CallPrepared, SequentialExecute, SequentialReturn, ParallelExecute, Join,
     JoinThrows, ResultStart, ResultEnd, CallsLimited, PrepareNextTurnThrows,
     PollSteering, At, Ends, LoopEmits, GoTo, SettledLabel, PromptLabel, TurnLabel
<1>5. CASE FailureSteps
  BY <1>5 DEF FailureSteps, Catch, SynthesizeResults, FixStart, FixEnd, FailStart, FailEnd,
     FailTurn, FailAgent, FinishRun, LoopEmits, GoTo, SettledLabel, PromptLabel, TurnLabel
<1>6. QED
  BY <1>1, <1>2, <1>3, <1>4, <1>5 DEF Next, LoopStep

\* A response opens its batch.
LEMMA OpenStream ==
  ASSUME TypeOK, ConvInv, Streams PROVE OpenInv'
<1>1. PICK n \in 0 .. MaxBatch, s \in Stop : StreamDone(n, s)
  BY DEF Streams
<1>2. pc' = "response" /\ UNCHANGED resulted /\ pc = "streaming"
  BY <1>1 DEF StreamDone, At, LoopEmits, LoopFrame
<1>3. PICK m : StreamSays(m)
  BY StreamsSay
<1>4. Open'
  <2>1. PICK p : p = Len(transcript) + 1
    OBVIOUS
  <2>2. /\ Len(transcript) \in Nat /\ Len(transcript') = p /\ DOMAIN transcript' = 1 .. p
        /\ transcript'[p] = m /\ m.role = "assistant" /\ m.calls = batch'
    BY <1>3, <2>1, Added DEF StreamSays
  <2>3. p \in DOMAIN transcript' /\ \A j \in p + 1 .. Len(transcript') : FALSE
    BY <2>1, <2>2
  <2>4. OpenAt(p)'
    BY <2>2, <2>3 DEF OpenAt, Conv!Recent
  <2>5. QED
    BY <2>4 DEF Open
<1>5. Unmatched = {}
  BY <1>2 DEF ConvInv, OpenInv, SettledLabel, TurnLabel
<1>6. Unmatched' \subseteq BatchCalls'
  <2>1. \A c \in Call : phase'[c] # "none" => phase[c] # "none" \/ c \in BatchCalls'
    BY <1>1, NewCalls
  <2>2. QED
    BY <1>2, <1>5, <2>1 DEF Unmatched
<1>7. QED
  BY <1>2, <1>4, <1>6 DEF OpenInv, BatchLabel, SettledLabel, PromptLabel, TurnLabel, FixLabel

\* Every step keeps track of the open batch.
LEMMA NextOpen ==
  ASSUME TypeOK, TypeOK', ExecInv, ToolInv, AnswersInv, EndControl, ConvInv, [Next]_vars,
         ~Streams
  PROVE  OpenInv'
<1>0. Orderly /\ OwedInv /\ OpenInv
  BY DEF ConvInv
<1>1. Unmatched' \subseteq Unmatched /\ UNCHANGED batch /\ BatchCalls' = BatchCalls
  BY UnmatchedShrinks, BatchStays DEF Streams, BatchCalls, ElementsOf
<1>2. \A c : Answered(c) => Answered(c)'
  BY SaidStays, AnswersStay
<1>3. ASSUME pc' \in {"response"} \cup BatchLabel PROVE Open'
  <2>1. BatchSteps => pc' # "response"
    BY DEF BatchSteps, CallStart, CallFailed, CallAborted, CallImmediate, EndsAtOnce,
       CallPrepares, CallPrepared, SequentialExecute, SequentialReturn, ParallelExecute, Join,
       JoinThrows, ResultStart, ResultEnd, BatchDone, CallsLimited, PrepareNextTurnThrows,
       PollSteering, Ends, LoopEmits, GoTo
  <2>2. PlanBatch => pc = "response"
    BY DEF PlanBatch, At
  <2>3. pc \in {"response"} \cup BatchLabel
    BY <1>3, <2>1, <2>2, Positions, BatchForward DEF Streams
  <2>4. QED
    BY <1>0, <1>3, <2>3, OpenKept DEF OpenInv, BatchLabel
<1>4. ASSUME pc' \notin FailedLabel, Unmatched' # {} PROVE Open' /\ Unmatched' \subseteq BatchCalls'
  <2>1. ~\E ps, skip : StartRun(ps, skip)
    BY <1>4 DEF StartRun, Unmatched
  <2>2. pc \notin FailedLabel /\ Unmatched # {}
    BY <1>1, <1>4, <2>1, FailedFlow
  <2>3. Open /\ Unmatched \subseteq BatchCalls /\ pc \notin {"promptEnd", "injectEnd"}
    BY <1>0, <2>2 DEF OpenInv, SettledLabel, PromptLabel, TurnLabel
  <2>4. QED
    BY <1>1, <1>4, <2>3, OpenKept DEF FailedLabel
<1>5. ASSUME pc' \in BatchLabel, NEW i \in DOMAIN batch, Said(i)', NEW c, c = batch[i]
      PROVE  c \in resulted' \/ SaysResult(c)'
  <2>1. c \in Call
    BY <1>5 DEF TypeOK, BatchType
  <2>2. CASE Said(i) /\ pc \in BatchLabel
    BY <1>0, <1>5, <2>1, <2>2, AcceptedStays DEF OpenInv
  <2>3. CASE ResultEnd /\ i = next
    <3> DEFINE m == Result(Current, outcome[Current])
    <3>1. m.call = c /\ m.role = "toolResult"
      BY <1>5, <2>3 DEF Result, Current
    <3>2. out'[Loop].ev = MessageEnd(m)
      BY <2>3, Coroutines DEF ResultEnd, LoopEmits, Emitting, TypeOK, EmitType
    <3>3. MessageEnd(m).type = "message_end" /\ MessageEnd(m).msg = m
      BY DEF MessageEnd, Plain
    <3>4. QED
      BY <3>1, <3>2, <3>3 DEF SaysResult, Emits
  <2>4. QED
    BY <1>5, <2>2, <2>3, SaidFlow
<1>6. ASSUME pc' \in SettledLabel PROVE Unmatched' = {}
  <2>1. CASE pc \in SettledLabel
    BY <1>0, <1>1, <2>1 DEF OpenInv
  <2>2. CASE NoCalls
    BY <1>0, <1>1, <2>2 DEF OpenInv, NoCalls, At, BatchCalls, ElementsOf, FailedLabel
  <2>3. CASE BatchDone
    <3>1. pc \in BatchLabel /\ next > Len(batch) /\ (InParallel => pc = "result") /\ IsQuiet(Loop)
      BY <2>3 DEF BatchDone, At, BatchLabel
    <3>2. \A i \in DOMAIN batch : Said(i)
      BY <3>1, LenProperties DEF Said, TypeOK, BatchType
    <3>3. \A i \in DOMAIN batch : batch[i] \in resulted
      BY <1>0, <3>1, <3>2 DEF OpenInv, SaysResult, Emits, IsQuiet
    <3>4. \A c \in BatchCalls : c \in resulted
      BY <3>3 DEF BatchCalls, ElementsOf
    <3>5. Unmatched \subseteq BatchCalls
      BY <1>0, <3>1 DEF OpenInv, FailedLabel, BatchLabel
    <3>6. QED
      BY <1>1, <3>4, <3>5 DEF Unmatched
  <2>4. CASE \E ps, skip : StartRun(ps, skip)
    BY <2>4 DEF StartRun, Unmatched
  <2>5. QED
    BY <1>6, <2>1, <2>2, <2>3, <2>4, TurnFlow
<1>7. ASSUME pc' \in FixLabel, fixups' # {}
      PROVE  /\ Open' /\ \A m \in fixups' : m.call \in BatchCalls
             /\ \A c \in BatchCalls : Answered(c)' \/ \E m \in fixups' : m.call = c
  <2>1. CASE SynthesizeResults
    <3>1. fixups' = {Result(c, phase[c]) : c \in Unmatched} /\ pc = "unmatched" /\ pc' = "fix"
      BY <2>1 DEF SynthesizeResults, At, GoTo
    <3>2. \A c, o : Result(c, o).call = c
      BY DEF Result
    <3>3. PICK d : d \in Unmatched
      BY <1>7, <3>1
    <3>4. Open /\ Unmatched \subseteq BatchCalls
      BY <1>0, <3>1, <3>3 DEF OpenInv, FailedLabel
    <3>5. Open'
      BY <3>1, <3>4, OpenKept
    <3>6. \A c \in BatchCalls : c \in Call /\ phase[c] # "none"
      BY <1>0, <3>3, <3>4 DEF Orderly, Unmatched, BatchCalls, ElementsOf, TypeOK, BatchType
    <3>7. \A c \in BatchCalls : Answered(c)' \/ c \in Unmatched
      BY <1>0, <1>2, <3>6 DEF Orderly, Unmatched
    <3>8. QED
      BY <3>1, <3>2, <3>4, <3>5, <3>7
  <2>2. CASE pc \in FixLabel /\ (fixups' = fixups \/ \E m \in fixups : FixEnd(m))
    <3>1. fixups' \subseteq fixups
      BY <2>2 DEF FixEnd
    <3>2. /\ Open /\ \A m \in fixups : m.call \in BatchCalls
          /\ \A c \in BatchCalls : Answered(c) \/ \E m \in fixups : m.call = c
      BY <1>0, <1>7, <2>2, <3>1 DEF OpenInv
    <3>3. Open'
      BY <1>7, <2>2, <3>2, OpenKept DEF FixLabel
    <3>4. \A n \in fixups : n \in fixups' \/ Answered(n.call)'
      <4>1. CASE fixups' = fixups
        BY <4>1
      <4>2. CASE \E m \in fixups : FixEnd(m)
        <5>1. PICK m \in fixups : FixEnd(m)
          BY <4>2
        <5>2. Answered(m.call)' /\ fixups' = fixups \ {m}
          BY <5>1, FixSays, ResultAnswers DEF SaysFixed, FixEnd
        <5>3. QED
          BY <5>2
      <4>3. QED
        BY <2>2, <4>1, <4>2
    <3>5. \A c \in BatchCalls : Answered(c)' \/ \E m \in fixups' : m.call = c
      BY <1>2, <3>2, <3>4
    <3>6. QED
      BY <3>1, <3>2, <3>3, <3>5
  <2>3. CASE \E m \in fixups : FixStart(m)
    BY <2>2, <2>3 DEF FixStart, At, LoopKeeps, failVars, FixLabel
  <2>4. CASE \E m \in fixups : FixEnd(m)
    BY <2>2, <2>4 DEF FixEnd, At, FixLabel
  <2>5. CASE UNCHANGED <<pc, fixups, executed>>
    BY <1>7, <2>2, <2>5
  <2>6. QED
    BY <1>7, <2>1, <2>3, <2>4, <2>5, FixPositions DEF FixLabel
<1>8. QED
  BY <1>1, <1>3, <1>4, <1>5, <1>6, <1>7 DEF OpenInv

\* Nothing is owed to an empty transcript.
LEMMA InitConv == Init => ConvInv
<1> SUFFICES ASSUME Init PROVE ConvInv
  OBVIOUS
<1>1. /\ transcript = <<>> /\ batch = <<>> /\ pc = "idle" /\ resulted = {}
      /\ phase = [c \in Call |-> "none"] /\ out = [co \in Coroutine |-> Quiet]
  BY DEF Init
<1>2. Owed = {} /\ Unmatched = {}
  BY <1>1 DEF Owed, Unmatched
<1>3. out[Loop].ev.type = "none"
  BY <1>1, Coroutines DEF Quiet, Plain
<1>4. Orderly
  BY <1>1, <1>3 DEF Orderly, BatchCalls, ElementsOf, SaysResult, Emits
<1>5. OwedInv
  BY <1>1, <1>2 DEF OwedInv, BatchLabel, FixLabel
<1>6. OpenInv
  BY <1>1, <1>2 DEF OpenInv, BatchLabel, FixLabel
<1>7. QED
  BY <1>4, <1>5, <1>6 DEF ConvInv

\* Every step keeps what the promise rests on.
LEMMA NextConv ==
  ASSUME TypeOK, TypeOK', ExecInv, ToolInv, AnswersInv, EndControl, ConvInv, [Next]_vars
  PROVE  ConvInv'
<1>1. Orderly'
  BY NextOrderly DEF ConvInv
<1>2. OwedInv'
  BY NextOwed
<1>3. OpenInv'
  BY OpenStream, NextOpen
<1>4. QED
  BY <1>1, <1>2, <1>3 DEF ConvInv

\* A run begins or ends without a word.
LEMMA RunChanges ==
  ASSUME [Next]_vars
  PROVE  \/ UNCHANGED activeRun
         \/ (\E ps, skip : StartRun(ps, skip)) /\ UNCHANGED transcript
         \/ FinishRun /\ UNCHANGED transcript
<1>1. CASE UserStep
  BY <1>1, UserDoes DEF StartRun, Outside, Abort, runVars
<1>2. CASE ListenerStep \/ ToolStep \/ UNCHANGED vars
  BY <1>2 DEF ListenerStep, Skip, Deliver, Fail, Commit, Throw, ToolStep, ParallelReturn, runVars,
     vars
<1>3. CASE RunSteps \/ StreamSteps
  BY <1>3 DEF RunSteps, RunStarted, PromptStart, PromptEnd, InitialPoll, TurnAborted,
     TurnsLimited, FirstTurn, NextTurn, FollowUps, NoFollowUps, InjectStart, InjectEnd,
     StreamSteps, StreamStart, StreamThrows, StreamDone, ResponseFailed, FailedTurn, NoCalls,
     PlanBatch, Ends, LoopKeeps, LoopFrame, runVars
<1>4. CASE BatchSteps
  BY <1>4 DEF BatchSteps, CallStart, CallFailed, CallAborted, CallImmediate, EndsAtOnce,
     CallPrepares, CallPrepared, SequentialExecute, SequentialReturn, ParallelExecute, Join,
     JoinThrows, ResultStart, ResultEnd, BatchDone, CallsLimited, PrepareNextTurnThrows,
     PollSteering, Ends, LoopKeeps, LoopFrame, runVars
<1>5. CASE FailureSteps
  BY <1>5 DEF FailureSteps, Catch, SynthesizeResults, FixStart, FixEnd, FailStart, FailEnd,
     FailTurn, FailAgent, FinishRun, LoopKeeps, LoopFrame, runVars
<1>6. QED
  BY <1>1, <1>2, <1>3, <1>4, <1>5 DEF Next, LoopStep

\* No answer is due where none is owed.
LEMMA NoneOwing ==
  ASSUME TypeOK, Owed = {} PROVE ~Conv!Owing
<1> SUFFICES ASSUME NEW i \in DOMAIN transcript, Conv!Complete(transcript[i]),
                    NEW k \in DOMAIN transcript[i].calls, Conv!Due(i, k)
             PROVE  FALSE
  BY DEF Conv!Owing
<1>1. transcript[i].calls[k] \in Call
  BY DEF TypeOK, EmitType, Message
<1>2. ~Answered(transcript[i].calls[k])
  BY DEF Conv!Due, Conv!Answered, Answered
<1>3. QED
  BY <1>1, <1>2 DEF Owed, CallsOf

\* A message that is added makes the conversation grow by it.
LEMMA AddedGrows ==
  ASSUME TypeOK, NEW m, Adds(m) PROVE Conv!Grows /\ Conv!Added = m
<1>1. transcript \in Seq(Message) /\ transcript' = Append(transcript, m)
  BY DEF TypeOK, EmitType, Adds
<1>2. /\ Len(transcript) \in Nat /\ Len(transcript') = Len(transcript) + 1
      /\ transcript'[Len(transcript) + 1] = m
  BY Added
<1>3. SubSeq(transcript', 1, Len(transcript)) = transcript
  BY <1>1
<1>4. QED
  BY <1>2, <1>3 DEF Conv!Grows, Conv!Added

\* In a batch the next answer is due; when results are made up, the first of them is.
LEMMA DueCalls ==
  ASSUME TypeOK, ConvInv, NEW p, OpenAt(p), NEW k \in DOMAIN batch, ~Answered(batch[k]),
         \/ pc = "resultEnd" /\ k = next
         \/ pc = "fixEnd" /\ \E m \in fixups : FirstFix(m) /\ m.call = batch[k]
  PROVE  Conv!Due(p, k) /\ batch[k] \in CallsOf(transcript[p])
<1>0. k \in Nat /\ DOMAIN batch = 1 .. Len(batch) /\ Len(batch) \in Nat /\ batch \in Seq(Call)
  BY LenProperties DEF TypeOK, BatchType
<1>1. ASSUME NEW h \in 1 .. k - 1 PROVE Answered(batch[h])
  <2>1. h \in DOMAIN batch /\ h < k
    BY <1>0
  <2>2. CASE pc = "resultEnd" /\ k = next
    BY <2>1, <2>2 DEF ConvInv, OwedInv, BatchLabel, Said
  <2>3. ASSUME pc = "fixEnd", NEW m \in fixups, FirstFix(m), m.call = batch[k]
        PROVE  Answered(batch[h])
    <3>1. batch[h] \in BatchCalls /\ batch[h] \in Nat /\ batch[k] \in Nat /\ batch[h] < batch[k]
      <4>1. batch[h] \in Call /\ batch[k] \in Call
        BY <1>0, <2>1
      <4>2. batch[h] \in BatchCalls /\ batch[h] < batch[k]
        BY <2>1 DEF BatchCalls, ElementsOf, ConvInv, Orderly
      <4>3. Call \subseteq Nat
        BY DEF Call
      <4>4. QED
        BY <4>1, <4>2, <4>3
    <3>2. \A n \in fixups : n.call # batch[h]
      BY <2>3, <3>1 DEF FirstFix
    <3>3. QED
      BY <2>3, <3>1, <3>2 DEF ConvInv, OpenInv, FixLabel
  <2>4. QED
    BY <2>2, <2>3
<1>2. \A c : Conv!Answered(c) <=> Answered(c)
  BY DEF Conv!Answered, Answered
<1>3. QED
  BY <1>1, <1>2 DEF OpenAt, Conv!Due, CallsOf

\* Every step of a run is one of a conversation.
LEMMA StepConverses ==
  ASSUME TypeOK, TypeOK', AnswersInv, EndControl, ConvInv, [Next]_vars
  PROVE  [Conv!Next]_<<transcript, activeRun # 0>>
<1>0. Orderly /\ OwedInv /\ OpenInv
  BY DEF ConvInv
<1>1. CASE \E ps, skip : StartRun(ps, skip)
  <2>1. activeRun = 0 /\ activeRun' = runs + 1 /\ runs \in Nat /\ UNCHANGED transcript
    BY <1>1 DEF StartRun, TypeOK, RunType, Run
  <2>2. Conv!Begin
    BY <2>1 DEF Conv!Begin
  <2>3. QED
    BY <2>2 DEF Conv!Next
<1>2. CASE FinishRun /\ UNCHANGED transcript
  <2>1. pc \in {"ended", "failEnded"} /\ activeRun' = 0
    BY <1>2 DEF FinishRun
  <2>2. activeRun # 0 /\ ~Conv!Owing
    BY <1>0, <2>1, NoneOwing DEF EndControl, OwedInv, DebtLabel, FixLabel, BatchLabel
  <2>3. Conv!End
    BY <1>2, <2>1, <2>2 DEF Conv!End
  <2>4. QED
    BY <2>3 DEF Conv!Next
<1>3. CASE UNCHANGED activeRun
  <2>1. CASE UNCHANGED transcript
    BY <1>3, <2>1
  <2>2. ASSUME NEW m, Adds(m), m.role # "toolResult", pc # "idle", pc \notin DebtLabel
        PROVE  Conv!Next
    <3>1. activeRun # 0 /\ ~Conv!Owing
      BY <1>0, <2>2, NoneOwing DEF EndControl, OwedInv
    <3>2. Conv!Speak
      BY <1>3, <2>2, <3>1, AddedGrows DEF Conv!Speak
    <3>3. QED
      BY <3>2 DEF Conv!Next
  <2>3. ASSUME NEW m, Adds(m), m.role = "toolResult", pc # "idle",
               NEW p, OpenAt(p), NEW k \in DOMAIN batch, Conv!Due(p, k), m.call = batch[k]
        PROVE  Conv!Next
    <3>1. p \in DOMAIN transcript /\ Conv!Recent(p) /\ transcript[p].calls = batch
      BY <2>3 DEF OpenAt
    <3>2. activeRun # 0
      BY <2>3 DEF EndControl
    <3>3. Conv!Answer
      BY <1>3, <2>3, <3>1, <3>2, AddedGrows DEF Conv!Answer
    <3>4. QED
      BY <3>3 DEF Conv!Next
  <2>4. CASE Streams \/ \E m : SaysPlainly(m)
    BY <2>2, <2>4, StreamsSay DEF StreamSays, SaysPlainly, DebtLabel, FixLabel, BatchLabel
  <2>5. CASE \E m : SaysBatched(m)
    <3>1. PICK m : SaysBatched(m)
      BY <2>5
    <3>2. pc = "resultEnd" /\ next \in DOMAIN batch /\ Current = batch[next]
      BY <3>1, CurrentCall DEF SaysBatched, ResultEnd, At, TypeOK, ControlOK, Current
    <3>3. PICK p : OpenAt(p)
      BY <1>0, <3>2 DEF OpenInv, BatchLabel, Open
    <3>4. Conv!Due(p, next)
      BY <3>1, <3>2, <3>3, DueCalls DEF SaysBatched
    <3>5. QED
      BY <2>3, <3>1, <3>2, <3>3, <3>4 DEF SaysBatched
  <2>6. CASE \E m : SaysFixed(m)
    <3>1. PICK m : SaysFixed(m)
      BY <2>6
    <3>2. pc = "fixEnd" /\ FirstFix(m) /\ m \in fixups
      BY <3>1 DEF SaysFixed, FixEnd, At
    <3>3. Open /\ m.call \in BatchCalls
      BY <1>0, <3>2 DEF OpenInv, FixLabel
    <3>4. PICK p : OpenAt(p)
      BY <3>3 DEF Open
    <3>5. PICK k \in DOMAIN batch : batch[k] = m.call
      BY <3>3 DEF BatchCalls, ElementsOf
    <3>6. CASE Adds(m) /\ ~Answered(m.call)
      <4>1. Conv!Due(p, k)
        BY <3>2, <3>4, <3>5, <3>6, DueCalls
      <4>2. QED
        BY <2>3, <3>1, <3>2, <3>4, <3>5, <3>6, <4>1 DEF SaysFixed
    <3>7. CASE \E j : Replaces(j, m)
      <4>1. PICK j : Replaces(j, m)
        BY <3>7
      <4>2. m.call \in CallsOf(transcript[p]) /\ p \in DOMAIN transcript
        BY <3>4, <3>5 DEF OpenAt, CallsOf
      <4>3. j \in DOMAIN transcript /\ p < j
        BY <1>0, <3>4, <4>1, <4>2 DEF Orderly, OpenAt, Replaces
      <4>4. DOMAIN transcript = 1 .. Len(transcript) /\ Len(transcript) \in Nat
        BY LenProperties DEF TypeOK, EmitType
      <4>5. Conv!Recent(j)
        BY <3>4, <4>2, <4>3, <4>4 DEF OpenAt, Conv!Recent
      <4>6. /\ Len(transcript') = Len(transcript) /\ transcript'[j] = m
            /\ \A i \in DOMAIN transcript \ {j} : transcript'[i] = transcript[i]
        BY <4>1, Replaced
      <4>7. activeRun # 0
        BY <3>2 DEF EndControl
      <4>8. Conv!Amend
        BY <1>3, <4>1, <4>3, <4>5, <4>6, <4>7 DEF Conv!Amend, Replaces
      <4>9. QED
        BY <4>8 DEF Conv!Next
    <3>8. QED
      BY <3>1, <3>6, <3>7 DEF SaysFixed
  <2>7. QED
    BY <2>1, <2>4, <2>5, <2>6, StepSays
<1>4. QED
  BY <1>1, <1>2, <1>3, RunChanges

\* The transcript is a conversation, in every run and whatever the listeners, the tools, the
\* stream and the user do: each call of a complete response is answered once and in order,
\* before anybody speaks again and before the run is over (agent-loop.ts, executeToolCalls
\* and terminalizeFailure; agent.ts, processEvents).
THEOREM RunsConverse == Spec => KeepsConversation
<1> DEFINE Inv == TypeOK /\ ExecInv /\ ToolInv /\ AnswersInv /\ EndControl /\ ConvInv
<1>1. Init => Inv
  BY InitType, InitExec, InitTool, InitAnswers, InitEnd, InitConv DEF EndInv
<1>2. Inv /\ [Next]_vars => Inv'
  <2> SUFFICES ASSUME Inv, [Next]_vars PROVE Inv'
    OBVIOUS
  <2>1. TypeOK' /\ ExecInv' /\ ToolInv' /\ AnswersInv'
    BY NextType, NextExec, NextTool, NextAnswers
  <2>2. EndControl' /\ ConvInv'
    BY <2>1, EndControls, NextConv
  <2>3. QED
    BY <2>1, <2>2
<1>3. Init => Conv!Init
  BY DEF Init, Conv!Init
<1>4. Inv /\ Inv' /\ [Next]_vars => [Conv!Next]_<<transcript, activeRun # 0>>
  BY StepConverses
<1>5. QED
  BY <1>1, <1>2, <1>3, <1>4, PTL DEF Spec, KeepsConversation, Conv!Spec

-----------------------------------------------------------------------------
(* No user message is said twice, and none is lost but in the hands of a run      *)
(* that failed.  Messages are counted where they are: PlacesInv bounds the count, *)
(* HandsInv says when a run may leave something in its hands.                      *)

Times(q, t) == Cardinality({i \in DOMAIN q : q[i] = t})
UserSays(t) == {i \in DOMAIN transcript : transcript[i].role = "user" /\ transcript[i].text = t}

\* Every user message is in one place at most, and one that was not sent in none.
PlacesInv == \A t \in Text : Places(t) <= (IF t <= sent THEN 1 ELSE 0)

EmptyHands == prompts = <<>> /\ pending = <<>>

\* The run that is over, or about to be, is reported as failed or limited.
EndsBadly ==
  IF IsQuiet(Loop)
  THEN termination \in {"error", "limit"} \/ (termination = "none" /\ critical[activeRun])
  ELSE out[Loop].ev.reason \in {"error", "limit"}

\* The loop takes messages in hand only when it has none, has said them before it asks for
\* a response, and ends with some in hand only if it reports an error or a limit.
HandsInv ==
  /\ pc \in PromptLabel => pending = <<>>
  /\ pc \in TurnLabel \cup BatchLabel \cup {"failedTurn", "catch"} => prompts = <<>>
  /\ pc \in BatchLabel \cup {"streaming", "response", "failedTurn", "turnEnded", "catch"}
     => pending = <<>>
  /\ pc \in SafeLabel \ {"failEnded"} /\ verdict = "aborted" => EmptyHands
  /\ pc \in EndLabel => EmptyHands \/ EndsBadly
  /\ activeRun = 0 => EmptyHands \/ lastTermination \in {"error", "limit"}

\* A message appended counts once more.
LEMMA TimesMore ==
  ASSUME NEW S, NEW q \in Seq(S), NEW x \in S, NEW t
  PROVE  /\ Times(q, t) \in Nat
         /\ Times(Append(q, x), t) = Times(q, t) + (IF x = t THEN 1 ELSE 0)
<1> DEFINE R == {i \in DOMAIN q : q[i] = t}
           P == {i \in DOMAIN Append(q, x) : Append(q, x)[i] = t}
<1>1. IsFiniteSet(R) /\ Cardinality(R) \in Nat
  BY PartFinite
<1>2. /\ Len(q) \in Nat /\ DOMAIN q = 1 .. Len(q)
      /\ DOMAIN Append(q, x) = 1 .. Len(q) + 1
      /\ \A i \in 1 .. Len(q) : Append(q, x)[i] = q[i]
      /\ Append(q, x)[Len(q) + 1] = x
  BY AppendProperties, LenProperties
<1>3. CASE x = t
  <2>1. P = R \cup {Len(q) + 1} /\ Len(q) + 1 \notin R
    BY <1>2, <1>3
  <2>2. QED
    BY <1>1, <1>3, <2>1, FS_AddElement DEF Times
<1>4. CASE x # t
  <2>1. P = R
    BY <1>2, <1>4
  <2>2. Times(Append(q, x), t) = Times(q, t) /\ Times(q, t) \in Nat
    BY <1>1, <2>1 DEF Times
  <2>3. QED
    BY <1>4, <2>2
<1>5. QED
  BY <1>3, <1>4

\* The first of a sequence counts once more than the others.
LEMMA TimesLess ==
  ASSUME NEW S, NEW q \in Seq(S), q # <<>>, NEW t
  PROVE  Times(q, t) = Times(Tail(q), t) + (IF Head(q) = t THEN 1 ELSE 0)
<1> DEFINE R == {i \in DOMAIN Tail(q) : Tail(q)[i] = t}
           P == {i \in DOMAIN q : q[i] = t}
           f == [i \in R |-> i + 1]
<1>1. /\ Len(q) \in Nat \ {0} /\ DOMAIN q = 1 .. Len(q) /\ Tail(q) \in Seq(S)
      /\ DOMAIN Tail(q) = 1 .. Len(q) - 1 /\ Head(q) = q[1]
      /\ \A i \in 1 .. Len(q) - 1 : Tail(q)[i] = q[i + 1]
  BY HeadTailProperties, LenProperties, EmptySeq
<1>2. IsFiniteSet(R) /\ Cardinality(R) \in Nat /\ IsFiniteSet(P) /\ Cardinality(P) \in Nat
  BY <1>1, PartFinite
<1>3. f \in Bijection(R, P \ {1})
  <2>1. f \in [R -> P \ {1}]
    BY <1>1
  <2>2. \A i, j \in R : f[i] = f[j] => i = j
    BY <1>1
  <2>3. \A j \in P \ {1} : \E i \in R : f[i] = j
    <3>1. SUFFICES ASSUME NEW j \in P \ {1} PROVE j - 1 \in R /\ f[j - 1] = j
      OBVIOUS
    <3>2. QED
      BY <1>1
  <2>4. QED
    BY <2>1, <2>2, <2>3, Fun_IsBij
<1>4. Cardinality(P \ {1}) = Cardinality(R)
  BY <1>2, <1>3, FS_Bijection DEF ExistsBijection
<1>5. Cardinality(P \ {1}) = IF 1 \in P THEN Cardinality(P) - 1 ELSE Cardinality(P)
  BY <1>2, FS_RemoveElement
<1>6. 1 \in P <=> Head(q) = t
  BY <1>1
<1>7. Times(Tail(q), t) = Cardinality(R) /\ Times(q, t) = Cardinality(P)
  BY DEF Times
<1> HIDE DEF R, P
<1>8. QED
  BY <1>2, <1>4, <1>5, <1>6, <1>7

\* Nothing counts in an empty sequence, and the one element of a singleton once.
LEMMA TimesFew ==
  /\ \A t : Times(<<>>, t) = 0
  /\ \A t \in Text, x \in Text : Times(<<x>>, t) = IF x = t THEN 1 ELSE 0
<1>1. ASSUME NEW t PROVE Times(<<>>, t) = 0
  <2>1. {i \in DOMAIN <<>> : <<>>[i] = t} = {}
    OBVIOUS
  <2>2. QED
    BY <2>1, FS_EmptySet DEF Times
<1>2. ASSUME NEW t \in Text, NEW x \in Text PROVE Times(<<x>>, t) = IF x = t THEN 1 ELSE 0
  <2>1. {i \in DOMAIN <<x>> : <<x>>[i] = t} = IF x = t THEN {1} ELSE {}
    OBVIOUS
  <2>2. QED
    BY <2>1, FS_EmptySet, FS_Singleton DEF Times
<1>3. QED
  BY <1>1, <1>2

\* A queue that is drained keeps what it does not give.
LEMMA DrainTimes ==
  ASSUME NEW q \in Seq(Text), NEW mode, NEW t \in Text
  PROVE  Times(q, t) = Times(Drained(q, mode), t) + Times(Remaining(q, mode), t)
<1>1. Times(q, t) \in Nat
  <2>1. CASE q = <<>>
    BY <2>1, TimesFew
  <2>2. QED
    BY PartFinite DEF Times
<1>2. CASE mode = "all" \/ q = <<>>
  BY <1>1, <1>2, TimesFew DEF Drained, Remaining
<1>3. CASE ~(mode = "all" \/ q = <<>>)
  <2>1. Head(q) \in Text /\ Tail(q) \in Seq(Text)
    BY <1>3, HeadTailProperties
  <2>2. Times(Tail(q), t) \in Nat
    BY <2>1, PartFinite DEF Times
  <2>3. QED
    BY <1>3, <2>1, <2>2, TimesLess, TimesFew DEF Drained, Remaining
<1>4. QED
  BY <1>2, <1>3

\* What a sequence holds counts in it, and only that.
LEMMA TimesElement ==
  ASSUME NEW q \in Seq(Text), NEW t PROVE Times(q, t) = 0 <=> t \notin ElementsOf(q)
<1> DEFINE R == {i \in DOMAIN q : q[i] = t}
<1>1. IsFiniteSet(R)
  BY PartFinite
<1>2. R = {} <=> t \notin ElementsOf(q)
  BY DEF ElementsOf
<1>3. QED
  BY <1>1, <1>2, FS_EmptySet DEF Times

\* Where the messages are, before a step and after it.
LEMMA CountsAre ==
  ASSUME TypeOK, NEW t \in Text
  PROVE  /\ Times(steeringQueue, t) \in Nat /\ Times(followUpQueue, t) \in Nat
         /\ Times(prompts, t) \in Nat /\ Times(pending, t) \in Nat
         /\ Cardinality(dropped \cap {t}) \in {0, 1} /\ Cardinality(UserSays(t)) \in Nat
         /\ Places(t) = Times(steeringQueue, t) + Times(followUpQueue, t) + Times(prompts, t)
                        + Times(pending, t) + Cardinality(dropped \cap {t})
                        + Cardinality(UserSays(t))
         /\ Places(t)' = Times(steeringQueue', t) + Times(followUpQueue', t) + Times(prompts', t)
                         + Times(pending', t) + Cardinality(dropped' \cap {t})
                         + Cardinality(UserSays(t)')
         /\ Places(t) \in Nat
<1>1. /\ steeringQueue \in Seq(Text) /\ followUpQueue \in Seq(Text)
      /\ prompts \in Seq(Text) /\ pending \in Seq(Text) /\ transcript \in Seq(Message)
  BY DEF TypeOK, QueueType, ContextType, EmitType
<1>2. \A q \in Seq(Text) : Times(q, t) \in Nat
  BY PartFinite DEF Times
<1>3. Cardinality(UserSays(t)) \in Nat
  BY <1>1, PartFinite DEF UserSays
<1>4. Cardinality(dropped \cap {t}) \in {0, 1}
  <2>1. dropped \cap {t} = {} \/ dropped \cap {t} = {t}
    OBVIOUS
  <2>2. QED
    BY <2>1, FS_EmptySet, FS_Singleton
<1>5. /\ Places(t) = Times(steeringQueue, t) + Times(followUpQueue, t) + Times(prompts, t)
                     + Times(pending, t) + Cardinality(dropped \cap {t}) + Cardinality(UserSays(t))
      /\ Places(t)' = Times(steeringQueue', t) + Times(followUpQueue', t) + Times(prompts', t)
                      + Times(pending', t) + Cardinality(dropped' \cap {t})
                      + Cardinality(UserSays(t)')
  BY DEF Places, Times, UserSays
<1>6. /\ Times(steeringQueue, t) \in Nat /\ Times(followUpQueue, t) \in Nat
      /\ Times(prompts, t) \in Nat /\ Times(pending, t) \in Nat
  BY <1>1, <1>2
<1>7. QED
  BY <1>3, <1>4, <1>5, <1>6

\* Whoever speaks but the user, the user has said what he said.
LEMMA SaysSame ==
  ASSUME TypeOK, NEW t,
         \/ UNCHANGED transcript
         \/ \E m : Adds(m) /\ m.role # "user"
         \/ \E m, j : Replaces(j, m)
  PROVE  UserSays(t)' = UserSays(t)
<1>1. CASE UNCHANGED transcript
  BY <1>1 DEF UserSays
<1>2. ASSUME NEW m, Adds(m), m.role # "user" PROVE UserSays(t)' = UserSays(t)
  <2>1. /\ DOMAIN transcript = 1 .. Len(transcript) /\ Len(transcript) \in Nat
        /\ DOMAIN transcript' = 1 .. Len(transcript) + 1
        /\ \A i \in DOMAIN transcript : transcript'[i] = transcript[i]
        /\ transcript'[Len(transcript) + 1] = m
    BY <1>2, Added
  <2>2. \A i \in DOMAIN transcript' : i \in DOMAIN transcript \/ i = Len(transcript) + 1
    BY <2>1
  <2>3. QED
    BY <1>2, <2>1, <2>2 DEF UserSays
<1>3. ASSUME NEW m, NEW j, Replaces(j, m) PROVE UserSays(t)' = UserSays(t)
  <2>1. DOMAIN transcript' = DOMAIN transcript /\ transcript'[j] = m
        /\ \A i \in DOMAIN transcript : i # j => transcript'[i] = transcript[i]
    BY <1>3, Replaced
  <2>2. transcript[j].role = "toolResult" /\ m.role = "toolResult"
    BY <1>3 DEF Replaces
  <2>3. QED
    BY <2>1, <2>2 DEF UserSays
<1>4. QED
  BY <1>1, <1>2, <1>3

\* What the user says counts once more.
LEMMA SaysMore ==
  ASSUME TypeOK, NEW x \in Text, transcript' = Append(transcript, User(x)), NEW t
  PROVE  Cardinality(UserSays(t)') = Cardinality(UserSays(t)) + (IF x = t THEN 1 ELSE 0)
<1>1. Adds(User(x)) /\ User(x).role = "user" /\ User(x).text = x
  BY UserType DEF Adds, User
<1>2. /\ DOMAIN transcript = 1 .. Len(transcript) /\ Len(transcript) \in Nat
      /\ DOMAIN transcript' = 1 .. Len(transcript) + 1
      /\ \A i \in DOMAIN transcript : transcript'[i] = transcript[i]
      /\ transcript'[Len(transcript) + 1] = User(x)
  BY <1>1, Added
<1>3. IsFiniteSet(UserSays(t)) /\ Cardinality(UserSays(t)) \in Nat
  BY PartFinite DEF UserSays, TypeOK, EmitType
<1>4. CASE x = t
  <2>1. UserSays(t)' = UserSays(t) \cup {Len(transcript) + 1} /\ Len(transcript) + 1 \notin UserSays(t)
    BY <1>1, <1>2, <1>4 DEF UserSays
  <2>2. QED
    BY <1>3, <1>4, <2>1, FS_AddElement
<1>5. CASE x # t
  <2>1. UserSays(t)' = UserSays(t)
    BY <1>1, <1>2, <1>5 DEF UserSays
  <2>2. QED
    BY <1>3, <1>5, <2>1
<1>6. QED
  BY <1>4, <1>5

\* The messages of the steps that send none and move none.
LEMMA NoneMoves ==
  ASSUME TypeOK, AnswersInv, [Next]_vars,
         ~\E ps, skip : StartRun(ps, skip),
         ~(Steer \/ FollowUp \/ ClearSteeringQueue \/ ClearFollowUpQueue \/ PromptEnd
           \/ InitialPoll \/ FollowUps \/ InjectEnd \/ PollSteering)
  PROVE  UNCHANGED <<queueVars, prompts, pending>> /\ \A t : UserSays(t)' = UserSays(t)
<1>1. CASE UserStep
  BY <1>1 DEF UserStep, Prompt, ContinueFromTranscript, ContinueFromQueues, Abort, queueVars,
     inputVars, emitVars, UserSays
<1>2. CASE ListenerStep \/ ToolStep \/ UNCHANGED vars
  <2>1. UNCHANGED <<queueVars, prompts, pending>>
    BY <1>2 DEF ListenerStep, Skip, Deliver, Fail, Commit, Throw, ToolStep, ParallelReturn,
       vars, queueVars, inputVars
  <2>2. QED
    BY <1>2, <2>1, OthersStay, SaysSame
<1>3. CASE RunSteps
  BY <1>3 DEF RunSteps, RunStarted, PromptStart, TurnAborted, TurnsLimited, FirstTurn, NextTurn,
     NoFollowUps, InjectStart, Ends, LoopEmits, Process, GoTo, emitVars, Plain, MessageStart,
     AgentEnd, LoopKeeps, LoopFrame, queueVars, inputVars, UserSays
<1>4. CASE StreamSteps
  <2>1. UNCHANGED <<queueVars, prompts, pending>>
    BY <1>4 DEF StreamSteps, StreamStart, StreamThrows, StreamDone, ResponseFailed, FailedTurn,
       NoCalls, PlanBatch, Ends, LoopKeeps, LoopFrame, queueVars, inputVars
  <2>2. CASE Streams
    BY <2>1, <2>2, StreamsSay, SaysSame DEF StreamSays
  <2>3. CASE ~Streams
    <3>1. UNCHANGED transcript
      BY <1>4, <2>3 DEF Streams, StreamSteps, StreamStart, StreamThrows, ResponseFailed,
         FailedTurn, NoCalls, PlanBatch, Ends, LoopEmits, Process, GoTo, emitVars, Plain,
         MessageStart, AgentEnd
    <3>2. QED
      BY <2>1, <3>1, SaysSame
  <2>4. QED
    BY <2>2, <2>3
<1>5. CASE BatchSteps
  <2>1. UNCHANGED <<queueVars, prompts, pending>>
    BY <1>5 DEF BatchSteps, CallStart, CallFailed, CallAborted, CallImmediate, EndsAtOnce,
       CallPrepares, CallPrepared, SequentialExecute, SequentialReturn, ParallelExecute, Join,
       JoinThrows, ResultStart, ResultEnd, BatchDone, CallsLimited, PrepareNextTurnThrows,
       Ends, LoopKeeps, LoopFrame, queueVars, inputVars
  <2>2. CASE ResultEnd
    BY <2>1, <2>2, BatchSays, SaysSame DEF SaysBatched
  <2>3. CASE ~ResultEnd
    <3>1. UNCHANGED transcript
      BY <1>5, <2>3 DEF BatchSteps, CallStart, CallFailed, CallAborted, CallImmediate, EndsAtOnce,
       CallPrepares, CallPrepared, SequentialExecute, SequentialReturn, ParallelExecute, Join,
       JoinThrows, ResultStart, BatchDone, CallsLimited, PrepareNextTurnThrows,
       Ends, LoopEmits, Process, ToolsEmitEnd, GoTo, emitVars, Plain, MessageStart, ToolStart,
       ToolEnd, AgentEnd
    <3>2. QED
      BY <2>1, <3>1, SaysSame
  <2>4. QED
    BY <2>2, <2>3
<1>6. CASE FailureSteps
  <2>1. UNCHANGED <<queueVars, prompts, pending>>
    BY <1>6 DEF FailureSteps, Catch, SynthesizeResults, FixStart, FixEnd, FailStart, FailEnd,
       FailTurn, FailAgent, FinishRun, LoopKeeps, LoopFrame, queueVars, inputVars
  <2>2. CASE FailEnd
    <3>1. FailureMessage \in Message /\ FailureMessage.role = "assistant"
      BY AssistantType, EmptySeq DEF TypeOK, FailType, Stop, FailureMessage, Assistant
    <3>2. Adds(FailureMessage)
      BY <2>2, <3>1, Spoken DEF FailEnd, Adds
    <3>3. QED
      BY <2>1, <3>1, <3>2, SaysSame
  <2>3. CASE \E m \in fixups : FixEnd(m)
    <3>1. PICK m \in fixups : SaysFixed(m)
      BY <2>3, FixSays
    <3>2. QED
      BY <2>1, <3>1, SaysSame DEF SaysFixed
  <2>4. CASE ~FailEnd /\ ~\E m \in fixups : FixEnd(m)
    <3>1. UNCHANGED transcript
      BY <1>6, <2>4 DEF FailureSteps, Catch, SynthesizeResults, FixStart, FailStart, FailTurn,
         FailAgent, FinishRun, LoopEmits, Process, GoTo, emitVars, Plain, MessageStart, AgentEnd
    <3>2. QED
      BY <2>1, <3>1, SaysSame
  <2>5. QED
    BY <2>2, <2>3, <2>4
<1>7. QED
  BY <1>1, <1>2, <1>3, <1>4, <1>5, <1>6 DEF Next, LoopStep

\* What MessagesConserved says of a step.
Conserved ==
  \A t \in 1 .. sent' :
     \/ Places(t)' = IF t > sent THEN 1 ELSE Places(t)
     \/ /\ Places(t) = 1 /\ Places(t)' = 0
        /\ activeRun = 0 /\ lastTermination \in {"error", "limit"}

\* What a step may do to the places of a message: it gets its first if it is sent, and loses
\* some if it was in the hands of a run that ended badly.
NewPlace(t) == IF t = sent + 1 /\ sent' = sent + 1 THEN 1 ELSE 0
PlacedAnew(t) ==
  \/ Places(t)' = Places(t) + NewPlace(t)
  \/ /\ activeRun = 0 /\ lastTermination \in {"error", "limit"}
     /\ \E k \in 1 .. Places(t) : Places(t)' = Places(t) - k + NewPlace(t)

LEMMA Conserving ==
  ASSUME TypeOK, TypeOK', PlacesInv, sent' \in {sent, sent + 1}, \A t \in Text : PlacedAnew(t)
  PROVE  Conserved /\ PlacesInv'
<1>1. sent \in Nat /\ sent' \in Nat /\ sent' <= MaxTexts /\ MaxTexts \in Nat
  BY AgentRunAssumption DEF TypeOK, QueueType
<1>2. ASSUME NEW t \in Text
      PROVE  /\ t <= sent' => \/ Places(t)' = IF t > sent THEN 1 ELSE Places(t)
                              \/ /\ Places(t) = 1 /\ Places(t)' = 0
                                 /\ activeRun = 0 /\ lastTermination \in {"error", "limit"}
             /\ Places(t)' <= (IF t <= sent' THEN 1 ELSE 0)
  <2>0. t \in Nat
    BY <1>1 DEF Text
  <2>1. Places(t) \in Nat /\ t \in Nat /\ Places(t) <= (IF t <= sent THEN 1 ELSE 0)
    BY <2>0, CountsAre DEF PlacesInv
  <2>2. CASE Places(t)' = Places(t) + NewPlace(t)
    BY <1>1, <2>1, <2>2 DEF NewPlace
  <2>3. CASE /\ activeRun = 0 /\ lastTermination \in {"error", "limit"}
             /\ \E k \in 1 .. Places(t) : Places(t)' = Places(t) - k + NewPlace(t)
    <3>1. PICK k \in 1 .. Places(t) : Places(t)' = Places(t) - k + NewPlace(t)
      BY <2>3
    <3>2. Places(t) = 1 /\ t <= sent /\ k = 1
      BY <1>1, <2>1
    <3>3. Places(t)' = 0
      BY <1>1, <2>1, <3>1, <3>2 DEF NewPlace
    <3>4. QED
      BY <1>1, <2>1, <2>3, <3>2, <3>3
  <2>4. QED
    BY <2>2, <2>3 DEF PlacedAnew
<1>3. \A t \in 1 .. sent' : t \in Text /\ t <= sent'
  BY <1>1 DEF Text
<1>4. QED
  BY <1>2, <1>3 DEF Conserved, PlacesInv

\* The start of a run takes messages out of the queues, or a new one, and leaves out what
\* the run before had still in hand.
LEMMA StartPlaces ==
  ASSUME TypeOK, PlacesInv, HandsInv, UserStep, NEW ps, NEW skip, StartRun(ps, skip)
  PROVE  sent' \in {sent, sent + 1} /\ \A t \in Text : PlacedAnew(t)
<1>0. /\ activeRun = 0 /\ prompts' = ps /\ pending' = <<>> /\ UNCHANGED transcript
      /\ sent \in Nat /\ runs' # runs
  BY DEF StartRun, TypeOK, QueueType, RunType, Run
<1>1. EmptyHands \/ lastTermination \in {"error", "limit"}
  BY <1>0 DEF HandsInv
<1>2. ASSUME NEW t \in Text, NEW n \in {0, 1}, NewPlace(t) = n,
             dropped' = dropped,
             Times(steeringQueue', t) + Times(followUpQueue', t) + Times(prompts', t)
               = Times(steeringQueue, t) + Times(followUpQueue, t) + n,
             Times(steeringQueue', t) \in Nat, Times(followUpQueue', t) \in Nat,
             Times(prompts', t) \in Nat
      PROVE  PlacedAnew(t)
  <2>1. UserSays(t)' = UserSays(t) /\ Times(pending', t) = 0
    BY <1>0, SaysSame, TimesFew
  <2> DEFINE a == Times(steeringQueue, t)
             b == Times(followUpQueue, t)
             c == Times(prompts, t)
             d == Times(pending, t)
             e == Cardinality(dropped \cap {t})
             f == Cardinality(UserSays(t))
  <2>7. /\ a \in Nat /\ b \in Nat /\ c \in Nat /\ d \in Nat /\ e \in {0, 1} /\ f \in Nat
        /\ Places(t) = a + b + c + d + e + f
    BY CountsAre
  <2>8. Places(t)' = Times(steeringQueue', t) + Times(followUpQueue', t) + Times(prompts', t)
                     + 0 + e + f
    BY <1>2, <2>1, CountsAre
  <2>9. Times(steeringQueue', t) + Times(followUpQueue', t) + Times(prompts', t) = a + b + n
    BY <1>2
  <2> HIDE DEF a, b, c, d, e, f
  <2>2. Places(t)' = Places(t) - (c + d) + n
    BY <1>2, <2>7, <2>8, <2>9
  <2>3. c \in Nat /\ d \in Nat /\ c + d <= Places(t) /\ Places(t) \in Nat
    BY <2>7
  <2>4. CASE c + d = 0
    BY <1>2, <2>2, <2>3, <2>4 DEF PlacedAnew
  <2>5. CASE c + d # 0
    <3>1. ~EmptyHands
      BY <2>3, <2>5, TimesFew DEF EmptyHands, c, d
    <3>2. c + d \in 1 .. Places(t)
      BY <2>3, <2>5
    <3>3. QED
      BY <1>0, <1>1, <1>2, <2>2, <3>1, <3>2 DEF PlacedAnew
  <2>6. QED
    BY <2>4, <2>5
<1>3. CASE Prompt
  <2>1. /\ prompts' = <<sent + 1>> /\ sent' = sent + 1 /\ sent + 1 \in Text
        /\ UNCHANGED <<steeringQueue, followUpQueue, dropped>>
    BY <1>0, <1>3, AgentRunAssumption DEF Prompt, StartRun, Text
  <2>2. ASSUME NEW t \in Text PROVE PlacedAnew(t)
    <3>1. NewPlace(t) \in {0, 1} /\ Times(prompts', t) = NewPlace(t)
      BY <2>1, TimesFew DEF NewPlace
    <3>2. Times(steeringQueue, t) \in Nat /\ Times(followUpQueue, t) \in Nat
      BY CountsAre
    <3>3. QED
      BY <1>2, <2>1, <3>1, <3>2
  <2>3. QED
    BY <2>1, <2>2
<1>4. CASE ContinueFromTranscript
  <2>1. prompts' = <<>> /\ UNCHANGED queueVars
    BY <1>4 DEF ContinueFromTranscript, StartRun
  <2>2. ASSUME NEW t \in Text PROVE PlacedAnew(t)
    <3>1. NewPlace(t) = 0 /\ Times(prompts', t) = 0
      BY <1>0, <2>1, TimesFew DEF NewPlace, queueVars
    <3>2. Times(steeringQueue, t) \in Nat /\ Times(followUpQueue, t) \in Nat
      BY CountsAre
    <3>3. QED
      BY <1>2, <2>1, <3>1, <3>2 DEF queueVars
  <2>3. QED
    BY <2>1, <2>2 DEF queueVars
<1>5. CASE ContinueFromQueues
  <2>1. /\ UNCHANGED <<sent, dropped>>
        /\ \/ /\ prompts' = Drained(steeringQueue, SteeringMode) /\ UNCHANGED followUpQueue
              /\ steeringQueue' = Remaining(steeringQueue, SteeringMode)
           \/ /\ prompts' = Drained(followUpQueue, FollowUpMode) /\ UNCHANGED steeringQueue
              /\ followUpQueue' = Remaining(followUpQueue, FollowUpMode)
    BY <1>5 DEF ContinueFromQueues, StartRun
  <2>2. ASSUME NEW t \in Text PROVE PlacedAnew(t)
    <3>1. NewPlace(t) = 0
      BY <1>0, <2>1 DEF NewPlace
    <3>2. Times(steeringQueue, t) \in Nat /\ Times(followUpQueue, t) \in Nat
      BY CountsAre
    <3>3. steeringQueue \in Seq(Text) /\ followUpQueue \in Seq(Text)
      BY DEF TypeOK, QueueType
    <3>4. \A q \in Seq(Text) : \A mode :
             /\ Times(Drained(q, mode), t) \in Nat /\ Times(Remaining(q, mode), t) \in Nat
             /\ Times(q, t) = Times(Drained(q, mode), t) + Times(Remaining(q, mode), t)
      <4>1. \A q \in Seq(Text) : Times(q, t) \in Nat
        BY PartFinite DEF Times
      <4>2. QED
        BY <4>1, DrainType, DrainTimes
    <3>5. QED
      BY <1>2, <2>1, <3>1, <3>2, <3>3, <3>4
  <2>3. QED
    BY <2>1, <2>2
<1>6. QED
  BY <1>0, <1>3, <1>4, <1>5 DEF UserStep, Steer, FollowUp, ClearSteeringQueue, ClearFollowUpQueue,
     Abort, Outside, runVars

\* What the user sends goes to a queue, ...
LEMMA SendPlaces ==
  ASSUME TypeOK, Steer \/ FollowUp, NEW t \in Text PROVE PlacedAnew(t)
<1> DEFINE a == Times(steeringQueue, t)
           b == Times(followUpQueue, t)
           c == Times(prompts, t)
           d == Times(pending, t)
           e == Cardinality(dropped \cap {t})
           f == Cardinality(UserSays(t))
<1>1. /\ a \in Nat /\ b \in Nat /\ c \in Nat /\ d \in Nat /\ e \in {0, 1} /\ f \in Nat
      /\ Places(t) = a + b + c + d + e + f
  BY CountsAre
<1>2. sent \in Nat /\ sent' = sent + 1 /\ sent + 1 \in Text
  BY AgentRunAssumption DEF Steer, FollowUp, TypeOK, QueueType, Text
<1>3. UNCHANGED <<prompts, pending, transcript, dropped>>
  BY DEF Steer, FollowUp, Outside, inputVars, emitVars
<1>4. UserSays(t)' = UserSays(t)
  BY <1>3, SaysSame
<1>5. NewPlace(t) = IF sent + 1 = t THEN 1 ELSE 0
  BY <1>2 DEF NewPlace
<1>6. steeringQueue \in Seq(Text) /\ followUpQueue \in Seq(Text)
  BY DEF TypeOK, QueueType
<1>7. CASE Steer
  <2>1. Times(steeringQueue', t) = a + NewPlace(t) /\ Times(followUpQueue', t) = b
    BY <1>2, <1>5, <1>6, <1>7, TimesMore DEF Steer
  <2>2. Places(t)' = (a + NewPlace(t)) + b + c + d + e + f
    BY <1>3, <1>4, <2>1, CountsAre
  <2> HIDE DEF a, b, c, d, e, f
  <2>3. QED
    BY <1>1, <1>5, <2>2 DEF PlacedAnew
<1>8. CASE FollowUp
  <2>1. Times(steeringQueue', t) = a /\ Times(followUpQueue', t) = b + NewPlace(t)
    BY <1>2, <1>5, <1>6, <1>8, TimesMore DEF FollowUp
  <2>2. Places(t)' = a + (b + NewPlace(t)) + c + d + e + f
    BY <1>3, <1>4, <2>1, CountsAre
  <2> HIDE DEF a, b, c, d, e, f
  <2>3. QED
    BY <1>1, <1>5, <2>2 DEF PlacedAnew
<1>9. QED
  BY <1>7, <1>8

\* ... and what the user clears from one is dropped: once, as it was there only once.
LEMMA ClearPlaces ==
  ASSUME TypeOK, PlacesInv, ClearSteeringQueue \/ ClearFollowUpQueue, NEW t \in Text
  PROVE  PlacedAnew(t)
<1> DEFINE a == Times(steeringQueue, t)
           b == Times(followUpQueue, t)
           c == Times(prompts, t)
           d == Times(pending, t)
           e == Cardinality(dropped \cap {t})
           f == Cardinality(UserSays(t))
<1>1. /\ a \in Nat /\ b \in Nat /\ c \in Nat /\ d \in Nat /\ e \in {0, 1} /\ f \in Nat
      /\ Places(t) = a + b + c + d + e + f
  BY CountsAre
<1>2. UNCHANGED <<prompts, pending, transcript, sent>> /\ sent \in Nat
  BY DEF ClearSteeringQueue, ClearFollowUpQueue, Outside, inputVars, emitVars, TypeOK, QueueType
<1>3. UserSays(t)' = UserSays(t) /\ NewPlace(t) = 0
  BY <1>2, SaysSame DEF NewPlace
<1>4. Places(t) <= 1
  <2>1. t \in Nat
    BY AgentRunAssumption DEF Text
  <2>2. Places(t) <= (IF t <= sent THEN 1 ELSE 0)
    BY DEF PlacesInv
  <2>3. Places(t) \in Nat
    BY CountsAre
  <2>4. QED
    BY <1>2, <2>1, <2>2, <2>3
<1>5. ASSUME NEW q \in Seq(Text), Times(q, t) \in Nat, Times(q, t) + e <= 1,
             dropped' = dropped \cup ElementsOf(q)
      PROVE  Cardinality(dropped' \cap {t}) = e + Times(q, t)
  <2>1. CASE t \in ElementsOf(q)
    <3>1. Times(q, t) # 0
      BY <2>1, TimesElement
    <3>2. e = 0 /\ Times(q, t) = 1
      BY <1>1, <1>5, <3>1
    <3>3. dropped' \cap {t} = {t}
      BY <1>5, <2>1
    <3>4. Cardinality(dropped' \cap {t}) = 1
      BY <3>3, FS_Singleton
    <3>5. QED
      BY <3>2, <3>4
  <2>2. CASE t \notin ElementsOf(q)
    <3>1. Times(q, t) = 0 /\ dropped' \cap {t} = dropped \cap {t}
      BY <1>5, <2>2, TimesElement
    <3>2. Cardinality(dropped' \cap {t}) = e
      BY <3>1
    <3>3. QED
      BY <1>1, <3>1, <3>2
  <2>3. QED
    BY <2>1, <2>2
<1>6. steeringQueue \in Seq(Text) /\ followUpQueue \in Seq(Text)
  BY DEF TypeOK, QueueType
<1>7. a + e <= 1 /\ b + e <= 1
  <2> HIDE DEF a, b, c, d, e, f
  <2>1. QED
    BY <1>1, <1>4
<1>8. CASE ClearSteeringQueue
  <2>1. /\ Times(steeringQueue', t) = 0 /\ Times(followUpQueue', t) = b
        /\ Cardinality(dropped' \cap {t}) = e + a
    BY <1>1, <1>5, <1>6, <1>7, <1>8, TimesFew DEF ClearSteeringQueue
  <2>2. Places(t)' = 0 + b + c + d + (e + a) + f
    BY <1>2, <1>3, <2>1, CountsAre
  <2> HIDE DEF a, b, c, d, e, f
  <2>3. QED
    BY <1>1, <1>3, <2>2 DEF PlacedAnew
<1>9. CASE ClearFollowUpQueue
  <2>1. /\ Times(steeringQueue', t) = a /\ Times(followUpQueue', t) = 0
        /\ Cardinality(dropped' \cap {t}) = e + b
    BY <1>1, <1>5, <1>6, <1>7, <1>9, TimesFew DEF ClearFollowUpQueue
  <2>2. Places(t)' = a + 0 + c + d + (e + b) + f
    BY <1>2, <1>3, <2>1, CountsAre
  <2> HIDE DEF a, b, c, d, e, f
  <2>3. QED
    BY <1>1, <1>3, <2>2 DEF PlacedAnew
<1>10. QED
  BY <1>8, <1>9

\* The loop says what it has in hand, ...
LEMMA SayPlaces ==
  ASSUME TypeOK, PromptEnd \/ InjectEnd, NEW t \in Text PROVE PlacedAnew(t)
<1> DEFINE a == Times(steeringQueue, t)
           b == Times(followUpQueue, t)
           c == Times(prompts, t)
           d == Times(pending, t)
           e == Cardinality(dropped \cap {t})
           f == Cardinality(UserSays(t))
           one(q) == IF Head(q) = t THEN 1 ELSE 0
<1>1. /\ a \in Nat /\ b \in Nat /\ c \in Nat /\ d \in Nat /\ e \in {0, 1} /\ f \in Nat
      /\ Places(t) = a + b + c + d + e + f
  BY CountsAre
<1>2. UNCHANGED <<steeringQueue, followUpQueue, dropped, sent>> /\ sent \in Nat
  BY DEF PromptEnd, InjectEnd, LoopFrame, queueVars, TypeOK, QueueType
<1>3. NewPlace(t) = 0
  BY <1>2 DEF NewPlace
<1>4. prompts \in Seq(Text) /\ pending \in Seq(Text)
  BY DEF TypeOK, ContextType
<1>5. ASSUME NEW q \in Seq(Text), q # <<>>, transcript' = Append(transcript, User(Head(q)))
      PROVE  /\ Times(q, t) = Times(Tail(q), t) + one(q) /\ Times(Tail(q), t) \in Nat
             /\ Cardinality(UserSays(t)') = f + one(q)
  <2>1. Head(q) \in Text /\ Tail(q) \in Seq(Text)
    BY <1>5, HeadTailProperties
  <2>2. Times(Tail(q), t) \in Nat
    BY <2>1, PartFinite DEF Times
  <2>3. QED
    BY <1>5, <2>1, <2>2, TimesLess, SaysMore
<1>6. CASE PromptEnd
  <2>1. prompts # <<>> /\ prompts' = Tail(prompts) /\ pending' = pending
        /\ transcript' = Append(transcript, User(Head(prompts)))
    BY <1>6, Spoken DEF PromptEnd, At, TypeOK, ControlOK, User
  <2>2. /\ c = Times(prompts', t) + one(prompts) /\ Times(prompts', t) \in Nat
        /\ Cardinality(UserSays(t)') = f + one(prompts)
    BY <1>4, <1>5, <2>1
  <2>3. Places(t)' = a + b + Times(prompts', t) + d + e + (f + one(prompts))
    BY <1>2, <2>1, <2>2, CountsAre
  <2>4. one(prompts) \in {0, 1}
    OBVIOUS
  <2> HIDE DEF a, b, c, d, e, f, one
  <2>5. QED
    BY <1>1, <1>3, <2>2, <2>3, <2>4 DEF PlacedAnew
<1>7. CASE InjectEnd
  <2>1. pending # <<>> /\ pending' = Tail(pending) /\ prompts' = prompts
        /\ transcript' = Append(transcript, User(Head(pending)))
    BY <1>7, Spoken DEF InjectEnd, At, TypeOK, ControlOK, User
  <2>2. /\ d = Times(pending', t) + one(pending) /\ Times(pending', t) \in Nat
        /\ Cardinality(UserSays(t)') = f + one(pending)
    BY <1>4, <1>5, <2>1
  <2>3. Places(t)' = a + b + c + Times(pending', t) + e + (f + one(pending))
    BY <1>2, <2>1, <2>2, CountsAre
  <2>4. one(pending) \in {0, 1}
    OBVIOUS
  <2> HIDE DEF a, b, c, d, e, f, one
  <2>5. QED
    BY <1>1, <1>3, <2>2, <2>3, <2>4 DEF PlacedAnew
<1>8. QED
  BY <1>6, <1>7

\* ... and takes in hand what it takes out of a queue, when its hands are empty.
LEMMA PollPlaces ==
  ASSUME TypeOK, HandsInv, InitialPoll \/ FollowUps \/ PollSteering, NEW t \in Text
  PROVE  PlacedAnew(t)
<1> DEFINE a == Times(steeringQueue, t)
           b == Times(followUpQueue, t)
           c == Times(prompts, t)
           e == Cardinality(dropped \cap {t})
           f == Cardinality(UserSays(t))
<1>1. /\ a \in Nat /\ b \in Nat /\ c \in Nat /\ e \in {0, 1} /\ f \in Nat
      /\ Places(t) = a + b + c + Times(pending, t) + e + f
  BY CountsAre
<1>2. pending = <<>>
  BY DEF InitialPoll, FollowUps, PollSteering, At, InnerGoesOn, HandsInv, PromptLabel
<1>3. Times(pending, t) = 0
  BY <1>2, TimesFew
<1>4. UNCHANGED <<prompts, dropped, sent, transcript>> /\ sent \in Nat
  BY DEF InitialPoll, FollowUps, PollSteering, LoopFrame, GoTo, emitVars, TypeOK, QueueType
<1>5. UserSays(t)' = UserSays(t) /\ NewPlace(t) = 0
  BY <1>4, SaysSame DEF NewPlace
<1>6. steeringQueue \in Seq(Text) /\ followUpQueue \in Seq(Text)
  BY DEF TypeOK, QueueType
<1>7. \A q \in Seq(Text) : \A mode :
         /\ Times(Drained(q, mode), t) \in Nat /\ Times(Remaining(q, mode), t) \in Nat
         /\ Times(q, t) = Times(Drained(q, mode), t) + Times(Remaining(q, mode), t)
  <2>1. \A q \in Seq(Text) : Times(q, t) \in Nat
    BY PartFinite DEF Times
  <2>2. QED
    BY <2>1, DrainType, DrainTimes
<1>8. /\ Times(steeringQueue', t) \in Nat /\ Times(followUpQueue', t) \in Nat
      /\ Times(pending', t) \in Nat
      /\ Times(steeringQueue', t) + Times(followUpQueue', t) + Times(pending', t) = a + b
  <2>1. \/ /\ pending' = <<>> /\ UNCHANGED <<steeringQueue, followUpQueue>>
        \/ /\ pending' = Drained(steeringQueue, SteeringMode) /\ UNCHANGED followUpQueue
           /\ steeringQueue' = Remaining(steeringQueue, SteeringMode)
        \/ /\ pending' = Drained(followUpQueue, FollowUpMode) /\ UNCHANGED steeringQueue
           /\ followUpQueue' = Remaining(followUpQueue, FollowUpMode)
    BY DEF InitialPoll, FollowUps, PollSteering
  <2>2. CASE pending' = <<>> /\ UNCHANGED <<steeringQueue, followUpQueue>>
    BY <1>1, <2>2, TimesFew
  <2>3. CASE /\ pending' = Drained(steeringQueue, SteeringMode) /\ UNCHANGED followUpQueue
             /\ steeringQueue' = Remaining(steeringQueue, SteeringMode)
    BY <1>1, <1>6, <1>7, <2>3
  <2>4. CASE /\ pending' = Drained(followUpQueue, FollowUpMode) /\ UNCHANGED steeringQueue
             /\ followUpQueue' = Remaining(followUpQueue, FollowUpMode)
    BY <1>1, <1>6, <1>7, <2>4
  <2>5. QED
    BY <2>1, <2>2, <2>3, <2>4
<1>9. Places(t)' = Times(steeringQueue', t) + Times(followUpQueue', t) + c + Times(pending', t)
                   + e + f
  BY <1>4, <1>5, CountsAre
<1> HIDE DEF a, b, c, e, f
<1>10. Places(t) = a + b + c + 0 + e + f
  BY <1>1, <1>3
<1>11. Places(t)' = Places(t) + 0
  BY <1>1, <1>8, <1>9, <1>10
<1>12. QED
  BY <1>5, <1>11 DEF PlacedAnew

\* No step loses a message, or takes it twice.
LEMMA NextPlaces ==
  ASSUME TypeOK, TypeOK', AnswersInv, HandsInv, PlacesInv, [Next]_vars
  PROVE  Conserved /\ PlacesInv'
<1>0. sent \in Nat
  BY DEF TypeOK, QueueType
<1>1. ASSUME NEW ps, NEW skip, StartRun(ps, skip) PROVE Conserved /\ PlacesInv'
  <2>1. runs' # runs
    BY <1>1 DEF StartRun, TypeOK, RunType, Run
  <2>2. UserStep
    BY <2>1, OthersStay, LoopTurns DEF Next, LoopTurn, FinishRun
  <2>3. QED
    BY <1>1, <2>2, StartPlaces, Conserving
<1>2. CASE Steer \/ FollowUp
  BY <1>2, SendPlaces, Conserving DEF Steer, FollowUp
<1>3. CASE ClearSteeringQueue \/ ClearFollowUpQueue
  <2>1. sent' = sent
    BY <1>3 DEF ClearSteeringQueue, ClearFollowUpQueue
  <2>2. QED
    BY <1>3, <2>1, ClearPlaces, Conserving
<1>4. CASE PromptEnd \/ InjectEnd
  <2>1. sent' = sent
    BY <1>4 DEF PromptEnd, InjectEnd, queueVars
  <2>2. QED
    BY <1>4, <2>1, SayPlaces, Conserving
<1>5. CASE InitialPoll \/ FollowUps \/ PollSteering
  <2>1. sent' = sent
    BY <1>5 DEF InitialPoll, FollowUps, PollSteering
  <2>2. QED
    BY <1>5, <2>1, PollPlaces, Conserving
<1>6. CASE UNCHANGED <<queueVars, prompts, pending>> /\ \A t : UserSays(t)' = UserSays(t)
  <2>1. sent' = sent
    BY <1>6 DEF queueVars
  <2>2. ASSUME NEW t \in Text PROVE PlacedAnew(t)
    <3>1. Places(t)' = Places(t) /\ Places(t) \in Nat
      BY <1>6, CountsAre DEF queueVars
    <3>2. NewPlace(t) = 0
      BY <1>0, <2>1 DEF NewPlace
    <3>3. QED
      BY <3>1, <3>2 DEF PlacedAnew
  <2>3. QED
    BY <2>1, <2>2, Conserving
<1>7. QED
  BY <1>1, <1>2, <1>3, <1>4, <1>5, <1>6, NoneMoves

\* The loop keeps what is known of its hands, ...
LEMMA HandsRun ==
  ASSUME TypeOK, HandsInv, EndControl, RunSteps PROVE HandsInv'
<1>0. activeRun # 0 /\ activeRun' # 0
  BY RunGoes DEF LoopTurn, EndControl
<1>1. CASE RunStarted \/ PromptStart \/ PromptEnd
  <2>1. pc \in PromptLabel /\ pc' \in PromptLabel /\ pending' = pending
    BY <1>1 DEF RunStarted, PromptStart, PromptEnd, At, LoopEmits, LoopKeeps, inputVars, PromptLabel
  <2>2. QED
    BY <1>0, <2>1 DEF HandsInv, PromptLabel, TurnLabel, BatchLabel, SafeLabel, EndLabel
<1>2. CASE InitialPoll \/ FirstTurn \/ NextTurn \/ FollowUps \/ InjectStart \/ InjectEnd
  <2>1. prompts' = prompts /\ prompts = <<>> /\ pc' \in {"top", "inject", "injectEnd"}
    BY <1>2 DEF InitialPoll, FirstTurn, NextTurn, FollowUps, InjectStart, InjectEnd, At, LoopEmits,
       GoTo, LoopKeeps, inputVars, HandsInv, TurnLabel
  <2>2. QED
    BY <1>0, <2>1 DEF HandsInv, PromptLabel, TurnLabel, BatchLabel, SafeLabel, EndLabel
<1>3. CASE TurnAborted \/ TurnsLimited \/ NoFollowUps
  <2>1. /\ UNCHANGED <<prompts, pending>> /\ prompts = <<>> /\ pc' = "ended"
        /\ pending = <<>> \/ LoopEmits(AgentEnd("limit"), "ended")
    BY <1>3 DEF TurnAborted, TurnsLimited, NoFollowUps, GivesUp, InnerGoesOn, Ends, At, LoopEmits,
       LoopKeeps, inputVars, HandsInv, TurnLabel
  <2>2. EmptyHands' \/ LoopEmits(AgentEnd("limit"), "ended")
    BY <2>1 DEF EmptyHands
  <2>3. ASSUME LoopEmits(AgentEnd("limit"), "ended") PROVE EndsBadly'
    <3>1. out'[Loop].ev = AgentEnd("limit")
      BY <2>3, Coroutines DEF LoopEmits, TypeOK, EmitType, Emitting
    <3>2. QED
      BY <3>1 DEF EndsBadly, IsQuiet, AgentEnd, Plain
  <2>4. QED
    BY <1>0, <2>1, <2>2, <2>3 DEF HandsInv, PromptLabel, TurnLabel, BatchLabel, SafeLabel, EndLabel
<1>4. QED
  BY <1>1, <1>2, <1>3 DEF RunSteps

\* Where the loop has nothing in hand.
EmptyLabel == BatchLabel \cup {"streaming", "response", "failedTurn", "turnEnded", "catch"}

\* It has said everything before it asks for a response, ...
LEMMA HandsStream ==
  ASSUME TypeOK, HandsInv, EndControl, StreamSteps PROVE HandsInv'
<1>0. activeRun # 0 /\ activeRun' # 0
  BY StreamGoes DEF LoopTurn, EndControl
<1>1. UNCHANGED <<prompts, pending>> /\ EmptyHands /\ pc' \in EmptyLabel \cup {"ended"}
  <2>1. UNCHANGED <<prompts, pending>>
    BY DEF StreamSteps, StreamStart, StreamThrows, StreamDone, ResponseFailed, FailedTurn,
       NoCalls, PlanBatch, Ends, LoopKeeps, LoopFrame, queueVars, inputVars
  <2>2. EmptyHands
    BY DEF StreamSteps, StreamStart, StreamThrows, StreamDone, ResponseFailed, FailedTurn,
       NoCalls, PlanBatch, At, HandsInv, TurnLabel, EmptyHands
  <2>3. pc' \in EmptyLabel \cup {"ended"}
    BY DEF StreamSteps, StreamStart, StreamThrows, StreamDone, ResponseFailed, FailedTurn,
       NoCalls, PlanBatch, Ends, LoopEmits, GoTo, EmptyLabel, BatchLabel
  <2>4. QED
    BY <2>1, <2>2, <2>3
<1>2. EmptyHands' /\ pc' \notin PromptLabel
  BY <1>1 DEF EmptyHands, PromptLabel, EmptyLabel, BatchLabel
<1>3. QED
  BY <1>0, <1>1, <1>2 DEF HandsInv, EmptyHands

\* ... and takes nothing in hand until the calls of the response are answered.
LEMMA HandsBatch ==
  ASSUME TypeOK, HandsInv, EndControl, BatchSteps PROVE HandsInv'
<1>0. activeRun # 0 /\ activeRun' # 0
  BY BatchGoes DEF LoopTurn, EndControl
<1>1. CASE PollSteering
  <2>1. prompts' = <<>> /\ pc' = "top"
    BY <1>1 DEF PollSteering, At, GoTo, HandsInv, TurnLabel
  <2>2. QED
    BY <1>0, <2>1 DEF HandsInv, PromptLabel, TurnLabel, BatchLabel, SafeLabel, EndLabel
<1>2. CASE ~PollSteering
  <2>1. UNCHANGED <<prompts, pending>>
    BY <1>2 DEF BatchSteps, CallStart, CallFailed, CallAborted, CallImmediate, EndsAtOnce,
       CallPrepares, CallPrepared, SequentialExecute, SequentialReturn, ParallelExecute, Join,
       JoinThrows, ResultStart, ResultEnd, BatchDone, CallsLimited, PrepareNextTurnThrows,
       Ends, LoopKeeps, LoopFrame, queueVars, inputVars
  <2>2. pc \in BatchLabel \cup {"turnEnded"}
    BY <1>2 DEF BatchSteps, CallStart, CallFailed, CallAborted, CallImmediate,
       CallPrepares, CallPrepared, SequentialExecute, SequentialReturn, ParallelExecute, Join,
       JoinThrows, ResultStart, ResultEnd, BatchDone, CallsLimited, PrepareNextTurnThrows,
       At, BatchLabel
  <2>3. pc' \in EmptyLabel \cup {"ended", "catchFatal"}
    BY <1>2 DEF BatchSteps, CallStart, CallFailed, CallAborted, CallImmediate, EndsAtOnce,
       CallPrepares, CallPrepared, SequentialExecute, SequentialReturn, ParallelExecute, Join,
       JoinThrows, ResultStart, ResultEnd, BatchDone, CallsLimited, PrepareNextTurnThrows,
       Ends, LoopEmits, GoTo, EmptyLabel, BatchLabel
  <2>4. EmptyHands' /\ pc' \notin PromptLabel
    BY <2>1, <2>2, <2>3 DEF HandsInv, EmptyHands, PromptLabel, TurnLabel, EmptyLabel, BatchLabel
  <2>5. QED
    BY <1>0, <2>4 DEF HandsInv, EmptyHands
<1>3. QED
  BY <1>1, <1>2

\* A failure is reported as an abort only if it came when the hands were empty.
LEMMA HandsFailure ==
  ASSUME TypeOK, HandsInv, EndControl, FailureSteps, ~FinishRun PROVE HandsInv'
<1>0. activeRun # 0 /\ activeRun' # 0
  BY FailureGoes DEF LoopTurn, EndControl
<1>1. UNCHANGED <<prompts, pending>>
  BY DEF FailureSteps, Catch, SynthesizeResults, FixStart, FixEnd, FailStart, FailEnd,
     FailTurn, FailAgent, LoopKeeps, LoopFrame, queueVars, inputVars
<1>2. CASE Catch
  <2>1. ~terminal
    BY <1>2 DEF Catch, EndControl, EndLabel
  <2>2. pc' = "unmatched"
    BY <1>2, <2>1 DEF Catch, GoTo, LoopEmits
  <2>3. verdict' = "aborted" => pc = "catch"
    BY <1>2, <2>1 DEF Catch
  <2>4. verdict' = "aborted" => EmptyHands'
    BY <1>1, <2>3 DEF HandsInv, EmptyHands
  <2>5. QED
    BY <1>0, <2>2, <2>4 DEF HandsInv, PromptLabel, TurnLabel, BatchLabel, SafeLabel, EndLabel
<1>3. CASE FailAgent
  <2>1. pc = "failAgent" /\ pc' = "failEnded" /\ out'[Loop].ev = AgentEnd(verdict)
    BY <1>3, Coroutines DEF FailAgent, At, LoopEmits, TypeOK, EmitType, Emitting
  <2>2. verdict = "error" => EndsBadly'
    BY <2>1 DEF EndsBadly, IsQuiet, AgentEnd, Plain
  <2>3. verdict = "aborted" => EmptyHands'
    BY <1>1, <2>1 DEF HandsInv, SafeLabel, EmptyHands
  <2>4. EmptyHands' \/ EndsBadly'
    BY <2>2, <2>3 DEF TypeOK, FailType
  <2>5. QED
    BY <1>0, <2>1, <2>4 DEF HandsInv, PromptLabel, TurnLabel, BatchLabel, SafeLabel, EndLabel
<1>4. CASE ~Catch /\ ~FailAgent
  <2>1. pc \in SafeLabel \ {"failEnded"} /\ pc' \in SafeLabel \ {"failEnded"} /\ verdict' = verdict
    BY <1>4 DEF FailureSteps, SynthesizeResults, FixStart, FixEnd, FailStart, FailEnd,
       FailTurn, At, LoopEmits, GoTo, LoopKeeps, failVars, SafeLabel
  <2>2. QED
    BY <1>0, <1>1, <2>1 DEF HandsInv, EmptyHands, PromptLabel, TurnLabel, BatchLabel, SafeLabel, EndLabel
<1>5. QED
  BY <1>2, <1>3, <1>4

\* The termination that finishRun reports is that of agent_end, or an error.
LEMMA HandsFinish ==
  ASSUME TypeOK, HandsInv, EndControl, FinishRun PROVE HandsInv'
<1>1. UNCHANGED <<prompts, pending>> /\ pc' = "idle" /\ IsQuiet(Loop) /\ pc \in EndLabel
  BY DEF FinishRun, inputVars, EndLabel
<1>2. EmptyHands \/ lastTermination' \in {"error", "limit"}
  BY <1>1 DEF HandsInv, EndsBadly, FinishRun, FinalTermination
<1>3. QED
  BY <1>1, <1>2 DEF HandsInv, EmptyHands, PromptLabel, TurnLabel, BatchLabel, SafeLabel, EndLabel

\* The listeners may fail the run at any time, and the signal of the run with it.
LEMMA HandsListener ==
  ASSUME TypeOK, ToolInv, HandsInv, EndControl, ObserveInv, ListenerStep PROVE HandsInv'
<1>0. out \in [Coroutine -> Emission] /\ Loop \in Coroutine /\ Loop \notin Call
  BY Coroutines DEF TypeOK, EmitType
<1>1. PICK co \in Coroutine :
        Commit(co) \/ Throw(co) \/ (\E l \in Listener : Skip(co, l) \/ Deliver(co, l) \/ Fail(co, l))
  BY DEF ListenerStep
<1>2. UNCHANGED <<prompts, pending, activeRun, lastTermination, verdict>>
  BY <1>1 DEF Commit, Throw, Skip, Deliver, Fail, inputVars, runVars, failVars
<1>3. EmptyHands' = EmptyHands
  BY <1>2 DEF EmptyHands
<1>4. ASSUME pc' = pc, pc \in EndLabel => (EndsBadly => EndsBadly') PROVE HandsInv'
  BY <1>2, <1>3, <1>4 DEF HandsInv
<1>5. CASE \E l \in Listener : Skip(co, l) \/ Deliver(co, l) \/ Fail(co, l)
  <2>0. \E l, f : out' = [out EXCEPT ![co] = Awaited(@, l, f)]
    BY <1>5 DEF Skip, Deliver, Fail
  <2>1. out'[Loop].ev = out[Loop].ev
    BY <1>0, <2>0 DEF Awaited, Emission
  <2>2. UNCHANGED <<pc, termination>>
    BY <1>5 DEF Skip, Deliver, Fail, endVars
  <2>3. activeRun # 0 => (critical[activeRun] => critical'[activeRun])
    BY <1>5, ActiveRun DEF Skip, Deliver, Fail, signalVars, TypeOK, SignalType
  <2>4. pc \in EndLabel => activeRun # 0
    BY DEF EndControl, EndLabel
  <2>5. QED
    BY <1>2, <1>4, <2>1, <2>2, <2>3, <2>4 DEF EndsBadly, IsQuiet
<1>6. CASE Commit(co) /\ co = Loop
  <2>1. /\ pc' = pc /\ ~IsQuiet(Loop) /\ IsQuiet(Loop)'
        /\ Emits(Loop, "agent_end") => termination' = out[Loop].ev.reason
    BY <1>0, <1>6 DEF Commit, IsQuiet, Quiet, Plain, Emits
  <2>2. pc \in EndLabel => Emits(Loop, "agent_end")
    BY <2>1 DEF EndControl
  <2>3. QED
    BY <1>4, <2>1, <2>2 DEF EndsBadly
<1>7. CASE Throw(co) /\ co = Loop
  <2>1. /\ ~IsQuiet(Loop) /\ IsQuiet(Loop)' /\ out[Loop].fatal
        /\ UNCHANGED <<termination, critical>>
        /\ pc' = (IF pc \in SafeLabel THEN pc ELSE "catchFatal")
    BY <1>0, <1>7 DEF Throw, IsQuiet, Quiet, Plain, endVars, signalVars
  <2>2. critical[activeRun] /\ termination = "none" /\ activeRun # 0
    BY <2>1 DEF ObserveInv
  <2>3. EndsBadly'
    BY <1>2, <2>1, <2>2 DEF EndsBadly
  <2>4. CASE pc \in SafeLabel
    BY <1>4, <2>1, <2>3, <2>4
  <2>5. CASE pc \notin SafeLabel
    <3>1. pc' = "catchFatal" /\ activeRun' # 0
      BY <1>2, <2>1, <2>2, <2>5
    <3>2. QED
      BY <3>1 DEF HandsInv, PromptLabel, TurnLabel, BatchLabel, SafeLabel, EndLabel
  <2>6. QED
    BY <2>4, <2>5
<1>8. CASE (Commit(co) \/ Throw(co)) /\ co # Loop
  <2>1. co \in Call /\ out'[Loop] = out[Loop] /\ UNCHANGED <<pc, critical>>
    BY <1>0, <1>8 DEF Coroutine, Commit, Throw, signalVars
  <2>2. out[co].ev.type # "none" => out[co].ev.type = "tool_execution_end"
    BY <2>1 DEF ToolInv, CallsEmit, Emits, IsQuiet
  <2>3. termination' = termination
    BY <1>8, <2>2 DEF Commit, Throw, IsQuiet, endVars
  <2>4. QED
    BY <1>2, <1>4, <2>1, <2>3 DEF EndsBadly, IsQuiet
<1>9. QED
  BY <1>1, <1>5, <1>6, <1>7, <1>8

\* Every step keeps what is known of the hands.
LEMMA NextHands ==
  ASSUME TypeOK, ToolInv, HandsInv, EndControl, ObserveInv, [Next]_vars PROVE HandsInv'
<1>1. ASSUME NEW ps, NEW skip, StartRun(ps, skip) PROVE HandsInv'
  <2>1. pc' = "started" /\ pending' = <<>> /\ activeRun' # 0
    BY <1>1 DEF StartRun, TypeOK, RunType, Run
  <2>2. QED
    BY <2>1 DEF HandsInv, PromptLabel, TurnLabel, BatchLabel, SafeLabel, EndLabel
<1>2. ASSUME UNCHANGED <<prompts, pending, activeRun, lastTermination, verdict, pc, termination,
                         critical>>,
             out'[Loop] = out[Loop]
      PROVE  HandsInv'
  BY <1>2 DEF HandsInv, EmptyHands, EndsBadly, IsQuiet
<1>3. CASE UserStep
  <2>1. CASE UNCHANGED Outside \/ Abort
    BY <1>2, <2>1 DEF Outside, Abort, runVars, signalVars, endVars, emitVars, inputVars, failVars
  <2>2. QED
    BY <1>1, <1>3, <2>1, UserDoes
<1>4. CASE ToolStep
  <2>1. out'[Loop] = out[Loop]
    BY <1>4, Coroutines DEF ToolStep, ParallelReturn, ToolsEmitEnd, TypeOK, EmitType
  <2>2. QED
    BY <1>2, <1>4, <2>1 DEF ToolStep, ParallelReturn, runVars, signalVars, endVars, inputVars, failVars
<1>5. CASE UNCHANGED vars
  BY <1>2, <1>5 DEF vars
<1>6. CASE ListenerStep
  BY <1>6, HandsListener
<1>7. CASE LoopStep
  BY <1>7, HandsRun, HandsStream, HandsBatch, HandsFailure, HandsFinish DEF LoopStep
<1>8. QED
  BY <1>3, <1>4, <1>5, <1>6, <1>7 DEF Next

\* At the start no message was sent, and nothing is in hand.
LEMMA InitHands == Init => HandsInv /\ PlacesInv
<1> SUFFICES ASSUME Init PROVE HandsInv /\ PlacesInv
  OBVIOUS
<1>1. HandsInv
  BY DEF Init, HandsInv, EmptyHands, PromptLabel, TurnLabel, BatchLabel, SafeLabel, EndLabel
<1>2. ASSUME NEW t \in Text PROVE Places(t) <= (IF t <= sent THEN 1 ELSE 0)
  <2>1. /\ Times(steeringQueue, t) = 0 /\ Times(followUpQueue, t) = 0
        /\ Times(prompts, t) = 0 /\ Times(pending, t) = 0
    BY TimesFew DEF Init
  <2>2. dropped \cap {t} = {} /\ UserSays(t) = {}
    BY DEF Init, UserSays
  <2>3. Places(t) = 0
    <3>1. TypeOK
      BY InitType
    <3>2. Places(t) = 0 + 0 + 0 + 0 + 0 + 0
      BY <2>1, <2>2, <3>1, CountsAre, FS_EmptySet
    <3>3. QED
      BY <3>2
  <2>4. QED
    BY <2>3 DEF Init, Text
<1>3. QED
  BY <1>1, <1>2 DEF PlacesInv

\* No user message is said twice, none is taken out of a queue and forgotten, and none is lost
\* except one that a run which failed or came to a limit had still in hand (agent.ts, the
\* queues, continue and finishRun; agent-loop.ts, the polls of runLoop).
THEOREM MessagesStay == Spec => MessagesConserved
<1> DEFINE Inv == /\ TypeOK /\ ExecInv /\ ToolInv /\ AnswersInv /\ EndInv /\ ObserveInv
                  /\ HandsInv /\ PlacesInv
<1>1. Init => Inv
  BY InitType, InitExec, InitTool, InitAnswers, InitEnd, InitObserve, InitHands
<1>2. Inv /\ [Next]_vars => Inv' /\ Conserved
  <2> SUFFICES ASSUME Inv, [Next]_vars PROVE Inv' /\ Conserved
    OBVIOUS
  <2>1. TypeOK' /\ ExecInv' /\ ToolInv' /\ AnswersInv'
    BY NextType, NextExec, NextTool, NextAnswers
  <2>2. EndInv' /\ ObserveInv'
    BY EndControls, NextAwaited, NextObserve DEF EndInv
  <2>3. HandsInv' /\ PlacesInv' /\ Conserved
    BY <2>1, NextHands, NextPlaces DEF EndInv
  <2>4. QED
    BY <2>1, <2>2, <2>3
<1>3. QED
  BY <1>1, <1>2, PTL DEF Spec, MessagesConserved, Conserved
=============================================================================
