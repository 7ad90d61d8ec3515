---------------------------- MODULE AgentSession ----------------------------
(***************************************************************************)
(* packages/coding-agent/src/core/agent-session.ts: what AgentSession does *)
(* around the runs of its agent.  prompt() checks whether to compact,      *)
(* starts a run, and after it retries, compacts or continues until nothing *)
(* is left to do.  Meanwhile messages are queued, commands of the user's   *)
(* shell are recorded, and abort() and compact() interrupt.                *)
(*                                                                         *)
(* A run of the agent is AgentRun with everything left out that its        *)
(* session cannot see: the messages of a run are added one by one, and     *)
(* its listeners do not fail.  The path of the session is that of          *)
(* SessionManager, whose file does not fail either, and is compacted as    *)
(* Compaction says; how full the context is, is for TLC to choose.  Both   *)
(* queues deliver one message at a time, their default.  Extensions'       *)
(* messages, navigation in the tree and changes of the model are left out. *)
(*                                                                         *)
(* The session itself does not keep its callers apart.  They are taken to  *)
(* do as the terminal's user interface does: a prompt does not begin while *)
(* another is not running yet or while compact() is at work, and compact() *)
(* is not called before a prompt has begun to run.                         *)
(***************************************************************************)
EXTENDS Compaction

CONSTANTS
  Prompts,         \* calls of prompt(); one made from agent_settled overlaps its cause
  None,
  MaxRetries,      \* settings: retry.maxRetries
  KeepRecent,      \* settings: compaction.keepRecentTokens
  Scenarios        \* the bounds, one record of which holds for a whole behaviour:
                   \*   stops: how responses end, see Stop
                   \*   texts: messages of the user
                   \*   tools: responses that call a tool
                   \*   bash: commands of the user's shell
                   \*   aborts: calls of abort() and abortRetry()
                   \*   compacts: calls of compact()
                   \*   large: responses that leave the context above the threshold

\* An error is worth a retry or not (fatal); an overflow is reported as an error,
\* or by a response that was cut short and is empty (length).
Stop == {"stop", "toolUse", "error", "fatal", "overflow", "length", "aborted"}

ASSUME AgentSessionAssumption ==
  /\ MaxRetries \in Nat /\ KeepRecent \in Nat \ {0}
  /\ \A b \in Scenarios :
       /\ "stop" \in b.stops /\ b.stops \subseteq Stop \ {"aborted"}
       /\ {b.texts, b.tools, b.bash, b.aborts, b.compacts, b.large} \subseteq Nat

\* A message that lasts or an entry of the session; stop is how a response ended.
Entry ==
  {m \in [id : Nat, kind : {"user", "assistant", "toolResult", "bash", "compaction"},
          stop : Stop \cup {"none"}, ref : Nat, covers : SUBSET Nat] :
     (m.kind # "assistant") <=> (m.stop = "none")}
Preparation == [firstKept : Nat, covers : SUBSET Nat]
AutoCompaction == [pre : BOOLEAN, willRetry : BOOLEAN, prep : {None} \cup Preparation]

ASSUME NoneAssumption == None \notin Entry \cup Preparation \cup AutoCompaction /\ IsFiniteSet(Prompts)

VARIABLES
  context,            \* agent.state.messages
  branch,             \* the entries from the root of the session to its leaf
  run,                \* the agent's active run
  steering, followUp, \* the queues of the agent
  displayed,          \* _steeringMessages and _followUpMessages
  isAgentRunActive,
  lastAssistant,
  agentEndSeen,
  retryAttempt,
  overflowAttempted,
  pendingBash,
  connected,          \* whether the session listens to the agent
  prompt,             \* prompt[p]: how far the call is
  text,               \* text[p]: its message
  auto,               \* the automatic compaction, or None
  manual,             \* how far compact() is
  manualPrep,         \* its preparation
  large,              \* so far
  waiting,            \* the calls that wait for the session to be idle
  nextId,             \* messages are numbered in the order in which they are made
  used,               \* the texts, tools, ... so far
  bounds,             \* the scenario
  unheard,            \* history: the messages added while nobody listened
  cleared             \* history: the messages that clearQueue gave back

log == <<context, branch, unheard>>
queues == <<steering, followUp, displayed, cleared>>
outcome == <<lastAssistant, agentEndSeen, retryAttempt, overflowAttempted>>
calls == <<prompt, text, auto>>
compaction == <<manual, manualPrep, connected>>
flow == <<isAgentRunActive, waiting>>
ids == <<nextId, bounds>>
vars == <<log, run, queues, outcome, calls, compaction, flow, pendingBash, ids, used, large>>

Message(id, kind, stop) == [id |-> id, kind |-> kind, stop |-> stop, ref |-> 0, covers |-> {}]
User(id) == Message(id, "user", "none")

NoRun == [phase |-> "none", pending |-> <<>>, skip |-> FALSE, aborted |-> FALSE, termination |-> "none"]

Init ==
  /\ context = <<>> /\ branch = <<>> /\ unheard = {} /\ run = NoRun
  /\ steering = <<>> /\ followUp = <<>> /\ displayed = {} /\ cleared = {}
  /\ lastAssistant = None /\ agentEndSeen = FALSE /\ retryAttempt = 0
  /\ overflowAttempted = FALSE /\ isAgentRunActive = FALSE /\ waiting = {}
  /\ prompt = [p \in Prompts |-> "idle"] /\ text = [p \in Prompts |-> 0] /\ auto = None
  /\ manual = "idle" /\ manualPrep = None /\ connected = TRUE
  /\ pendingBash = <<>> /\ nextId = 1
  /\ used = [texts |-> 0, tools |-> 0, bash |-> 0, aborts |-> 0, compacts |-> 0]
  /\ large = 0 /\ bounds \in Scenarios

Uses(what) == used[what] < bounds[what] /\ used' = [used EXCEPT ![what] = @ + 1]
NewId == nextId' = nextId + 1 /\ UNCHANGED bounds

At(p, step) == prompt' = [prompt EXCEPT ![p] = step]

Failed(m) == m.stop \in {"error", "fatal", "overflow"}       \* stopReason "error"
Overflowed(m) == m.stop \in {"overflow", "length"}           \* isContextOverflow
Retryable(m) == m.stop = "error"

HasQueuedMessages == steering # <<>> \/ followUp # <<>>

\* The failed response is taken out of the context of the agent.
WithoutLastAssistant(ctx) ==
  IF ctx # <<>> /\ Last(ctx).kind = "assistant" THEN Front(ctx) ELSE ctx

-----------------------------------------------------------------------------
(* Messages that a run adds, and who hears of them. *)

\* The message_end of m: the agent keeps it, and the persistence listener saves it.
Added(m) ==
  /\ context' = Append(context, m)
  /\ branch' = IF connected THEN Append(branch, m) ELSE branch
  /\ unheard' = IF connected THEN unheard ELSE unheard \cup {m}

StartRun(messages, skip) ==
  run' = [NoRun EXCEPT !.phase = "prompts", !.pending = messages, !.skip = skip]

\* What is displayed as queued after the message is delivered.
Delivered(id) == displayed \ {id}

(* A prompt, or a queued message that the run has taken, is added.  Its
   message_start takes it off the messages displayed as queued. *)
MessageAdded ==
  /\ run.phase \in {"prompts", "request"} /\ run.pending # <<>>
  /\ run' = [run EXCEPT !.pending = Tail(@)]
  /\ Added(User(Head(run.pending)))
  /\ displayed' = IF connected THEN Delivered(Head(run.pending)) ELSE displayed
  /\ overflowAttempted' = (overflowAttempted /\ ~connected)
  /\ UNCHANGED <<steering, followUp, cleared, lastAssistant, agentEndSeen, retryAttempt, calls,
                 compaction, flow, pendingBash, ids, used, large>>

Ends(termination) == run' = [run EXCEPT !.phase = "end", !.termination = termination]
Requests(messages) == run' = [run EXCEPT !.phase = "request", !.pending = messages, !.skip = FALSE]

AfterFirst(queue) == Tail(queue)

(* The head of the loop, reached with a turn to do: at the start, and after the
   results of a tool. *)
TurnBegins ==
  /\ run.phase \in {"turn", "prompts"} /\ run.pending = <<>>
  /\ IF steering # <<>> /\ ~run.skip
     THEN Requests(<<Head(steering)>>) /\ steering' = AfterFirst(steering)
     ELSE /\ IF run.aborted THEN Ends("aborted") ELSE Requests(<<>>)
          /\ UNCHANGED steering
  /\ UNCHANGED <<log, followUp, displayed, cleared, outcome, calls, compaction, flow,
                 pendingBash, ids, used, large>>

(* The response was the last one, unless something is queued. *)
TurnEnds ==
  /\ run.phase = "stopped"
  /\ IF steering # <<>>
     THEN Requests(<<Head(steering)>>) /\ steering' = AfterFirst(steering) /\ UNCHANGED followUp
     ELSE /\ UNCHANGED steering
          /\ IF followUp # <<>>
             THEN Requests(<<Head(followUp)>>) /\ followUp' = AfterFirst(followUp)
             ELSE Ends(IF run.aborted THEN "aborted" ELSE "completed") /\ UNCHANGED followUp
  /\ UNCHANGED <<log, displayed, cleared, outcome, calls, compaction, flow, pendingBash,
                 ids, used, large>>

\* overflowAttempted after the response m.
StillAttempted(m) == overflowAttempted /\ Failed(m)

\* The phase after a response.
AfterResponse(stop) ==
  CASE stop = "toolUse" -> [run EXCEPT !.phase = "tool"]
    [] stop \in {"stop", "length"} -> [run EXCEPT !.phase = "stopped"]
    [] OTHER -> [run EXCEPT !.phase = "end",
                   !.termination = IF stop = "aborted" THEN "aborted" ELSE "error"]

Responds ==
  /\ run.phase = "request" /\ run.pending = <<>>
  /\ \E stop \in (IF run.aborted THEN {"aborted"} ELSE bounds.stops) :
       LET m == Message(nextId, "assistant", stop)
       IN  /\ IF stop = "toolUse" THEN Uses("tools") ELSE UNCHANGED used
           /\ Added(m)
           /\ run' = AfterResponse(stop)
           /\ IF connected
              THEN /\ lastAssistant' = m
                   /\ overflowAttempted' = StillAttempted(m)
                   /\ retryAttempt' = IF Failed(m) THEN retryAttempt ELSE 0
              ELSE UNCHANGED <<lastAssistant, overflowAttempted, retryAttempt>>
  /\ NewId
  /\ UNCHANGED <<queues, agentEndSeen, calls, compaction, flow, pendingBash, large>>

ToolReturns ==
  /\ run.phase = "tool"
  /\ Added([Message(nextId, "toolResult", "none") EXCEPT !.ref = Last(context).id])
  /\ run' = [run EXCEPT !.phase = "turn"]
  /\ NewId
  /\ UNCHANGED <<queues, outcome, calls, compaction, flow, pendingBash, used, large>>

RunStep == MessageAdded \/ TurnBegins \/ TurnEnds \/ Responds \/ ToolReturns

-----------------------------------------------------------------------------
(* The end of a prompt, and what follows a run. *)

\* Slip: what waited is shown to the model and not saved.
SavedBashNone == <<>>
SavedBash == pendingBash

\* _flushPendingBashMessages, into the given context and path.
FlushBash(ctx, path) ==
  /\ context' = ctx \o pendingBash
  /\ branch' = path \o SavedBash
  /\ pendingBash' = <<>>

(* The finally of _runAgentPrompt, up to the listeners of agent_settled. *)
Finish(p, ctx, path) ==
  /\ FlushBash(ctx, path)
  /\ isAgentRunActive' = FALSE
  /\ At(p, "settling")
  /\ run' = NoRun

(* agent.continue(): after a message of the assistant only with a queued message;
   without one it throws, and so does the prompt. *)
Continue(p, ctx, path) ==
  LET afterAssistant == ctx # <<>> /\ Last(ctx).kind = "assistant"
      Starts(messages, skip) ==
        /\ StartRun(messages, skip)
        /\ context' = ctx /\ branch' = path
        /\ agentEndSeen' = ~connected
        /\ At(p, "running")
        /\ UNCHANGED <<pendingBash, isAgentRunActive>>
  IN  \/ /\ ctx # <<>> /\ ~afterAssistant
         /\ Starts(<<>>, FALSE)
         /\ UNCHANGED <<steering, followUp>>
      \/ /\ afterAssistant /\ steering # <<>>
         /\ Starts(<<Head(steering)>>, TRUE)
         /\ steering' = AfterFirst(steering) /\ UNCHANGED followUp
      \/ /\ afterAssistant /\ steering = <<>> /\ followUp # <<>>
         /\ Starts(<<Head(followUp)>>, FALSE)
         /\ followUp' = AfterFirst(followUp) /\ UNCHANGED steering
      \/ /\ ctx = <<>> \/ (afterAssistant /\ ~HasQueuedMessages)
         /\ Finish(p, ctx, path)
         /\ agentEndSeen' = TRUE
         /\ UNCHANGED <<steering, followUp>>

\* What is left to do once there is nothing to retry or to compact.
ContinueOrFinish(p, ctx, path) ==
  IF HasQueuedMessages THEN Continue(p, ctx, path)
  ELSE Finish(p, ctx, path) /\ agentEndSeen' = TRUE /\ UNCHANGED <<steering, followUp>>

MayRetry == retryAttempt < MaxRetries

\* Slip: an overflow is announced as a retry.
WillRetryOverflow == retryAttempt < MaxRetries /\ (Retryable(Last(context)) \/ Overflowed(Last(context)))

\* _willRetryAfterAgentEnd: what agent_end announces to the clients.
WillRetryAfterAgentEnd == retryAttempt < MaxRetries /\ Retryable(Last(context))

FromBeforeCompaction(m) ==
  LET c == LastCompaction(branch) IN c # 0 /\ m.id < branch[c].id

(* _checkCompaction: nothing to compact for, a recovery from an overflow, or a
   context above the threshold, which an overflow that was given up is not
   compared with. *)
CheckCompaction(m, skipAborted) ==
  IF (skipAborted /\ m.stop = "aborted") \/ FromBeforeCompaction(m) THEN {"none"}
  ELSE IF Overflowed(m) THEN {IF overflowAttempted THEN "none" ELSE "recover"}
  ELSE {"none", "threshold"}

(* What _checkCompaction does, when it compacts, before its first await. *)
Compacts(p, verdict, pre, ctx) ==
  /\ IF verdict = "threshold"
     THEN /\ large < bounds.large /\ large' = large + 1
          /\ context' = ctx
          /\ UNCHANGED overflowAttempted
     ELSE /\ overflowAttempted' = TRUE
          /\ context' = WithoutLastAssistant(ctx)
          /\ UNCHANGED large
  /\ auto' = [pre |-> pre, willRetry |-> verdict = "recover", prep |-> None]
  /\ At(p, "authorizing")

(* The run has ended: agent_end is heard, and _handlePostAgentRun decides. *)
RunEnds(p) ==
  LET m == lastAssistant
      seen == agentEndSeen \/ connected
  IN  /\ prompt[p] = "running" /\ run.phase = "end"
      /\ lastAssistant' = IF seen THEN None ELSE m
      /\ \/ /\ ~seen \/ m = None \/ run.termination = "aborted"
            /\ Finish(p, context, branch)
            /\ agentEndSeen' = seen
            /\ UNCHANGED <<retryAttempt, overflowAttempted, auto, steering, followUp, large>>
         \/ /\ seen /\ m # None /\ run.termination # "aborted"
            /\ \/ /\ Retryable(m) /\ MayRetry
                  /\ retryAttempt' = retryAttempt + 1
                  /\ context' = WithoutLastAssistant(context)
                  /\ At(p, "sleep") /\ run' = NoRun /\ agentEndSeen' = seen
                  /\ UNCHANGED <<branch, overflowAttempted, auto, flow, pendingBash, steering,
                                 followUp, large>>
               \/ /\ ~(Retryable(m) /\ MayRetry)
                  /\ retryAttempt' = IF Failed(m) THEN 0 ELSE retryAttempt
                  /\ \E verdict \in CheckCompaction(m, TRUE) :
                       \/ /\ verdict = "none"
                          /\ ContinueOrFinish(p, context, branch)
                          /\ UNCHANGED <<overflowAttempted, auto, large>>
                       \/ /\ verdict # "none"
                          /\ Compacts(p, verdict, FALSE, context)
                          /\ run' = NoRun /\ agentEndSeen' = seen
                          /\ UNCHANGED <<branch, flow, pendingBash, steering, followUp>>
      /\ UNCHANGED <<unheard, displayed, cleared, text, compaction, waiting, ids, used>>

(* The delay of a retry is over. *)
RetryBegins(p) ==
  /\ prompt[p] = "sleep"
  /\ Continue(p, context, branch)
  /\ UNCHANGED <<unheard, displayed, cleared, lastAssistant, retryAttempt, overflowAttempted,
                 text, auto, compaction, waiting, ids, used, large>>

(* The delay was cancelled: the response that failed counts as the last word,
   and the messages that are queued are still delivered. *)
RetryCancelled(p) ==
  /\ prompt[p] = "cancelled"
  /\ retryAttempt' = 0
  /\ \/ /\ ContinueOrFinish(p, context, branch)
        /\ UNCHANGED <<overflowAttempted, auto, large>>
     \/ /\ Compacts(p, "threshold", FALSE, context)
        /\ UNCHANGED <<branch, run, agentEndSeen, isAgentRunActive, pendingBash, steering, followUp>>
  /\ UNCHANGED <<unheard, displayed, cleared, lastAssistant, text, compaction, waiting, ids, used>>

(* _emitAgentSettled, after the listeners of agent_settled. *)

\* Slip: the later of two waits takes the place of the earlier one.
ReleasedLatest ==
  IF isAgentRunActive THEN {}
  ELSE IF "compact" \in waiting THEN {"compact"} ELSE waiting
Released == IF isAgentRunActive THEN {} ELSE waiting

Settles(p) ==
  /\ prompt[p] = "settling"
  /\ At(p, "idle")
  /\ waiting' = waiting \ Released
  /\ manual' = IF "compact" \in Released THEN "authorizing" ELSE manual
  /\ UNCHANGED <<log, run, queues, outcome, text, auto, manualPrep, connected, isAgentRunActive,
                 pendingBash, ids, used, large>>

-----------------------------------------------------------------------------
(* Automatic compaction: _runAutoCompaction. *)

\* The caller goes on: prompt() with its message, or the end of a run.
Resumes(p, again, ctx, path) ==
  /\ auto' = None
  /\ \/ /\ auto.pre
        /\ At(p, "preflight")
        /\ context' = ctx /\ branch' = path
        /\ UNCHANGED <<run, agentEndSeen, isAgentRunActive, pendingBash, steering, followUp>>
     \/ ~auto.pre /\ again /\ Continue(p, ctx, path)
     \/ ~auto.pre /\ ~again /\ ContinueOrFinish(p, ctx, path)

CompactionPrepared(p) ==
  LET prep == PrepareCompaction(branch, KeepRecent, None)
  IN  /\ prompt[p] = "authorizing" /\ prep # None
      /\ At(p, "summarizing")
      /\ auto' = [auto EXCEPT !.prep = prep]
      /\ UNCHANGED <<log, run, queues, outcome, text, compaction, flow, pendingBash, ids, used, large>>

\* No credentials, nothing to compact, a failure or abortCompaction().
CompactionFails(p) ==
  /\ prompt[p] \in {"authorizing", "summarizing"}
  /\ Resumes(p, FALSE, context, branch)
  /\ UNCHANGED <<unheard, displayed, cleared, lastAssistant, retryAttempt, overflowAttempted,
                 text, compaction, waiting, ids, used, large>>

CompactionEntry(prep) ==
  [id |-> nextId, kind |-> "compaction", stop |-> "none", ref |-> prep.firstKept,
   covers |-> prep.covers]

\* appendCompaction.
CompactedPath(prep) == Append(branch, CompactionEntry(prep))

\* The context of a retry: without the error, which the rebuilt context has again.
RetryContext(ctx) ==
  IF ctx # <<>> /\ Last(ctx).kind = "assistant" /\ Failed(Last(ctx)) THEN Front(ctx) ELSE ctx

CompactionDone(p) ==
  LET path == CompactedPath(auto.prep)
      ctx == ContextEntries(path)
  IN  /\ prompt[p] = "summarizing"
      /\ Resumes(p, auto.willRetry, IF auto.willRetry THEN RetryContext(ctx) ELSE ctx, path)
      /\ NewId
      /\ UNCHANGED <<unheard, displayed, cleared, lastAssistant, retryAttempt, overflowAttempted,
                     text, compaction, waiting, used, large>>

-----------------------------------------------------------------------------
(* What clients call. *)

LastAssistantIn(ctx) == SelectLastInSubSeq(ctx, 1, Len(ctx), LAMBDA m : m.kind = "assistant")

(* prompt() while no run is active, up to its first await: it checks whether to
   compact before the message is sent. *)
PromptCalled(p) ==
  LET ctx == context \o pendingBash
      i == LastAssistantIn(ctx)
  IN  /\ prompt[p] = "idle" /\ ~isAgentRunActive
      /\ \A q \in Prompts : prompt[q] \in {"idle", "settling"}
      /\ manual = "idle" /\ Uses("texts")
      /\ text' = [text EXCEPT ![p] = nextId]
      /\ branch' = branch \o SavedBash /\ pendingBash' = <<>>
      /\ \E verdict \in (IF i = 0 THEN {"none"} ELSE CheckCompaction(ctx[i], FALSE)) :
           \/ /\ verdict = "none"
              /\ At(p, "preflight")
              /\ context' = ctx
              /\ UNCHANGED <<overflowAttempted, auto, large>>
           \/ verdict # "none" /\ Compacts(p, verdict, TRUE, ctx)
  /\ NewId
  /\ UNCHANGED <<unheard, run, queues, lastAssistant, agentEndSeen, retryAttempt, compaction, flow>>

(* The listeners of before_agent_start have returned: _runAgentPrompt. *)
PromptRuns(p) ==
  /\ prompt[p] = "preflight"
  /\ isAgentRunActive' = TRUE
  /\ StartRun(<<text[p]>>, FALSE)
  /\ agentEndSeen' = (agentEndSeen /\ ~connected)
  /\ At(p, "running")
  /\ UNCHANGED <<log, queues, lastAssistant, retryAttempt, overflowAttempted, text, auto,
                 compaction, waiting, pendingBash, ids, used, large>>

\* steer() and followUp(), and prompt() while a run is active.
Queue ==
  /\ Uses("texts") /\ NewId
  /\ displayed' = displayed \cup {nextId}
  /\ \/ steering' = Append(steering, nextId) /\ UNCHANGED followUp
     \/ followUp' = Append(followUp, nextId) /\ UNCHANGED steering
  /\ UNCHANGED <<log, run, cleared, outcome, calls, compaction, flow, pendingBash, large>>

ClearQueue ==
  /\ HasQueuedMessages
  /\ cleared' = cleared \cup Range(steering) \cup Range(followUp)
  /\ steering' = <<>> /\ followUp' = <<>> /\ displayed' = {}
  /\ UNCHANGED <<log, run, outcome, calls, compaction, flow, pendingBash, ids, used, large>>

BashWaits == isAgentRunActive

\* recordBashResult.
RecordBashResult ==
  LET m == Message(nextId, "bash", "none")
  IN  /\ Uses("bash") /\ NewId
      /\ IF BashWaits
         THEN pendingBash' = Append(pendingBash, m) /\ UNCHANGED <<context, branch>>
         ELSE context' = Append(context, m) /\ branch' = Append(branch, m) /\ UNCHANGED pendingBash
      /\ UNCHANGED <<unheard, run, queues, outcome, calls, compaction, flow, large>>

\* abortRetry.
RetryAborts ==
  prompt' = [p \in Prompts |-> IF prompt[p] = "sleep" THEN "cancelled" ELSE prompt[p]]

\* abort() up to its wait, made by abort itself or by compact.
Aborts(who) ==
  /\ RetryAborts
  /\ run' = IF run.phase = "none" THEN run ELSE [run EXCEPT !.aborted = TRUE]
  /\ waiting' = IF isAgentRunActive THEN waiting \cup {who} ELSE waiting

Abort ==
  /\ Uses("aborts") /\ isAgentRunActive
  /\ Aborts("abort")
  /\ UNCHANGED <<log, queues, outcome, text, auto, compaction, isAgentRunActive, pendingBash, ids, large>>

AbortRetry ==
  /\ Uses("aborts") /\ \E p \in Prompts : prompt[p] = "sleep"
  /\ RetryAborts
  /\ UNCHANGED <<log, run, queues, outcome, text, auto, compaction, flow, pendingBash, ids, large>>

(* compact(): it stops listening to the agent before it aborts the run. *)
Compact ==
  /\ Uses("compacts") /\ manual = "idle"
  /\ isAgentRunActive \/ \A p \in Prompts : prompt[p] \in {"idle", "settling"}
  /\ connected' = FALSE
  /\ Aborts("compact")
  /\ manual' = IF isAgentRunActive THEN "waiting" ELSE "authorizing"
  /\ UNCHANGED <<log, queues, outcome, text, auto, manualPrep, isAgentRunActive, pendingBash, ids, large>>

ManualPrepared ==
  LET prep == PrepareCompaction(branch, KeepRecent, None)
  IN  /\ manual = "authorizing" /\ prep # None
      /\ manual' = "summarizing" /\ manualPrep' = prep
      /\ UNCHANGED <<log, run, queues, outcome, calls, connected, flow, pendingBash, ids, used, large>>

\* The finally of compact().
Reconnects == connected' = TRUE /\ manual' = "idle" /\ manualPrep' = None

ManualFails ==
  /\ manual \in {"authorizing", "summarizing"}
  /\ Reconnects
  /\ UNCHANGED <<log, run, queues, outcome, calls, flow, pendingBash, ids, used, large>>

ManualDone ==
  /\ manual = "summarizing"
  /\ branch' = CompactedPath(manualPrep)
  /\ context' = ContextEntries(branch')
  /\ Reconnects /\ NewId
  /\ UNCHANGED <<unheard, run, queues, outcome, calls, flow, pendingBash, used, large>>

PromptStep(p) ==
  \/ RunEnds(p) \/ RetryBegins(p) \/ RetryCancelled(p) \/ Settles(p)
  \/ CompactionPrepared(p) \/ CompactionFails(p) \/ CompactionDone(p) \/ PromptRuns(p)

ManualStep == ManualPrepared \/ ManualFails \/ ManualDone

ClientStep ==
  \/ \E p \in Prompts : PromptCalled(p)
  \/ Queue \/ ClearQueue \/ RecordBashResult \/ Abort \/ AbortRetry \/ Compact

Proceed == RunStep \/ ManualStep \/ \E p \in Prompts : PromptStep(p)

Next == Proceed \/ ClientStep

Spec == Init /\ [][Next]_vars

(* Providers answer, tools return, delays pass, and the listeners of extensions
   return. *)
Pending ==
  \/ run.phase # "none" \/ manual \in {"authorizing", "summarizing"}
  \/ \E p \in Prompts : prompt[p] \notin {"idle", "running"}

FairSpec == Spec /\ ([]<>~Pending \/ []<><<Proceed>>_vars)

-----------------------------------------------------------------------------
(* Properties. *)

TypeOK ==
  /\ isAgentRunActive \in BOOLEAN /\ agentEndSeen \in BOOLEAN /\ connected \in BOOLEAN
  /\ retryAttempt \in 0..MaxRetries /\ overflowAttempted \in BOOLEAN
  /\ prompt \in [Prompts -> {"idle", "authorizing", "summarizing", "preflight", "running",
                             "sleep", "cancelled", "settling"}]
  /\ manual \in {"idle", "waiting", "authorizing", "summarizing"}
  /\ waiting \subseteq {"abort", "compact"}
  /\ run.phase \in {"none", "prompts", "turn", "request", "tool", "stopped", "end"}
  /\ run.termination \in {"none", "completed", "error", "aborted"}
  /\ (manual = "idle") = connected
  /\ \A p \in Prompts : prompt[p] \in {"authorizing", "summarizing"} => auto # None
  /\ \A q \in {steering, followUp, run.pending} : Range(q) \subseteq 1..(nextId - 1)

\* The context of the agent is what the session would be opened with again, but for
\* the responses that failed, which a retry takes out of the context, and for what was
\* added while compact() had the session not listening.
ContextIsSession ==
  LET path == ContextEntries(branch)
      Lasting(msgs) ==
        {i \in DOMAIN msgs : ~Failed(msgs[i]) /\ ~Overflowed(msgs[i]) /\ msgs[i] \notin unheard}
      mine == Lasting(context)
      saved == Lasting(path)
  IN  /\ \A i \in mine : \E j \in saved : context[i] = path[j]
      /\ \A j \in saved : \E i \in mine : context[i] = path[j]
      /\ \A h, i \in mine : \A j, k \in saved :
           context[h] = path[j] /\ context[i] = path[k] => (h < i <=> j < k)

\* What a provider requires: a tool result comes right after its call, and nothing
\* comes after a call but its result, which can only be missing when a compaction
\* interrupted the call.
ResultsFollowCalls ==
  \A i \in DOMAIN context :
    /\ context[i].kind = "toolResult" =>
         i > 1 /\ context[i - 1].stop = "toolUse" /\ context[i].ref = context[i - 1].id
    /\ context[i].stop = "toolUse" =>
         \/ i = Len(context) /\ run.phase = "tool"
         \/ i < Len(context) /\ context[i + 1].kind = "toolResult"
         \/ \E m \in unheard : m.ref = context[i].id

\* Every message of the user is in one place: queued, taken by a run, with a prompt
\* that does not run yet, in the session, given back by clearQueue, or, when compact()
\* had the session not listening, only in the context of the agent.
MessagesKept ==
  LET early == {p \in Prompts : prompt[p] \in {"preflight", "authorizing", "summarizing"}
                                /\ (auto # None => auto.pre)}
      lost == {m.id : m \in {n \in unheard : n.kind = "user"}}
      saved == {i \in DOMAIN branch : branch[i].kind = "user"}
  IN  /\ Len(steering) + Len(followUp) + Len(run.pending) + Cardinality(saved)
           + Cardinality(cleared) + Cardinality(lost) + Cardinality(early) = used.texts
      /\ Cardinality(Range(steering) \cup Range(followUp) \cup Range(run.pending)
           \cup {branch[i].id : i \in saved} \cup cleared \cup lost
           \cup {text[p] : p \in early}) = used.texts

\* Clients are shown as queued what is queued: every message that a run will still take,
\* and no other that the session heard of.
DisplayedIsQueued ==
  LET queued == Range(steering) \cup Range(followUp)
  IN  /\ queued \subseteq displayed
      /\ displayed \subseteq queued \cup Range(run.pending) \cup {m.id : m \in unheard}

\* A request that keeps failing is given up: the failures since the last message of the
\* user or the last response that did not fail are the retries and one recovery from an
\* overflow with its own retries, and again for every retry that was cancelled.
FailuresBounded ==
  LET resets == {i \in DOMAIN branch : branch[i].kind = "user"
                   \/ (branch[i].kind = "assistant" /\ ~Failed(branch[i]))}
      failures == {i \in DOMAIN branch : Failed(branch[i]) /\ \A r \in resets : r < i}
  IN  Cardinality(failures) <= (MaxRetries + 1) * (2 + used.aborts + used.compacts)

\* The end of a run is announced as final exactly when no retry follows.
WillRetryIsTrue ==
  [][\A p \in Prompts :
       prompt[p] = "running" /\ run.phase = "end" /\ run'.phase # "end" /\ connected =>
         (prompt'[p] = "sleep" <=> WillRetryAfterAgentEnd)]_vars

\* Who waited for the session to be idle finds it so: no run, no retry, and nothing left
\* to do after a run.
WaitersSeeIdle ==
  [][~(waiting \subseteq waiting') =>
       /\ ~isAgentRunActive /\ run.phase = "none"
       /\ \A p \in Prompts : \/ prompt[p] \in {"idle", "settling", "preflight"}
                            \/ (auto # None /\ auto.pre)]_vars

\* A prompt does not end with messages in the queues, unless its last run was aborted
\* or compact() interrupts it.
NothingStranded ==
  [][\A p \in Prompts :
       prompt[p] # "settling" /\ prompt'[p] = "settling" =>
         \/ steering' = <<>> /\ followUp' = <<>>
         \/ run.termination = "aborted" \/ manual # "idle"]_vars

\* Every prompt and every compact() comes to its end, and nobody waits for ever.
Busy == manual # "idle" \/ waiting # {} \/ \E p \in Prompts : prompt[p] # "idle"
EverySettles == Busy ~> ~Busy

(* What the documentation says and the code does not keep. *)

\* docs/rpc.md: when the compaction after an overflow succeeds, the agent retries.
OverflowRetried ==
  [][\A p \in Prompts :
       prompt[p] = "summarizing" /\ auto.willRetry /\ ~auto.pre /\ nextId' # nextId
         /\ prompt'[p] # "summarizing" => prompt'[p] = "running"]_vars

\* Where the messages of the user, the model and the shell are: context, session, queues.
ConversationIsKept ==
  TypeOK /\ ContextIsSession /\ ResultsFollowCalls /\ MessagesKept /\ DisplayedIsQueued /\ FailuresBounded

\* What clients are told of the end of the work is so: no retry follows, the session is
\* idle, no message is left behind.
EndIsTold == WillRetryIsTrue /\ WaitersSeeIdle /\ NothingStranded
=============================================================================
