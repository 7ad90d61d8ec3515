---------------------------- MODULE AgentHarness ----------------------------
(***************************************************************************)
(* packages/agent/src/harness/agent-harness.ts: the harness that runs the  *)
(* agent loop on a persistent session.  A prompt takes the harness from    *)
(* phase idle to phase turn, takes a snapshot of the session, and passes   *)
(* the events of the loop on to the session and to the listeners.  While   *)
(* it is not idle, writes to the session wait in pendingSessionWrites and  *)
(* are flushed after each turn, at the end of the run, and once more when  *)
(* the prompt settles.                                                     *)
(*                                                                         *)
(* The loop (agent-loop.ts) appears only as the order in which it calls    *)
(* the harness; AgentRun models it in detail.  Tool results are appended   *)
(* like the answer they follow and are left out.  Each await is a label of *)
(* run[r].at; what other callers do meanwhile is any action in between.    *)
(***************************************************************************)
EXTENDS Naturals, Sequences, FiniteSets, SequencesExt

CONSTANTS
  Serial,        \* a Boolean; TRUE: callers use an idle harness one call at a time
  SteeringMode,  \* "all" or "one-at-a-time"
  FollowUpMode,
  MaxRuns,       \* bound: prompts
  MaxTurns,      \* bound: answers with tool calls in a run
  MaxCalls,      \* bound: messages, writes, aborts, compactions and navigations
  MaxFailures    \* bound: listeners, hooks and storage calls that fail

Runs == 1 .. MaxRuns

TextKinds == {"steer", "followUp", "nextTurn"}
WriteKinds == {"message", "model"}

(* An entry of the session: its kind, and the number of the prompt or the
   call it comes from. *)
Entry == (TextKinds \cup WriteKinds \cup {"prompt", "assistant", "compaction", "summary"}) \X Nat

VARIABLES
  phase,         \* the operation the harness is in
  controller,    \* runAbortController: the run it belongs to, or 0
  runPromise,    \* the run whose settling it announces, or 0
  pending,       \* pendingSessionWrites
  model,         \* the configuration: the write that set it, or 0
  queue,         \* steerQueue, followUpQueue and nextTurnQueue
  log,           \* the entries of the session in the order of the file
  branch,        \* the path from the root to the current leaf
  run,           \* run[r]: prompt r and its loop
  call,          \* the append of a caller that found the harness idle
  op,            \* compact() or navigateTree(): its step and its append
  aborter,       \* abort(): its step, and the run it waits for
  calls, failures,   \* counters that the bounds limit
  sent,          \* history: texts accepted
  seen,          \* history: the runs in progress at the last abort
  gone,          \* history: texts given back by abort or dropped by a failed run
  accepted,      \* history: the writes accepted, in order
  gaveUp         \* history: a prompt has rejected with writes unflushed

session == <<log, branch>>
callers == <<call, op, aborter, calls>>
history == <<sent, seen, gone, accepted, gaveUp>>
vars == <<phase, controller, runPromise, pending, model, queue, session, run,
          callers, failures, history>>

(***************************************************************************)
(* An append (session.ts, jsonl-storage.ts) reads the leaf, writes the     *)
(* file, and then makes the entry the leaf: in flight it holds the entry   *)
(* and the path it hangs the entry under.                                  *)
(***************************************************************************)
NoAppend == [entry |-> <<>>, path |-> <<>>]
AppendOf(e) == [entry |-> e, path |-> branch]

Appended(w) ==
  /\ log' = Append(log, w.entry)
  /\ branch' = Append(w.path, w.entry)

NewRun ==
  [at       |-> "ready",
   hand     |-> <<>>,      \* messages taken from the queues, not yet appended
   context  |-> <<>>,      \* the messages the loop sends to the model
   writing  |-> NoAppend,  \* the append the run awaits
   outcome  |-> "tools",   \* of the last answer; "tools": the loop goes on
   answered |-> FALSE,     \* there is an assistant message to return
   turns    |-> 0,
   aborted  |-> FALSE,     \* the signal of its controller
   terminal |-> FALSE,     \* the loop reports a failure and swallows others
   broken   |-> FALSE,     \* a turn_end listener failed
   orphaned |-> FALSE]     \* abort replaced the queue that hand was taken from

Init ==
  /\ phase = "idle" /\ controller = 0 /\ runPromise = 0
  /\ pending = <<>> /\ model = 0
  /\ queue = [k \in TextKinds |-> <<>>]
  /\ log = <<>> /\ branch = <<>>
  /\ run = [r \in Runs |-> NewRun]
  /\ call = NoAppend
  /\ op = [at |-> "none", writing |-> NoAppend]
  /\ aborter = [at |-> "none", for |-> 0]
  /\ calls = 0 /\ failures = 0
  /\ sent = {} /\ seen = {} /\ gone = {} /\ accepted = <<>> /\ gaveUp = FALSE

InProgress(r) == run[r].at \notin {"ready", "done"}

(* Nothing is under way: what a serial caller waits for before it makes a
   call that an idle harness serves at once. *)
Quiet ==
  /\ call = NoAppend
  /\ op.at = "none"
  /\ \A r \in Runs : ~InProgress(r)

MayUseIdle == Serial => Quiet

(***************************************************************************)
(* How a step of run r ends, s being the run after it.  A failure makes    *)
(* the loop report it (terminalizeFailure); while it reports, further      *)
(* failures are swallowed and the next event follows.                      *)
(***************************************************************************)
Failing == failures < MaxFailures /\ failures' = failures + 1

Goes(r, s, next) == run' = [run EXCEPT ![r] = [s EXCEPT !.at = next]]

Throws(r, s, next) ==
  run' = [run EXCEPT ![r] = [s EXCEPT !.at = IF s.terminal THEN next ELSE "failure",
                                      !.terminal = TRUE]]

Emits(r, s, next) ==
  \/ Goes(r, s, next) /\ UNCHANGED failures
  \/ Failing /\ Throws(r, s, next)

(* Slip: the catch of prompt() does not reset the phase. *)
SettlesBusy(r, ok) ==
  /\ Goes(r, NewRun, "done")
  /\ runPromise' = 0
  /\ UNCHANGED phase

(* The promise of prompt() settles: finishRunPromise() in any case, phase
   idle when it rejects. *)
Settles(r, ok) ==
  /\ Goes(r, NewRun, "done")
  /\ phase' = IF ok THEN phase ELSE "idle"
  /\ runPromise' = 0

TextsIn(q) == {m \in Range(q) : m[1] \in TextKinds}

-----------------------------------------------------------------------------
(* prompt(), skill(), promptFromTemplate(). *)

\* Slip: a prompt does not announce its run to abort() and waitForIdle().
PromptUnannounced(r) ==
  /\ run[r].at = "ready"
  /\ \A s \in Runs : s < r => run[s].at # "ready"
  /\ phase = "idle"
  /\ MayUseIdle
  /\ phase' = "turn"
  /\ Goes(r, run[r], "snapshot")
  /\ UNCHANGED <<controller, runPromise, pending, model, queue, session, callers,
                 failures, history>>

Prompt(r) ==
  /\ run[r].at = "ready"
  /\ \A s \in Runs : s < r => run[s].at # "ready"
  /\ phase = "idle"
  /\ MayUseIdle
  /\ phase' = "turn"
  /\ runPromise' = r
  /\ Goes(r, run[r], "snapshot")
  /\ UNCHANGED <<controller, pending, model, queue, session, callers, failures, history>>

(* Slip: the array of nextTurn messages is pushed as one message. *)
TakeSnapshotNested(r) ==
  /\ run[r].at = "snapshot"
  /\ Goes(r, [run[r] EXCEPT !.context = branch,
                            !.hand = <<queue["nextTurn"], <<"prompt", r>>>>], "hook")
  /\ queue' = [queue EXCEPT !["nextTurn"] = <<>>]
  /\ UNCHANGED <<phase, controller, runPromise, pending, model, session, callers, failures, history>>

(* createTurnState() is done; executeTurn() takes the nextTurn messages. *)
TakeSnapshot(r) ==
  /\ run[r].at = "snapshot"
  /\ Goes(r, [run[r] EXCEPT !.context = branch,
                            !.hand = Append(queue["nextTurn"], <<"prompt", r>>)],
             IF queue["nextTurn"] = <<>> THEN "hook" ELSE "announce")
  /\ queue' = [queue EXCEPT !["nextTurn"] = <<>>]
  /\ UNCHANGED <<phase, controller, runPromise, pending, model, session, callers, failures, history>>

(* The system prompt callback fails, or skill() finds no such skill. *)
SnapshotFails(r) ==
  /\ run[r].at = "snapshot"
  /\ Failing
  /\ Settles(r, FALSE)
  /\ gaveUp' = TRUE
  /\ UNCHANGED <<controller, pending, model, queue, session, callers, sent, seen,
                 gone, accepted>>

(* queue_update for the nextTurn messages: a failure puts them back. *)
AnnounceNextTurn(r) ==
  /\ run[r].at = "announce"
  /\ \/ /\ Goes(r, run[r], "hook")
        /\ UNCHANGED <<phase, runPromise, queue, failures, gaveUp>>
     \/ /\ Failing
        /\ gaveUp' = TRUE
        /\ queue' = [queue EXCEPT !["nextTurn"] = Front(run[r].hand) \o @]
        /\ Settles(r, FALSE)
  /\ UNCHANGED <<controller, pending, model, session, callers, sent, seen, gone, accepted>>

(* before_agent_start; then the abort controller is set and the loop runs.
   When the hook fails, the nextTurn messages taken are not put back. *)
BeforeStart(r) ==
  /\ run[r].at = "hook"
  /\ \/ /\ controller' = r
        /\ Goes(r, run[r], "prompts")
        /\ UNCHANGED <<phase, runPromise, gone, failures, gaveUp>>
     \/ /\ Failing
        /\ gaveUp' = TRUE
        /\ gone' = gone \cup TextsIn(run[r].hand)
        /\ Settles(r, FALSE)
        /\ UNCHANGED controller
  /\ UNCHANGED <<pending, model, queue, session, callers, sent, seen, accepted>>

-----------------------------------------------------------------------------
(* Messages enter the session at message_end, before any listener hears of
   them. *)

(* message_start, then the append of message_end begins. *)
InjectBegins(r) ==
  /\ run[r].at \in {"prompts", "inject"}
  /\ run[r].writing = NoAppend
  /\ \/ /\ Goes(r, [run[r] EXCEPT !.writing = AppendOf(Head(run[r].hand))], run[r].at)
        /\ UNCHANGED failures
     \/ Failing /\ Throws(r, run[r], run[r].at)
  /\ UNCHANGED <<phase, controller, runPromise, pending, model, queue, session,
                 callers, history>>

(* The append is done, the listeners hear of the message; after the last one
   the loop polls for steering messages or asks the model. *)
InjectEnds(r) ==
  LET m == Head(run[r].hand)
      rest == [run[r] EXCEPT !.hand = Tail(@), !.writing = NoAppend,
                             !.context = Append(@, m)]
      next == IF rest.hand # <<>> THEN run[r].at
              ELSE IF run[r].at = "prompts" THEN "poll" ELSE "stream"
  IN /\ run[r].at \in {"prompts", "inject"}
     /\ run[r].writing # NoAppend
     /\ \/ Appended(run[r].writing) /\ Emits(r, rest, next)
        \/ /\ Failing
           /\ Throws(r, [run[r] EXCEPT !.writing = NoAppend], next)
           /\ UNCHANGED session
     /\ UNCHANGED <<phase, controller, runPromise, pending, model, queue, callers,
                    history>>

(* Slip: after the last answer the loop polls for steering messages only. *)
LoopHeadAgain(s) ==
  IF s.hand # <<>> THEN "inject"
  ELSE IF s.outcome # "tools" THEN "poll"
  ELSE IF s.aborted THEN "flushEnd" ELSE "stream"

(* The head of the loop: messages in hand are injected; otherwise it asks the
   model again after tool calls, unless aborted, or polls for follow-ups. *)
LoopHead(s) ==
  IF s.hand # <<>> THEN "inject"
  ELSE IF s.outcome # "tools" THEN "follow"
  ELSE IF s.aborted THEN "flushEnd" ELSE "stream"

Polls == [poll |-> "steer", follow |-> "followUp"]
Mode == [steer |-> SteeringMode, followUp |-> FollowUpMode]

(* drainQueuedMessages: without messages there is no queue_update, and the
   loop goes on at once. *)
Drain(r) ==
  LET k == Polls[run[r].at]
      n == IF Mode[k] = "all" THEN Len(queue[k]) ELSE 1
      taken == [run[r] EXCEPT !.hand = SubSeq(queue[k], 1, n)]
      none == IF run[r].at = "poll" THEN LoopHead(run[r]) ELSE "flushEnd"
  IN /\ run[r].at \in DOMAIN Polls
     /\ \/ /\ queue[k] = <<>>
           /\ Goes(r, run[r], none)
           /\ UNCHANGED queue
        \/ /\ queue[k] # <<>>
           /\ Goes(r, taken, IF run[r].at = "poll" THEN "polled" ELSE "followed")
           /\ queue' = [queue EXCEPT ![k] = SubSeq(@, n + 1, Len(@))]
     /\ UNCHANGED <<phase, controller, runPromise, pending, model, session, callers,
                    failures, history>>

(* Slip: a failed queue_update does not put the messages back. *)
DrainedLost(r) ==
  /\ run[r].at \in {"polled", "followed"}
  /\ \/ Goes(r, [run[r] EXCEPT !.orphaned = FALSE], "inject") /\ UNCHANGED failures
     \/ Failing /\ Throws(r, [run[r] EXCEPT !.hand = <<>>, !.orphaned = FALSE], "inject")
  /\ UNCHANGED <<phase, controller, runPromise, pending, model, queue, session, callers,
                 history>>

(* queue_update after a drain: when a listener fails the messages go back to
   the front of the array they came from, which abort may have replaced. *)
Drained(r) ==
  LET k == IF run[r].at = "polled" THEN "steer" ELSE "followUp"
      back == [run[r] EXCEPT !.hand = <<>>, !.orphaned = FALSE]
  IN /\ run[r].at \in {"polled", "followed"}
     /\ \/ /\ Goes(r, [run[r] EXCEPT !.orphaned = FALSE], "inject")
           /\ UNCHANGED <<queue, gone, failures>>
        \/ /\ Failing
           /\ Throws(r, back, "inject")
           /\ IF run[r].orphaned
              THEN gone' = gone \cup TextsIn(run[r].hand) /\ UNCHANGED queue
              ELSE queue' = [queue EXCEPT ![k] = run[r].hand \o @] /\ UNCHANGED gone
     /\ UNCHANGED <<phase, controller, runPromise, pending, model, session, callers,
                    sent, seen, accepted, gaveUp>>

(* The model answers, and the append of the answer begins; or the request
   itself throws.  "error" stands for the stop reasons error and aborted. *)
Answer(r) ==
  /\ run[r].at = "stream"
  /\ run[r].writing = NoAppend
  /\ \/ \E o \in {"tools", "stop", "error"} :
          /\ o = "tools" => run[r].turns < MaxTurns
          /\ Goes(r, [run[r] EXCEPT !.writing = AppendOf(<<"assistant", r>>),
                                    !.outcome = o,
                                    !.turns = IF o = "tools" THEN @ + 1 ELSE @],
                   "stream")
          /\ UNCHANGED failures
     \/ Failing /\ Throws(r, run[r], "stream")
  /\ UNCHANGED <<phase, controller, runPromise, pending, model, queue, session,
                 callers, history>>

(* The answer is in the session, or the append failed.  The lifecycle keeps
   the message in either case. *)
AnswerEnds(r) ==
  LET s == [run[r] EXCEPT !.writing = NoAppend, !.answered = TRUE,
                          !.context = Append(@, <<"assistant", r>>)]
  IN /\ run[r].at = "stream"
     /\ run[r].writing # NoAppend
     /\ \/ Appended(run[r].writing) /\ Emits(r, s, "turnEnd")
        \/ Failing /\ Throws(r, s, "turnEnd") /\ UNCHANGED session
     /\ UNCHANGED <<phase, controller, runPromise, pending, model, queue, callers,
                    history>>

(* terminalizeFailure: what was in hand is dropped, and the message that
   reports the failure is appended; if that fails too, nobody hears of it. *)
Report(r) ==
  /\ run[r].at = "failure"
  /\ run[r].writing = NoAppend
  /\ Goes(r, [run[r] EXCEPT !.writing = AppendOf(<<"assistant", r>>), !.hand = <<>>,
                            !.outcome = "error", !.answered = TRUE], "failure")
  /\ gone' = gone \cup TextsIn(run[r].hand)
  /\ UNCHANGED <<phase, controller, runPromise, pending, model, queue, session,
                 callers, failures, sent, seen, accepted, gaveUp>>

Reported(r) ==
  LET s == [run[r] EXCEPT !.writing = NoAppend]
  IN /\ run[r].at = "failure"
     /\ run[r].writing # NoAppend
     /\ \/ Appended(run[r].writing) /\ Goes(r, s, "turnEnd") /\ UNCHANGED failures
        \/ Failing /\ Goes(r, s, "turnEnd") /\ UNCHANGED session
     /\ UNCHANGED <<phase, controller, runPromise, pending, model, queue, callers,
                    history>>

-----------------------------------------------------------------------------
(* The end of a turn, and the flush of pendingSessionWrites. *)

(* The listeners of turn_end; their error is kept until after the flush. *)
TurnEnd(r) ==
  /\ run[r].at = "turnEnd"
  /\ \/ Goes(r, run[r], "flushTurn") /\ UNCHANGED failures
     \/ Failing /\ Goes(r, [run[r] EXCEPT !.broken = TRUE], "flushTurn")
  /\ UNCHANGED <<phase, controller, runPromise, pending, model, queue, session,
                 callers, history>>

Flushing == {"flushTurn", "flushNext", "flushEnd", "flushFinal"}

FlushBegins(r) ==
  /\ run[r].at \in Flushing
  /\ run[r].writing = NoAppend
  /\ pending # <<>>
  /\ Goes(r, [run[r] EXCEPT !.writing = AppendOf(Head(pending))], run[r].at)
  /\ UNCHANGED <<phase, controller, runPromise, pending, model, queue, session,
                 callers, failures, history>>

(* The append is done: the first of the writes still queued is removed. *)
FlushEnds(r) ==
  /\ run[r].at \in Flushing
  /\ run[r].writing # NoAppend
  /\ Appended(run[r].writing)
  /\ pending' = IF pending = <<>> THEN pending ELSE Tail(pending)
  /\ Goes(r, [run[r] EXCEPT !.writing = NoAppend], run[r].at)
  /\ UNCHANGED <<phase, controller, runPromise, model, queue, callers, failures,
                 history>>

(* Slip: the write is shifted before its append is known to have worked. *)
FlushFailsShifted(r) ==
  /\ run[r].at \in Flushing \ {"flushFinal"}
  /\ run[r].writing # NoAppend
  /\ Failing
  /\ Throws(r, [run[r] EXCEPT !.writing = NoAppend, !.broken = FALSE], "flushEnd")
  /\ pending' = Tail(pending)
  /\ UNCHANGED <<phase, controller, runPromise, model, queue, session, callers, history>>

(* The append fails: the write stays queued, and the event the flush belongs
   to fails.  When it is the last flush of the prompt, the prompt rejects. *)
FlushFails(r) ==
  LET s == [run[r] EXCEPT !.writing = NoAppend, !.broken = FALSE]
  IN /\ run[r].at \in Flushing
     /\ run[r].writing # NoAppend
     /\ Failing
     /\ \/ /\ run[r].at # "flushFinal"
           /\ Throws(r, s, IF run[r].at = "flushEnd" THEN "flushFinal" ELSE "flushEnd")
           /\ UNCHANGED <<phase, controller, runPromise, gaveUp>>
        \/ /\ run[r].at = "flushFinal"
           /\ controller' = 0
           /\ gaveUp' = TRUE
           /\ Settles(r, FALSE)
     /\ UNCHANGED <<pending, model, queue, session, callers, sent, seen, gone, accepted>>

Flushed(r) == run[r].writing = NoAppend /\ pending = <<>>

(* After the flush at turn_end: the listeners' error is thrown, or save_point
   is emitted; an answer that failed ends the run. *)
AfterTurn(r) ==
  LET s == [run[r] EXCEPT !.broken = FALSE]
      next == IF s.terminal \/ s.outcome = "error" THEN "flushEnd" ELSE "flushNext"
  IN /\ run[r].at = "flushTurn"
     /\ Flushed(r)
     /\ IF run[r].broken
        THEN Throws(r, s, next) /\ UNCHANGED failures
        ELSE Emits(r, s, next)
     /\ UNCHANGED <<phase, controller, runPromise, pending, model, queue, session,
                    callers, history>>

(* Slip: the loop goes on with the context of the last snapshot. *)
PrepareNextTurnStale(r) ==
  /\ run[r].at = "flushNext"
  /\ Flushed(r)
  /\ Emits(r, run[r], "poll")
  /\ UNCHANGED <<phase, controller, runPromise, pending, model, queue, session,
                 callers, history>>

(* prepareNextTurn after its flush: the loop continues on a new snapshot. *)
PrepareNextTurn(r) ==
  /\ run[r].at = "flushNext"
  /\ Flushed(r)
  /\ Emits(r, [run[r] EXCEPT !.context = branch], "poll")
  /\ UNCHANGED <<phase, controller, runPromise, pending, model, queue, session,
                 callers, history>>

(* agent_end after its flush: the phase is idle before any listener hears. *)
AgentEnd(r) ==
  /\ run[r].at = "flushEnd"
  /\ Flushed(r)
  /\ phase' = "idle"
  /\ Goes(r, run[r], "ended")
  /\ UNCHANGED <<controller, runPromise, pending, model, queue, session, callers,
                 failures, history>>

(* The listeners of agent_end and settled. *)
Ended(r) ==
  /\ run[r].at = "ended"
  /\ Emits(r, run[r], "flushFinal")
  /\ UNCHANGED <<phase, controller, runPromise, pending, model, queue, session,
                 callers, history>>

(* executeTurn's finally is done; without an assistant message the prompt
   rejects. *)
Settle(r) ==
  /\ run[r].at = "flushFinal"
  /\ Flushed(r)
  /\ controller' = 0
  /\ Settles(r, run[r].answered)
  /\ UNCHANGED <<pending, model, queue, session, callers, failures, history>>

-----------------------------------------------------------------------------
(* What callers do beside prompts. *)

Calling == calls < MaxCalls /\ calls' = calls + 1

(* Slip: a busy harness takes the setting and does not queue the write. *)
WriteForgotten(k) ==
  /\ Calling
  /\ phase # "idle" /\ k = "model"
  /\ model' = calls'
  /\ UNCHANGED <<phase, controller, runPromise, pending, queue, session, run, call, op,
                 aborter, failures, history>>

(* Slip: a write is appended at once, whatever the phase. *)
WriteAtOnce(k) ==
  /\ Calling
  /\ call = NoAppend
  /\ call' = AppendOf(<<k, calls'>>)
  /\ UNCHANGED <<phase, controller, runPromise, pending, model, queue, session, run, op,
                 aborter, failures, history>>

(* appendMessage ("message"); setModel, setThinkingLevel, setTools and
   setActiveTools ("model").  A busy harness queues the write and takes the
   setting at once, an idle one appends first. *)
Write(k) ==
  LET w == <<k, calls'>>
  IN /\ Calling
     /\ \/ /\ phase = "idle" /\ MayUseIdle /\ call = NoAppend
           /\ call' = AppendOf(w)
           /\ UNCHANGED <<pending, model, accepted>>
        \/ /\ phase # "idle"
           /\ Serial => op.at = "none"
           /\ pending' = Append(pending, w)
           /\ model' = IF k = "model" THEN calls' ELSE model
           /\ accepted' = Append(accepted, w)
           /\ UNCHANGED call
     /\ UNCHANGED <<phase, controller, runPromise, queue, session, run, op, aborter,
                    failures, sent, seen, gone, gaveUp>>

(* The append of an idle harness is done, or fails and the call rejects. *)
Written ==
  /\ call # NoAppend
  /\ call' = NoAppend
  /\ \/ /\ Appended(call)
        /\ accepted' = Append(accepted, call.entry)
        /\ model' = IF call.entry[1] = "model" THEN call.entry[2] ELSE model
        /\ UNCHANGED failures
     \/ Failing /\ UNCHANGED <<session, accepted, model>>
  /\ UNCHANGED <<phase, controller, runPromise, pending, queue, run, op, aborter,
                 calls, sent, seen, gone, gaveUp>>

(* steer, followUp and nextTurn: whatever their listeners do, the message is
   queued. *)
Send(k) ==
  /\ k # "nextTurn" => phase # "idle"
  /\ Calling
  /\ queue' = [queue EXCEPT ![k] = Append(@, <<k, calls'>>)]
  /\ sent' = sent \cup {<<k, calls'>>}
  /\ UNCHANGED <<phase, controller, runPromise, pending, model, session, run, call,
                 op, aborter, failures, seen, gone, accepted, gaveUp>>

(* abort(): gives back the steering and follow-up messages, signals the run
   whose controller is set, and announces the queues; only then does it look
   for a run to wait for. *)
Abort ==
  /\ aborter.at = "none"
  /\ Calling
  /\ queue' = [queue EXCEPT !["steer"] = <<>>, !["followUp"] = <<>>]
  /\ gone' = gone \cup TextsIn(queue["steer"] \o queue["followUp"])
  /\ run' = [r \in Runs |-> [run[r] EXCEPT
       !.aborted = @ \/ r = controller,
       !.orphaned = run[r].at \in {"polled", "followed"}]]
  /\ aborter' = [at |-> "announce", for |-> 0]
  /\ seen' = {r \in Runs : InProgress(r)}
  /\ UNCHANGED <<phase, controller, runPromise, pending, model, session, call, op,
                 failures, sent, accepted, gaveUp>>

WaitForIdle ==
  /\ aborter.at = "announce"
  /\ aborter' = [at |-> "wait", for |-> runPromise]
  /\ UNCHANGED <<phase, controller, runPromise, pending, model, queue, session, run,
                 call, op, calls, failures, history>>

AbortReturns ==
  /\ aborter.at = "wait"
  /\ aborter.for = 0 \/ aborter.for \in {r \in Runs : run[r].at = "done"}
  /\ aborter' = [at |-> "none", for |-> 0]
  /\ UNCHANGED <<phase, controller, runPromise, pending, model, queue, session, run,
                 call, op, calls, failures, history>>

(* compact() and navigateTree(): structural operations of an idle harness. *)
StartOp(k) ==
  /\ phase = "idle"
  /\ MayUseIdle /\ op.at = "none"
  /\ Calling
  /\ phase' = IF k = "compact" THEN "compaction" ELSE "branch_summary"
  /\ op' = [op EXCEPT !.at = k]
  /\ UNCHANGED <<controller, runPromise, pending, model, queue, session, run, call,
                 aborter, failures, history>>

(* The summary is there: its append begins. *)
OpAppends(k) ==
  /\ op.at = IF k = "compaction" THEN "compact" ELSE "moved"
  /\ op' = [at |-> "append", writing |-> AppendOf(<<k, calls>>)]
  /\ UNCHANGED <<phase, controller, runPromise, pending, model, queue, session, run,
                 call, aborter, calls, failures, history>>

(* moveTo: the leaf moves to an entry of the path.  *)
MoveLeaf ==
  /\ op.at = "navigate"
  /\ \E n \in 0 .. Len(branch) : branch' = SubSeq(branch, 1, n)
  /\ op' = [op EXCEPT !.at = "moved"]
  /\ UNCHANGED <<phase, controller, runPromise, pending, model, queue, log, run, call,
                 aborter, calls, failures, history>>

(* The operation is over, finished, cancelled or failed: in any case the
   phase is idle again. *)
OpEnds ==
  /\ op.at # "none"
  /\ op' = [at |-> "none", writing |-> NoAppend]
  /\ phase' = "idle"
  /\ \/ op.at = "append" /\ Appended(op.writing) /\ UNCHANGED failures
     \/ op.at = "append" /\ Failing /\ UNCHANGED session
     \/ op.at # "append" /\ UNCHANGED <<session, failures>>
  /\ UNCHANGED <<controller, runPromise, pending, model, queue, run, call, aborter,
                 calls, history>>

-----------------------------------------------------------------------------
RunStep(r) ==
  \/ TakeSnapshot(r) \/ SnapshotFails(r) \/ AnnounceNextTurn(r) \/ BeforeStart(r)
  \/ InjectBegins(r) \/ InjectEnds(r) \/ Drain(r) \/ Drained(r)
  \/ Answer(r) \/ AnswerEnds(r) \/ Report(r) \/ Reported(r)
  \/ TurnEnd(r) \/ FlushBegins(r) \/ FlushEnds(r) \/ FlushFails(r)
  \/ AfterTurn(r) \/ PrepareNextTurn(r) \/ AgentEnd(r) \/ Ended(r) \/ Settle(r)

OpStep == OpAppends("compaction") \/ OpAppends("summary") \/ MoveLeaf \/ OpEnds

Next ==
  \/ \E r \in Runs : Prompt(r) \/ RunStep(r)
  \/ \E k \in WriteKinds : Write(k)
  \/ \E k \in TextKinds : Send(k)
  \/ \E k \in {"compact", "navigate"} : StartOp(k)
  \/ Written \/ Abort \/ WaitForIdle \/ AbortReturns \/ OpStep

Spec == Init /\ [][Next]_vars

(* The event loop runs every continuation that is due, and the model, the
   hooks and the storage answer. *)
Fairness ==
  /\ \A r \in Runs : WF_vars(RunStep(r))
  /\ WF_vars(Written) /\ WF_vars(WaitForIdle \/ AbortReturns) /\ WF_vars(OpStep)

FairSpec == Spec /\ Fairness

-----------------------------------------------------------------------------
(* Properties. *)

Labels == Flushing \cup
  {"ready", "snapshot", "announce", "hook", "prompts", "inject", "poll", "polled", "follow",
   "followed", "stream", "failure", "turnEnd", "ended", "done"}

InFlight == [entry : Entry, path : Seq(Entry)] \cup {NoAppend}

RunType ==
  [at : Labels, hand : Seq(Entry), context : Seq(Entry), writing : InFlight,
   outcome : {"tools", "stop", "error"}, answered : BOOLEAN, turns : Nat,
   aborted : BOOLEAN, terminal : BOOLEAN, broken : BOOLEAN, orphaned : BOOLEAN]

(* Every variable keeps its type. *)
TypeOK ==
  /\ phase \in {"idle", "turn", "compaction", "branch_summary"}
  /\ controller \in Runs \cup {0} /\ runPromise \in Runs \cup {0}
  /\ pending \in Seq(WriteKinds \X Nat) /\ model \in Nat
  /\ queue \in [TextKinds -> Seq(TextKinds \X Nat)]
  /\ log \in Seq(Entry) /\ branch \in Seq(Entry)
  /\ run \in [Runs -> RunType]
  /\ call \in InFlight
  /\ op \in [at : {"none", "compact", "navigate", "moved", "append"}, writing : InFlight]
  /\ aborter \in [at : {"none", "announce", "wait"}, for : Runs \cup {0}]
  /\ calls \in Nat /\ failures \in Nat
  /\ sent \subseteq Entry /\ seen \subseteq Runs /\ gone \subseteq Entry
  /\ accepted \in Seq(Entry) /\ gaveUp \in BOOLEAN

(* The entries of those kinds were made in the order in which they stand, each once. *)
Ascending(entries, kinds) ==
  \A i, j \in DOMAIN entries :
    i < j /\ entries[i][1] \in kinds /\ entries[j][1] \in kinds => entries[i][2] < entries[j][2]

(* Every session write that was accepted is written or still queued, once,
   and unless a last flush failed they reach the file in the order in which
   they were accepted and none is left over in a quiet, idle harness
   (pendingSessionWrites, flushPendingSessionWrites). *)
WritesKept ==
  LET kept == log \o pending
  IN /\ Range(accepted) = {e \in Range(kept) : e[1] \in WriteKinds}
     /\ Ascending(accepted, WriteKinds)
     /\ \A i, j \in DOMAIN kept : kept[i][1] \in WriteKinds /\ kept[i] = kept[j] => i = j
     /\ ~gaveUp => /\ Ascending(kept, WriteKinds)
                   /\ Quiet /\ phase = "idle" => pending = <<>>

(* The last setting in the session is the one the harness works with, once
   everything is written (setModel and its kin). *)
SettingIsPersisted ==
  LET settings == {i \in DOMAIN log : log[i][1] = "model"}
  IN (Quiet /\ pending = <<>> /\ ~gaveUp) =>
       \/ settings = {} /\ model = 0
       \/ \E last \in settings : model = log[last][2] /\ \A i \in settings : i <= last

(* The loop asks the model with exactly the messages on the current path of
   the session (createTurnState, prepareNextTurn, message_end). *)
ContextIsPath ==
  \A r \in Runs :
    (run[r].at = "stream" /\ run[r].writing = NoAppend) => run[r].context = branch

(* Only navigateTree takes an entry off the current path: no append hangs
   its entry beside another one. *)
PathOnlyGrows == [][IsPrefix(branch, branch') \/ op.at = "navigate"]_branch

(* A message sent with steer, followUp or nextTurn is in one place only: in
   its queue, in the hands of a run, in the session, or given back or dropped
   by a failure; those of a queue enter the session in the order they were
   sent. *)
MessagesKept ==
  LET inHand == [r \in Runs |-> TextsIn(run[r].hand)]
      queued == UNION {Range(queue[k]) : k \in TextKinds}
      held == (UNION Range(inHand)) \cup queued \cup TextsIn(log)
  IN /\ sent = gone \cup held
     /\ gone \cap held = {}
     /\ \A r, s \in Runs : r # s => inHand[r] \cap inHand[s] = {}
     /\ \A k \in TextKinds :
          /\ queue[k] \in Seq({k} \X Nat)
          /\ \A r \in Runs : Ascending(log \o run[r].hand \o queue[k], {k})

(* When abort() returns, the runs that were in progress when it was called
   have settled (waitForIdle). *)
AbortWaits ==
  [][(aborter.at = "wait" /\ aborter'.at = "none") => \A r \in seen : run[r].at = "done"]_vars

(* One failure, wherever it strikes, does not leave the harness busy. *)
OneFailureLeavesIdle == (Quiet /\ failures <= 1) => phase = "idle"

(* Whatever fails, the prompts, of which there are finitely many, settle, and
   abort() returns: no one waits for ever. *)
EverythingSettles ==
  []<>((\A r \in Runs : ~InProgress(r)) /\ aborter.at = "none")

(* What the session, the model and the queues hold of each other's writes and messages,
   whatever fails. *)
SessionIsKept ==
  TypeOK /\ WritesKept /\ SettingIsPersisted /\ ContextIsPath /\ MessagesKept /\ OneFailureLeavesIdle

(* Calls come to their end, abort() after the runs that it ends, and but for navigateTree
   none takes entries off the path of another. *)
CallsSettle == PathOnlyGrows /\ AbortWaits /\ EverythingSettles
=============================================================================
