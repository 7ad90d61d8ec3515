--------------------------- MODULE ExecutionIntegrity ---------------------------
(***************************************************************************)
(* packages/coding-agent/src/core/execution-integrity.ts and what          *)
(* agent-session.ts does with it: may the agent stop after it has changed  *)
(* files?                                                                  *)
(*                                                                         *)
(* The tracker numbers the file mutations of a run and keeps the results   *)
(* of validation commands together with the number at which they were      *)
(* recorded.  A validation is fresh while that number and the discovered   *)
(* commands are still the same.  In mode "enforce" a final answer without  *)
(* a fresh passing validation is followed by feedback to the model, a few  *)
(* times.  The user's own shell commands count too: they run beside the    *)
(* agent, for as long as they like, across turns, runs and reloads.        *)
(*                                                                         *)
(* A discovery is the set of its commands, which is also its fingerprint.  *)
(* Steering messages are follow-ups here, which are taken a poll later.    *)
(***************************************************************************)
EXTENDS Integers, Sequences, FiniteSets

CONSTANTS
  Command,          \* the validation commands of the project
  Nobody,           \* no shell command runs
  MaxAttempts,      \* maxContinuationAttempts
  MaxValidations,   \* MAX_EXECUTION_INTEGRITY_VALIDATIONS
  Scenarios         \* bounds: see Bounds

ASSUME IntegrityAssumption ==
  /\ MaxAttempts \in 0..2 /\ MaxValidations \in Nat \ {0}
  /\ Nobody \notin Command

Mode == {"off", "observe", "enforce"}

(* Modes at the start, turns of one prompt (executionLimits.maxTurns in the code), tool calls of a
   response, prompts, queued messages, reloads and shell commands of the user. *)
Bounds == [modes : SUBSET Mode, turns : Nat, batch : Nat, prompts : Nat, messages : Nat, reloads : Nat, shells : Nat]
ASSUME ScenariosAssumption == Scenarios \subseteq Bounds

Discovery == SUBSET Command
Status == {"passed", "failed", "unverified", "concurrent-with-mutation"}

\* Mutating tools, of which "manifest" changes a file the commands are discovered from.
Mutation == {"edit", "manifest"}
ToolState == {"waiting", "started", "written", "failed", "passed", "unverified"}

VARIABLES
  \* ExecutionIntegrityTracker:
  mode, discovery,
  pendingDiscovery,  \* a set with the discovery that waits for a mode other than "off"
  version,           \* mutationVersion, and mutationCount, which never differs from it
  validations, attempts, lastDecision,
  \* AgentSession:
  runStarted,        \* _executionIntegrityRunStarted
  pendingMutations,  \* _pendingMutationToolCalls
  settling,          \* runs whose agent_settled listeners have not returned
  shell,             \* the user's command: executeBash
  \* the agent's run:
  pc, aborted, turns, batch, tool, seen, queue, orphan,
  \* bounds:
  bound, prompts, messages, reloads, shells,
  \* history:
  edits,             \* how often files were changed
  base,              \* edits when the prompt came
  resets,            \* how often the numbers began again
  hidden,            \* the tracker was not told of an edit of this prompt
  overlapped,        \* an earlier run settled while this one ran
  nudges,            \* feedback messages of this prompt
  disturbed          \* the queue was cleared or settings reloaded in this turn

trackerVars == <<mode, discovery, pendingDiscovery, version, validations, attempts, lastDecision>>
sessionVars == <<runStarted, pendingMutations, settling, shell>>
runVars == <<pc, aborted, turns, batch, tool, seen, queue, orphan>>
bounds == <<bound, prompts, messages, reloads, shells>>
history == <<edits, base, resets, hidden, overlapped, nudges, disturbed>>
vars == <<trackerVars, sessionVars, runVars, bounds, history>>

Batch == UNION {[1..n -> Mutation \cup Command] : n \in 0..bound.batch}

Undecided == [action |-> "none", reason |-> "none"]
NoShell == [command |-> Nobody, version |-> 0, pending |-> FALSE, seen |-> 0, resets |-> 0]

Init ==
  /\ bound \in Scenarios /\ mode \in bound.modes
  /\ discovery = (IF mode = "off" THEN {} ELSE Command)
  /\ pendingDiscovery = (IF mode = "off" THEN {Command} ELSE {})
  /\ version = 0 /\ validations = <<>> /\ attempts = 0 /\ lastDecision = Undecided
  /\ runStarted = FALSE /\ pendingMutations = {} /\ settling = 0 /\ shell = NoShell
  /\ pc = "idle" /\ aborted = FALSE /\ turns = 0 /\ batch = <<>> /\ tool = <<>>
  /\ seen = <<>> /\ queue = <<>> /\ orphan = FALSE
  /\ prompts = 0 /\ messages = 0 /\ reloads = 0 /\ shells = 0
  /\ edits = 0 /\ base = 0 /\ resets = 0 /\ hidden = FALSE /\ overlapped = FALSE /\ nudges = 0
  /\ disturbed = FALSE

-----------------------------------------------------------------------------
(* The tracker. *)

\* recordValidation keeps the last MaxValidations.
Kept(vs) ==
  IF Len(vs) <= MaxValidations THEN vs
  ELSE SubSeq(vs, Len(vs) - MaxValidations + 1, Len(vs))

\* at and from are history: edits and resets when the command was started.
Evidence(k, status, v, at, from) ==
  [command |-> k, discovery |-> discovery, status |-> status, version |-> v,
   seen |-> at, resets |-> from]

\* A mutating call that did not fail.
Mutates(i) == batch[i] \in Mutation /\ tool[i] = "passed"

Mutations == {i \in DOMAIN batch : Mutates(i)}

\* A validation command in a batch that mutates is concurrent with it.
TurnStatus(i) == IF Mutations = {} THEN tool[i] ELSE "concurrent-with-mutation"

\* What is kept after call n of the batch, if vs was before it.
After(vs, n) ==
  IF batch[n] \in discovery
  THEN Kept(Append(vs, Evidence(batch[n], TurnStatus(n), version + Cardinality(Mutations), seen[n], resets)))
  ELSE vs

\* recordTurn, after n calls of the batch; all of its mutations count first.
RecordedTurn[n \in 0 .. Len(batch)] ==
  IF n = 0 THEN validations ELSE After(RecordedTurn[n - 1], n)

\* Slip: only what was pending at the start makes a shell command overlap.
OverlapsAtStart(sh, v) == sh.pending

\* recordUserBashValidation: mutationOverlapped.
Overlaps(sh, v) == sh.pending \/ sh.version # v

\* getCurrentValidationState: of each command the last validation counts.
Latest == {validations[i] : i \in {j \in DOMAIN validations :
             \A n \in DOMAIN validations : n > j => validations[n].command # validations[j].command}}
Current(e) == e.discovery = discovery /\ e.version = version
Fresh(status) == {e \in Latest : e.status = status /\ Current(e)}

Reason ==
  CASE Fresh("failed") # {} -> "validation-failed"
    [] Fresh("failed") = {} /\ Fresh("passed") # {} -> "fresh-validation-passed"
    [] Fresh("failed") = {} /\ Fresh("passed") = {} /\ Fresh("concurrent-with-mutation") # {}
         -> "validation-concurrent-with-mutation"
    [] OTHER -> "validation-missing"  \* or stale: the same feedback

Decided(action, reason) == [action |-> action, reason |-> reason]

AttemptsLeft == attempts < MaxAttempts

\* decideCompletion.
Decision ==
  IF mode = "off" THEN Decided("allow", "mode-off")
  ELSE IF version = 0 THEN Decided("allow", "no-known-mutation")
  ELSE IF discovery = {} THEN Decided("observe", "no-validation-command")
  ELSE IF mode = "observe" THEN Decided("observe", Reason)
  ELSE IF Reason = "fresh-validation-passed" THEN Decided("allow", Reason)
  ELSE IF AttemptsLeft THEN Decided("continue", Reason)
  ELSE Decided("allow", "continuation-limit-reached")

-----------------------------------------------------------------------------
(* A prompt and its runs: the first, and those that continue it. *)

\* _runAgentPrompt.
Prompt ==
  /\ pc = "idle" /\ prompts < bound.prompts
  /\ prompts' = prompts + 1
  /\ runStarted' = FALSE
  /\ pc' = "start" /\ aborted' = FALSE /\ turns' = 0
  /\ base' = edits /\ hidden' = FALSE /\ overlapped' = FALSE /\ nudges' = 0
  /\ UNCHANGED <<trackerVars, pendingMutations, settling, shell, batch, tool, seen, queue,
                 orphan, bound, messages, reloads, shells, edits, resets, disturbed>>

Resets == ~runStarted

\* agent_start: resetRun, once for the prompt.
AgentStart ==
  /\ pc = "start"
  /\ runStarted' = TRUE /\ pendingMutations' = {}
  /\ pc' = "model"
  /\ IF Resets
     THEN /\ version' = 0 /\ validations' = <<>> /\ attempts' = 0 /\ lastDecision' = Undecided
          /\ resets' = resets + 1
     ELSE UNCHANGED <<version, validations, attempts, lastDecision, resets>>
  /\ UNCHANGED <<mode, discovery, pendingDiscovery, settling, shell, aborted, turns, batch, tool,
                 seen, queue, orphan, bounds, edits, base, hidden, overlapped, nudges, disturbed>>

\* A response, with its tool calls.
Respond(b) ==
  /\ pc = "model" /\ ~aborted /\ turns < bound.turns
  /\ turns' = turns + 1
  /\ batch' = b /\ tool' = [i \in DOMAIN b |-> "waiting"] /\ seen' = [i \in DOMAIN b |-> 0]
  /\ pc' = "tools" /\ disturbed' = FALSE
  /\ UNCHANGED <<trackerVars, sessionVars, aborted, queue, orphan, bounds, edits, base, resets, hidden,
                 overlapped, nudges>>

\* The run ends at the limit, with an error of the model or by an abort.
Stop ==
  /\ pc = "model"
  /\ pc' = "post"
  /\ UNCHANGED <<trackerVars, sessionVars, aborted, turns, batch, tool, seen, queue, orphan,
                 bounds, history>>

\* tool_execution_start.
StartTool(i) ==
  /\ pc = "tools" /\ tool[i] = "waiting"
  /\ tool' = [tool EXCEPT ![i] = "started"]
  /\ seen' = [seen EXCEPT ![i] = IF batch[i] \in Command THEN edits ELSE 0]
  /\ pendingMutations' = IF batch[i] \in Mutation THEN pendingMutations \cup {i}
                         ELSE pendingMutations
  /\ UNCHANGED <<trackerVars, runStarted, settling, shell, pc, aborted, turns, batch, queue, orphan,
                 bounds, history>>

\* The tool changes its file.
Write(i) ==
  /\ pc = "tools" /\ tool[i] = "started" /\ batch[i] \in Mutation
  /\ tool' = [tool EXCEPT ![i] = "written"]
  /\ edits' = edits + 1
  /\ UNCHANGED <<trackerVars, sessionVars, pc, aborted, turns, batch, seen, queue, orphan, bounds,
                 base, resets, hidden, overlapped, nudges, disturbed>>

(* tool_execution_end.  A mutating tool may also fail when it has written: it was
   aborted then, or it wrote some of its files.  No validation counts what
   it was told, so that the edit is hidden. *)
EndTool(i, result) ==
  /\ pc = "tools"
  /\ \/ tool[i] = "waiting" /\ result = "failed"  \* blocked, or aborted before it starts
     \/ tool[i] = "started" /\ (batch[i] \in Mutation => result = "failed")
     \/ tool[i] = "written" /\ result # "unverified"
  /\ tool' = [tool EXCEPT ![i] = result]
  /\ pendingMutations' = pendingMutations \ {i}
  /\ hidden' = (hidden \/ (tool[i] = "written" /\ result = "failed"))
  /\ UNCHANGED <<trackerVars, runStarted, settling, shell, pc, aborted, turns, batch, seen, queue,
                 orphan, bounds, edits, base, resets, overlapped, nudges, disturbed>>

\* A fatal listener fails: the run is over, a tool that has been started goes on.
FailRun ==
  /\ pc = "tools"
  /\ pc' = "over"
  /\ orphan' = (orphan \/ \E i \in DOMAIN batch : batch[i] \in Mutation /\ tool[i] = "started")
  /\ hidden' = (hidden \/ \E i \in DOMAIN batch : tool[i] = "written" \/ Mutates(i))
  /\ batch' = <<>> /\ tool' = <<>> /\ seen' = <<>>
  /\ UNCHANGED <<trackerVars, sessionVars, aborted, turns, queue, bounds, edits,
                 base, resets, overlapped, nudges, disturbed>>

\* It changes its file, in whatever run that is.
OrphanWrites ==
  /\ orphan /\ orphan' = FALSE
  /\ edits' = edits + 1 /\ hidden' = TRUE
  /\ UNCHANGED <<trackerVars, sessionVars, pc, aborted, turns, batch, tool, seen, queue, bounds,
                 base, resets, overlapped, nudges, disturbed>>

\* turn_end: recordTurn, and a new discovery when a manifest was changed.
TurnEnd ==
  /\ pc = "tools"
  /\ \A i \in DOMAIN batch : tool[i] \in {"failed", "passed", "unverified"}
  /\ pc' = "decide"
  /\ IF mode = "off"
     THEN /\ hidden' = (hidden \/ Mutations # {})
          /\ UNCHANGED <<version, validations, discovery>>
     ELSE /\ version' = version + Cardinality(Mutations)
          /\ validations' = RecordedTurn[Len(batch)]
          /\ IF \E i \in Mutations : batch[i] = "manifest"
             THEN discovery' \in Discovery ELSE UNCHANGED discovery
          /\ UNCHANGED hidden
  /\ UNCHANGED <<mode, pendingDiscovery, attempts, lastDecision, sessionVars, aborted, turns, batch,
                 tool, seen, queue, orphan, bounds, edits, base, resets, overlapped, nudges, disturbed>>

-----------------------------------------------------------------------------
(* After a turn. *)

\* Slip: the feedback is not queued.
NoFeedback(d) == <<>>

Feedback(d) == IF d.action = "continue" THEN <<"feedback">> ELSE <<>>

\* _maybeQueueExecutionIntegrityFeedback.
Decide ==
  /\ pc = "decide" /\ batch = <<>> /\ queue = <<>>
  /\ pc' = "poll"
  /\ lastDecision' = Decision
  /\ attempts' = IF Decision.action = "continue" THEN attempts + 1 ELSE attempts
  /\ nudges' = nudges + Len(Feedback(Decision))
  /\ queue' = Feedback(Decision)
  /\ UNCHANGED <<mode, discovery, pendingDiscovery, version, validations, sessionVars, aborted, turns,
                 batch, tool, seen, orphan, bounds, edits, base, resets, hidden, overlapped, disturbed>>

\* There were tool calls, or there are messages, so that the agent is not about to stop.
DecideLater ==
  /\ pc = "decide" /\ (batch # <<>> \/ queue # <<>>)
  /\ pc' = "poll"
  /\ UNCHANGED <<trackerVars, sessionVars, aborted, turns, batch, tool, seen, queue, orphan, bounds,
                 history>>

\* The next turn, with a queued message when the agent would stop here.
GoOn ==
  /\ pc = "poll" /\ (batch # <<>> \/ queue # <<>>)
  /\ pc' = "model"
  /\ queue' = IF batch = <<>> THEN Tail(queue) ELSE queue
  /\ batch' = <<>> /\ tool' = <<>> /\ seen' = <<>>
  /\ UNCHANGED <<trackerVars, sessionVars, aborted, turns, orphan, bounds, history>>

\* No calls and no messages: the agent stops.
Complete ==
  /\ pc = "poll" /\ batch = <<>> /\ queue = <<>>
  /\ pc' = "post"
  /\ UNCHANGED <<trackerVars, sessionVars, aborted, turns, batch, tool, seen, queue, orphan, bounds,
                 history>>

\* _handlePostAgentRun continues: a retry, a compaction, messages that were left over.
Continue ==
  /\ pc = "post" /\ ~aborted /\ turns < bound.turns
  /\ pc' = "start"
  /\ UNCHANGED <<trackerVars, sessionVars, aborted, turns, batch, tool, seen, queue, orphan, bounds,
                 history>>

\* The finally of _runAgentPrompt, up to the listeners of agent_settled.
Finish ==
  /\ pc \in {"post", "over"}
  /\ pc' = "idle"
  /\ pendingMutations' = {} /\ settling' = settling + 1
  /\ UNCHANGED <<trackerVars, runStarted, shell, aborted, turns, batch, tool, seen, queue, orphan,
                 bounds, history>>

\* They have returned; meanwhile the next prompt may have started.
Settle ==
  /\ settling > 0 /\ settling' = settling - 1
  /\ runStarted' = FALSE
  /\ overlapped' = (overlapped \/ (runStarted /\ pc # "idle"))
  /\ UNCHANGED <<trackerVars, pendingMutations, shell, runVars, bounds, edits, base, resets, hidden, nudges,
                 disturbed>>

-----------------------------------------------------------------------------
(* The user. *)

Running == pc # "idle"

QueueMessage ==
  /\ Running /\ messages < bound.messages
  /\ messages' = messages + 1 /\ queue' = Append(queue, "user")
  /\ UNCHANGED <<trackerVars, sessionVars, pc, aborted, turns, batch, tool, seen, orphan, bound, prompts,
                 reloads, shells, history>>

\* clearQueue, which clears the agent's queues and the feedback in them.
ClearQueue ==
  /\ queue # <<>> /\ queue' = <<>> /\ disturbed' = TRUE
  /\ UNCHANGED <<trackerVars, sessionVars, pc, aborted, turns, batch, tool, seen, orphan, bounds,
                 edits, base, resets, hidden, overlapped, nudges>>

Abort ==
  /\ Running /\ ~aborted /\ aborted' = TRUE
  /\ UNCHANGED <<trackerVars, sessionVars, pc, turns, batch, tool, seen, queue, orphan, bounds,
                 history>>

\* executeBash up to the command; getSnapshot says version 0 in mode "off".
StartShell(k) ==
  /\ shell = NoShell /\ shells < bound.shells /\ shells' = shells + 1
  /\ shell' = [command |-> k, version |-> IF mode = "off" THEN 0 ELSE version,
               pending |-> pendingMutations # {}, seen |-> edits, resets |-> resets]
  /\ UNCHANGED <<trackerVars, runStarted, pendingMutations, settling, runVars, bound, prompts, messages,
                 reloads, history>>

\* Its result, as recordUserBashValidation takes it.
EndShell(result) ==
  LET status == IF Overlaps(shell, version) THEN "concurrent-with-mutation" ELSE result
      e == Evidence(shell.command, status, version, shell.seen, shell.resets)
  IN  /\ shell # NoShell /\ shell' = NoShell
      /\ validations' = IF mode # "off" /\ shell.command \in discovery
                        THEN Kept(Append(validations, e)) ELSE validations
      /\ UNCHANGED <<mode, discovery, pendingDiscovery, version, attempts, lastDecision, runStarted,
                     pendingMutations, settling, runVars, bounds, history>>

(* reload: updateDiscovery with what is found, then updateSettings with what is
   set now. *)
Reload(m, found) ==
  /\ reloads < bound.reloads /\ reloads' = reloads + 1
  /\ mode' = m /\ disturbed' = TRUE
  /\ IF mode # "off"
     THEN discovery' = found /\ UNCHANGED pendingDiscovery
     ELSE IF m # "off"
          THEN discovery' = found /\ pendingDiscovery' = {}
          ELSE pendingDiscovery' = {found} /\ UNCHANGED discovery
  /\ UNCHANGED <<version, validations, attempts, lastDecision, sessionVars, runVars, bound, prompts,
                 messages, shells, edits, base, resets, hidden, overlapped, nudges>>

-----------------------------------------------------------------------------
Result == {"passed", "failed", "unverified"}

RunStep ==
  \/ Prompt \/ AgentStart \/ Stop \/ FailRun \/ OrphanWrites \/ TurnEnd
  \/ Decide \/ DecideLater \/ GoOn \/ Complete \/ Continue \/ Finish \/ Settle
  \/ \E b \in Batch : Respond(b)
  \/ \E i \in DOMAIN batch : StartTool(i) \/ Write(i) \/ \E r \in Result : EndTool(i, r)

UserStep ==
  \/ QueueMessage \/ ClearQueue \/ Abort
  \/ \E k \in Command : StartShell(k)
  \/ \E r \in Result : EndShell(r)
  \/ \E m \in Mode, found \in Discovery : Reload(m, found)

Next == RunStep \/ UserStep

Spec == Init /\ [][Next]_vars

-----------------------------------------------------------------------------
TypeOK ==
  /\ mode \in Mode /\ discovery \in Discovery /\ pendingDiscovery \in SUBSET Discovery
  /\ version \in Nat /\ attempts \in Nat /\ nudges \in Nat
  /\ Len(validations) <= MaxValidations
  /\ \A i \in DOMAIN validations : validations[i].status \in Status
  /\ pc \in {"idle", "start", "model", "tools", "decide", "poll", "post", "over"}
  /\ turns \in 0..bound.turns /\ edits \in Nat /\ base \in 0..edits /\ settling \in Nat
  /\ pendingMutations \subseteq 1..bound.batch
  /\ \A i \in DOMAIN batch : tool[i] \in ToolState

(* Evidence that counts was produced by a command that started after the last
   change of the files.  Not so when the tracker was not told of that change, or
   when the command was started before the numbers began again: an old number can
   come back. *)
FreshIsFresh ==
  pc = "decide" /\ Reason = "fresh-validation-passed" =>
    hidden \/ \A e \in Fresh("passed") : e.seen = edits \/ e.resets # resets

\* Before it decides, the tracker knows every change that the prompt made, across retries.
EveryEditCounts ==
  pc = "decide" /\ ~hidden /\ ~overlapped => version = edits - base

\* The model is not reminded more often than the settings say, retries or not.
RemindersBounded == nudges <= MaxAttempts \/ overlapped

(* In mode "enforce" an agent that has changed files and could validate them stops
   only when that was decided in its last turn: it passed, or was reminded
   often enough. *)
CompletionIsDecided ==
  [][Complete /\ mode = "enforce" /\ version > 0 /\ discovery # {} =>
       disturbed \/ lastDecision.action = "allow"]_vars

(* The evidence that a decision rests on: made after the last edit, no edit left out, and
   the model is not reminded of it for ever. *)
EvidenceIsSound == TypeOK /\ FreshIsFresh /\ EveryEditCounts /\ RemindersBounded
=============================================================================
