-------------------------------- MODULE BashCommand --------------------------------
(***************************************************************************)
(* A command that the bash tool runs locally on POSIX: exec of             *)
(* createLocalBashOperations (packages/coding-agent/src/core/tools/        *)
(* bash.ts), waitForChildProcess (utils/child-process.ts) and the cleanup  *)
(* of the process tree (utils/shell.ts).                                   *)
(*                                                                         *)
(* The shell leads a process group.  A job that it starts stays in the     *)
(* group; a daemon leaves it.  Any of them may hold the output pipe,       *)
(* stdout and stderr being one here, and may outlive the shell.            *)
(* exec waits for the shell to exit and for the pipe to end or to fall     *)
(* idle.  An abort or the timeout ends the wait: the group gets SIGTERM,   *)
(* after a grace SIGKILL, and exec rejects.                                *)
(*                                                                         *)
(* Processes do what they please: they may ignore a signal for ever.  The  *)
(* deadline of 10 s around the cleanup is left out, which the two waits of *)
(* 5 s and 1 s never reach here, and so are failures of kill(2) other than *)
(* that the group is gone.                                                 *)
(***************************************************************************)
EXTENDS Naturals, Sequences, FiniteSets, SequencesExt

CONSTANTS
  MaxWrites,  \* bound: chunks that the processes write
  MaxStalls   \* bound: how often the event loop is late by more than the idle time

Process == {"shell", "job", "daemon"}
Group == {"shell", "job"}

VARIABLES
  alive, started,   \* processes
  holding,          \* processes that write to the pipe
  pipe,             \* who wrote the chunks in the pipe
  written, stalls,
  \* waitForChildProcess
  exited, ended,    \* the exit event and the end of the pipe were seen
  postExitTimer,    \* it is armed
  settled, destroyed,
  \* exec
  exec,             \* "waiting", "cleaning", "exiting", and how it ended
  terminationKind,
  cleanup,          \* "none", "grace", "force", "completed" or "incomplete"
  tracked,          \* trackedDetachedChildPids holds the shell
  \* history
  onData,           \* chunks delivered
  lost,             \* who wrote chunks that were never read
  stopped,          \* an abort or timeout came while exec waited for the shell
  orphans           \* the processes of the group that a shutdown left behind

processes == <<alive, started, holding, written>>
waiter == <<exited, ended, postExitTimer, settled>>
history == <<onData, lost, stopped, orphans>>
vars == <<processes, pipe, stalls, waiter, destroyed, exec, terminationKind, cleanup, tracked, history>>

Init ==
  /\ alive = {"shell"} /\ started = {"shell"} /\ holding = {"shell"}
  /\ pipe = <<>> /\ written = 0 /\ stalls = 0
  /\ exited = FALSE /\ ended = FALSE /\ postExitTimer = FALSE
  /\ settled = FALSE /\ destroyed = FALSE
  /\ exec = "waiting" /\ terminationKind = "none" /\ cleanup = "none" /\ tracked = TRUE
  /\ onData = 0 /\ lost = {} /\ stopped = FALSE /\ orphans = {}

Over == exec \in {"returned", "aborted", "timeout", "shutdown"}
GroupAlive == alive \cap Group # {}

-----------------------------------------------------------------------------
(* Processes *)

\* A process of the group starts a job or a daemon, which may redirect its output.
Fork(p, holds) ==
  /\ GroupAlive /\ p \notin started
  /\ holds => holding \cap Group # {}
  /\ started' = started \cup {p} /\ alive' = alive \cup {p}
  /\ holding' = (IF holds THEN holding \cup {p} ELSE holding)
  /\ UNCHANGED <<pipe, written, stalls, waiter, destroyed, exec, terminationKind, cleanup, tracked, history>>

Write(p) ==
  /\ p \in alive \cap holding /\ written < MaxWrites /\ written' = written + 1
  /\ pipe' = (IF destroyed THEN pipe ELSE Append(pipe, p))
  /\ UNCHANGED <<alive, started, holding, stalls, waiter, destroyed, exec, terminationKind, cleanup,
                 tracked, history>>

Exit(p) ==
  /\ p \in alive /\ alive' = alive \ {p} /\ holding' = holding \ {p}
  /\ UNCHANGED <<started, pipe, written, stalls, waiter, destroyed, exec, terminationKind, cleanup,
                 tracked, history>>

-----------------------------------------------------------------------------
(* waitForChildProcess *)

\* The streams are destroyed, and what they hold is gone.
Destroy ==
  /\ destroyed' = TRUE /\ pipe' = <<>> /\ lost' = lost \cup ToSet(pipe)
  /\ UNCHANGED <<onData, stopped, orphans>>

finalize == settled' = TRUE /\ postExitTimer' = FALSE /\ Destroy

\* Slip: the timer is cleared by data and not armed again.
DisarmedByData == FALSE

\* onData: the timer starts again, if the shell has exited.
ArmedByData == exited

Data ==
  /\ pipe # <<>> /\ ~destroyed
  /\ pipe' = Tail(pipe) /\ onData' = onData + 1
  /\ postExitTimer' = (IF settled THEN postExitTimer ELSE ArmedByData)
  /\ UNCHANGED <<processes, stalls, exited, ended, settled, destroyed, exec, terminationKind, cleanup,
                 tracked, lost, stopped, orphans>>

\* onStdoutEnd, onStderrEnd: the last holder has closed the pipe.
End ==
  /\ ~ended /\ ~destroyed /\ pipe = <<>> /\ holding = {} /\ ended' = TRUE
  /\ IF exited /\ ~settled THEN finalize
     ELSE UNCHANGED <<settled, postExitTimer, destroyed, pipe, history>>
  /\ UNCHANGED <<processes, stalls, exited, exec, terminationKind, cleanup, tracked>>

\* maybeFinalizeAfterExit: the pipe has ended already.
SettlesAtExit == ended

onExit ==
  /\ ~exited /\ ~settled /\ "shell" \notin alive /\ exited' = TRUE
  /\ IF SettlesAtExit THEN finalize
     ELSE postExitTimer' = TRUE /\ UNCHANGED <<settled, destroyed, pipe, history>>
  /\ UNCHANGED <<processes, stalls, ended, exec, terminationKind, cleanup, tracked>>

\* Nothing was read for 100 ms.  What the shell has written was in the pipe before its
\* exit was seen and has been read by then, unless the event loop is late.
Idle ==
  /\ postExitTimer /\ ~settled /\ finalize
  /\ IF "shell" \in ToSet(pipe) THEN stalls < MaxStalls /\ stalls' = stalls + 1 ELSE UNCHANGED stalls
  /\ UNCHANGED <<processes, exited, ended, exec, terminationKind, cleanup, tracked>>

-----------------------------------------------------------------------------
(* terminateProcessTreeAndWait *)

\* isProcessTreeAlive, of the process group.
TreeGone == ~GroupAlive

\* SIGTERM, and waits that poll the group.
CleanupSees ==
  /\ cleanup \in {"grace", "force"} /\ TreeGone /\ cleanup' = "completed"
  /\ UNCHANGED <<processes, pipe, stalls, waiter, destroyed, exec, terminationKind, tracked, history>>

GraceOver ==
  /\ cleanup = "grace" /\ ~TreeGone /\ cleanup' = "force"
  /\ UNCHANGED <<processes, pipe, stalls, waiter, destroyed, exec, terminationKind, tracked, history>>

ForceOver ==
  /\ cleanup = "force" /\ ~TreeGone /\ cleanup' = "incomplete"
  /\ UNCHANGED <<processes, pipe, stalls, waiter, destroyed, exec, terminationKind, tracked, history>>

-----------------------------------------------------------------------------
(* exec *)

\* The signal aborts, or the time is up.
terminate(kind) ==
  /\ ~Over /\ terminationKind = "none"
  /\ terminationKind' = kind /\ cleanup' = "grace"
  /\ stopped' = ~settled
  /\ UNCHANGED <<processes, pipe, stalls, waiter, destroyed, exec, tracked, onData, lost, orphans>>

\* Slip: what the shell did decides.
CompletedFirst == settled

\* The shell has completed, and nothing has asked for its termination.
Completed == settled /\ terminationKind = "none"

\* The finally block.
Leave(how) == exec' = how /\ tracked' = FALSE

Return ==
  /\ exec = "waiting" /\ Completed /\ Leave("returned")
  /\ UNCHANGED <<processes, pipe, stalls, waiter, destroyed, terminationKind, cleanup, history>>

AwaitCleanup ==
  /\ exec = "waiting" /\ terminationKind # "none" /\ exec' = "cleaning"
  /\ UNCHANGED <<processes, pipe, stalls, waiter, destroyed, terminationKind, cleanup, tracked, history>>

AwaitExit ==
  /\ exec = "cleaning" /\ cleanup \in {"completed", "incomplete"} /\ exec' = "exiting"
  /\ UNCHANGED <<processes, pipe, stalls, waiter, destroyed, terminationKind, cleanup, tracked, history>>

Throw ==
  /\ exec = "exiting" /\ settled /\ Leave(terminationKind)
  /\ UNCHANGED <<processes, pipe, stalls, waiter, destroyed, terminationKind, cleanup, history>>

\* detachUnresponsiveChild
Detach == Destroy

\* A second after the cleanup: the shell is given up, and its listeners removed.
GiveUp ==
  /\ exec = "exiting" /\ ~settled /\ Leave(terminationKind) /\ Detach
  /\ cleanup' = "incomplete" /\ postExitTimer' = FALSE /\ settled' = TRUE
  /\ UNCHANGED <<processes, stalls, exited, ended, terminationKind>>

Tracked == tracked

\* SIGTERM or SIGHUP to this process: killTrackedDetachedChildren, and it ends.
Shutdown ==
  /\ ~Over /\ exec' = "shutdown"
  /\ orphans' = (IF Tracked THEN {} ELSE alive \cap Group)
  /\ destroyed' = TRUE /\ pipe' = <<>>
  /\ UNCHANGED <<processes, stalls, waiter, terminationKind, cleanup, tracked, onData, lost, stopped>>

Processes ==
  \/ \E p \in {"job", "daemon"}, holds \in BOOLEAN : Fork(p, holds)
  \/ \E p \in Process : Write(p) \/ Exit(p)

\* What the event loop does by itself: events, timers, continuations.
Loop ==
  /\ exec # "shutdown"
  /\ \/ Data \/ End \/ onExit \/ Idle \/ CleanupSees \/ GraceOver \/ ForceOver
     \/ Return \/ AwaitCleanup \/ AwaitExit \/ Throw \/ GiveUp

Next == Processes \/ Loop \/ (\E kind \in {"aborted", "timeout"} : terminate(kind)) \/ Shutdown

Spec == Init /\ [][Next]_vars

\* Events are delivered and timers fire.  Nothing is said of the processes.
Fairness == WF_vars(Loop)

FairSpec == Spec /\ Fairness

-----------------------------------------------------------------------------
(* Properties *)

(* exec ends when it is told to, whatever processes ignore its signals, hold the pipe
   or write to it; and once the shell has exited and its descendants, if they hold the
   pipe, have stopped writing (MaxWrites). *)
ExecEnds == terminationKind # "none" \/ "shell" \notin alive ~> Over

(* The error of an aborted command names an incomplete cleanup, unless no process of
   the group is left. *)
CleanupIsTrue == exec \in {"aborted", "timeout"} /\ cleanup = "completed" => ~GroupAlive

(* All that the shell wrote is read before exec answers with its exit code, whatever
   comes first of exit, data and end, unless the event loop was late. *)
OutputIsWhole == exec = "returned" /\ stalls = 0 => "shell" \notin lost

(* A command that is stopped before it has completed never looks successful. *)
StoppedIsReported == stopped => exec # "returned"

(* No output is delivered after exec is over, when the accumulator is finished. *)
NoOutputAfterEnd == [][onData' # onData => ~Over]_vars

(* A shutdown leaves no process of a running command behind, also while the command is
   being stopped. *)
ShutdownKillsTree == orphans = {}

(* How a command ends: with its whole output or with the truth about why not, and
   without processes left behind. *)
CommandIsWhole == CleanupIsTrue /\ OutputIsWhole /\ StoppedIsReported /\ ShutdownKillsTree
=============================================================================
