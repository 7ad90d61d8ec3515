---------------------------- MODULE HarnessSession ----------------------------
(***************************************************************************)
(* The harness of AgentHarness whose callers use it, while it is idle, one *)
(* call at a time, under a name of its own, so that other components can   *)
(* be explored, and reasoned about, beside it.                             *)
(***************************************************************************)
EXTENDS Naturals

CONSTANTS SteeringMode, FollowUpMode, MaxRuns, MaxTurns, MaxCalls, MaxFailures  \* see AgentHarness

\* There may be any number of prompts, and there is one.
ASSUME RunsAssumption == MaxRuns \in Nat \ {0}

VARIABLES
  phase, controller, runPromise, pending, model, queue, log, branch, run, call, op, aborter, calls,
  failures, sent, seen, gone, accepted, gaveUp

harnessVars == <<phase, controller, runPromise, pending, model, queue, log, branch, run, call, op,
                 aborter, calls, failures, sent, seen, gone, accepted, gaveUp>>

Harness == INSTANCE AgentHarness WITH Serial <- TRUE

-----------------------------------------------------------------------------
(* Properties *)

\* What the session, the model and the queues hold of each other's writes and messages.
SessionIsKept == Harness!SessionIsKept

\* Calls of the harness come to their end, an abort after the runs that it ends.
CallsSettle == Harness!CallsSettle
=============================================================================
