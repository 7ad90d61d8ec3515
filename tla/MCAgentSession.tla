--------------------------- MODULE MCAgentSession ---------------------------
(* Scenarios of AgentSession, for TLC. *)
EXTENDS AgentSession

Scenario(stops, t, w, b, a, c, l) ==
  [stops |-> stops, texts |-> t, tools |-> w, bash |-> b, aborts |-> a, compacts |-> c, large |-> l]

\* Failures of every kind, while messages are queued and given back and runs aborted.
Failing == Scenario({"stop", "error", "fatal", "overflow", "length"}, 2, 0, 0, 1, 0, 1)
\* Tools and commands of the shell, interrupted by compact().
Working == Scenario({"stop", "toolUse", "error"}, 2, 1, 1, 0, 1, 0)
\* Tools and commands of the shell, with automatic compactions.
Growing == Scenario({"stop", "toolUse", "overflow"}, 2, 1, 1, 0, 0, 1)
\* Several queued messages, given back, aborted and interrupted by compact().
Queueing == Scenario({"stop"}, 3, 0, 0, 1, 1, 0)

EveryScenario == {Failing, Working, Growing, Queueing}
=============================================================================
