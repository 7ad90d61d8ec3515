------------------------------ MODULE MCAgentRun ------------------------------
(***************************************************************************)
(* Two instances of AgentRun, explored in one run: the agent of the .cfg,  *)
(* which AgentSession wires, and one whose user keeps its queues full.     *)
(***************************************************************************)
EXTENDS AgentRun

VARIABLE instance  \* which of the two this behaviour is of

\* Three messages, of which a queue in one-at-a-time mode leaves some behind.
Queues == INSTANCE AgentRun WITH
  ListenerCount <- 1, Fatal <- {}, MaxFailures <- 0,
  MaxBatch <- 1, MaxCalls <- 1, MaxTexts <- 3, MaxRuns <- 1

MCInit == \/ instance = "session" /\ Init
          \/ instance = "queues" /\ Queues!Init

MCNext == /\ \/ instance = "session" /\ Next
             \/ instance = "queues" /\ Queues!Next
          /\ UNCHANGED instance

MCSpec == MCInit /\ [][MCNext]_<<vars, instance>>
=============================================================================
