------------------------- MODULE MCExecutionIntegrity -------------------------
(* The bounds of ExecutionIntegrity that the run explores. *)
EXTENDS ExecutionIntegrity

MCScenarios ==
  { \* shell commands beside the agent, over two prompts
    [modes |-> {"enforce"}, turns |-> 2, batch |-> 1, prompts |-> 2, messages |-> 0,
     reloads |-> 0, shells |-> 1],
    \* retries, over two prompts
    [modes |-> {"enforce"}, turns |-> 4, batch |-> 1, prompts |-> 2, messages |-> 0,
     reloads |-> 0, shells |-> 0],
    \* batches of two
    [modes |-> {"enforce"}, turns |-> 3, batch |-> 2, prompts |-> 1, messages |-> 0,
     reloads |-> 0, shells |-> 0],
    \* queued messages
    [modes |-> Mode, turns |-> 3, batch |-> 1, prompts |-> 1, messages |-> 1,
     reloads |-> 0, shells |-> 0],
    \* reloads
    [modes |-> {"off", "enforce"}, turns |-> 3, batch |-> 1, prompts |-> 1, messages |-> 0,
     reloads |-> 1, shells |-> 1] }
=============================================================================
