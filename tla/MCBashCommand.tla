----------------------------- MODULE MCBashCommand -----------------------------
(***************************************************************************)
(* Three components explored in one run: a command of the bash tool, the   *)
(* accumulator of a command's output, and the harness.  They share no      *)
(* state: a behaviour is one of the three.                                 *)
(***************************************************************************)
EXTENDS BashCommand, HarnessSession

VARIABLES
  component,  \* which one this behaviour is of
  limits, rawChunks, pendingLead, tailText, tailBytes, tailStartsAtLineBoundary, totalRawBytes,
  totalDecodedBytes, completedLines, hasOpenLine, currentLineBytes, finished, tempFile, closed,
  input       \* of the accumulator

outputVars == <<limits, rawChunks, pendingLead, tailText, tailBytes, tailStartsAtLineBoundary, totalRawBytes,
                totalDecodedBytes, completedLines, hasOpenLine, currentLineBytes, finished, tempFile, closed,
                input>>

-----------------------------------------------------------------------------
\* Enough output that the tail is trimmed within a line and between lines; characters of
\* two bytes, whole, cut by a chunk and broken.
MCCases ==
  { [maxLines |-> 2, maxBytes |-> 3, length |-> 13, chunk |-> 2, alphabet |-> {"newline", "letter"}],
    [maxLines |-> 1, maxBytes |-> 3, length |-> 6, chunk |-> 2,
     alphabet |-> {"newline", "letter", "lead", "trail"}] }

Output == INSTANCE OutputAccumulator WITH Cases <- MCCases

\* What is shown, counted, saved and kept of an output agree with all of it.
OutputIsKept == Output!OutputIsKept

-----------------------------------------------------------------------------
MCInit ==
  /\ component \in {"command", "harness", "output"} /\ Init /\ Harness!Init /\ Output!Init
  \* What is not explored starts in one state.
  /\ component # "output" => limits = CHOOSE c \in MCCases : TRUE

MCNext ==
  /\ \/ component = "command" /\ Next /\ UNCHANGED <<harnessVars, outputVars>>
     \/ component = "harness" /\ Harness!Next /\ UNCHANGED <<vars, outputVars>>
     \/ component = "output" /\ Output!Next /\ UNCHANGED <<vars, harnessVars>>
  /\ UNCHANGED component

\* The fairness of the command and of the harness, asked only where it applies.  Nothing is said of
\* when a command writes.
CommandFairness == WF_vars(component = "command" /\ Loop)

HarnessStep(A) == component = "harness" /\ A
HarnessFairness ==
  /\ \A r \in Harness!Runs : WF_harnessVars(HarnessStep(Harness!RunStep(r)))
  /\ WF_harnessVars(HarnessStep(Harness!Written))
  /\ WF_harnessVars(HarnessStep(Harness!WaitForIdle \/ Harness!AbortReturns))
  /\ WF_harnessVars(HarnessStep(Harness!OpStep))

MCSpec ==
  /\ MCInit /\ [][MCNext]_<<component, vars, harnessVars, outputVars>>
  /\ CommandFairness /\ HarnessFairness
=============================================================================
