---------------------------- MODULE MCAgentTerminal ----------------------------
(***************************************************************************)
(* What a session and its terminal do by themselves, explored in one run:  *)
(* an agent's run that must end, the renders of the terminal interface,    *)
(* and the buffer of its input.  They share no state: a behaviour is one   *)
(* of the three.                                                           *)
(***************************************************************************)
EXTENDS AgentRun, TerminalScreen

CONSTANT Streams  \* of the buffer

VARIABLES
  component,  \* which one this behaviour is of
  stream, received, input, inputTimer, flushed  \* of the buffer

stdinVars == <<stream, received, input, inputTimer, flushed>>

-----------------------------------------------------------------------------
\* Up to four lines, of which one may be another: up to twice the rows of the screen.
Lines == <<"a", "b", "c", "d">>
MCContents ==
  {[i \in 1 .. n |-> IF i = k THEN "z" ELSE Lines[i]] : n \in 0 .. 4, k \in 0 .. 4}

MCSizes == {<<1, 2>>, <<1, 3>>, <<2, 3>>}

-----------------------------------------------------------------------------
Key(text) == [paste |-> FALSE, text |-> text]
Paste(text) == [paste |-> TRUE, text |-> text]

\* Keys with and without a modifier, the Escape key, pastes with a beginning and an end
\* of a sequence in them.
MCStreams ==
  {<<Key(<<"esc", "[", "5", "letter">>), Paste(<<"letter", "esc", "[">>), Key(<<"letter">>)>>,
   <<Key(<<"esc">>), Key(<<"esc", "[", "letter">>), Key(<<"esc", "letter">>), Key(<<"esc">>),
     Paste(<<"letter">>), Key(<<"esc", "[", "letter">>)>>,
   <<Paste(<<>>), Paste(<<"esc", "200~">>), Key(<<"esc">>), Key(<<"letter">>)>>}

Stdin == INSTANCE StdinBuffer WITH timer <- inputTimer

\* Nothing of what was typed is lost or changed.
TypedArrives == Stdin!TypedArrives

\* A run of the agent ends, whatever fails in it and whenever it is aborted.  A render for
\* the new size of the terminal runs, and what is typed is emitted.
RunsAndTerminalSettle ==
  /\ RunSettles
  /\ component = "tui" /\ tui.size # term.size ~> tui.size = term.size \/ uiStopped
  /\ Stdin!InputIsEmitted

-----------------------------------------------------------------------------
\* What is not explored stays in one of its initial states.
MCInit ==
  /\ component \in {"agent", "tui", "stdin"}
  /\ Init /\ Tui!Init /\ Stdin!Init
  /\ component # "tui" => term.at = 1 /\ term.size = <<1, 2>> /\ clearOnShrink
  /\ component # "stdin" => Len(stream) = 3

MCNext ==
  /\ \/ component = "agent" /\ Next /\ UNCHANGED <<tuiVars, stdinVars>>
     \/ component = "tui" /\ Tui!Next /\ UNCHANGED <<vars, stdinVars>>
     \/ component = "stdin" /\ Stdin!Next /\ UNCHANGED <<vars, tuiVars>>
  /\ UNCHANGED component

\* The fairness of each, asked only where it applies.
AgentFairness ==
  /\ WF_vars(component = "agent" /\ LoopStep)
  /\ WF_vars(component = "agent" /\ ToolStep)
  /\ WF_vars(component = "agent" /\ ListenerStep)

Ticks == component = "tui" /\ Tui!TickRan
Timers == component = "tui" /\ Tui!TimerRan
TuiFairness ==
  /\ []<>(ticks = <<>> \/ component # "tui") \/ []<><<Ticks>>_tuiVars
  /\ []<>(~renderTimer \/ ticks # <<>>) \/ []<><<Timers>>_tuiVars
  /\ SF_tuiVars(component = "tui" /\ Tui!Winch)

StdinFairness == WF_stdinVars(component = "stdin" /\ Stdin!Timeout)

MCSpec ==
  /\ MCInit /\ [][MCNext]_<<component, vars, tuiVars, stdinVars>>
  /\ AgentFairness /\ TuiFairness /\ StdinFairness
=============================================================================
