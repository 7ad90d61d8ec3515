---------------------------- MODULE TerminalScreen ----------------------------
(***************************************************************************)
(* The renders of TuiRender under names of their own, so that other        *)
(* components can be explored, and reasoned about, beside them.            *)
(***************************************************************************)
EXTENDS Integers, Sequences, Functions

CONSTANTS Contents, Sizes, MaxResizes, MaxForces    \* see TuiRender

VARIABLES
  term, clearOnShrink, known, tui, requested, renderTimer, ticks, uiStopped, resizes, forces, origin

tuiVars == <<term, clearOnShrink, known, tui, requested, renderTimer, ticks, uiStopped, resizes,
             forces, origin>>

Tui == INSTANCE TuiRender WITH timer <- renderTimer, stopped <- uiStopped

\* Lines are never empty, since applyLineResets ends each with a reset; a terminal has a
\* column and a row.
ASSUME TerminalAssumption ==
  /\ \A c \in Contents : c \in Seq(Range(c)) /\ Tui!Blank \notin Range(c)
  /\ \A s \in Sizes : s = <<s[1], s[2]>> /\ s[1] \in Nat \ {0} /\ s[2] \in Nat \ {0}

-----------------------------------------------------------------------------
(* Properties *)

\* The terminal shows the content, its end and the cursor where they are taken to be.
TerminalIsKnown == Tui!TerminalIsKnown
=============================================================================
