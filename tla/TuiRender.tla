-------------------------------- MODULE TuiRender --------------------------------
(***************************************************************************)
(* Differential rendering of the terminal interface (packages/tui/src/     *)
(* tui.ts): when a render runs, and what it writes.                        *)
(*                                                                         *)
(* The TUI never reads the terminal.  It remembers the lines that it drew, *)
(* the row of the cursor and the first line that it takes for visible, and *)
(* moves the cursor relatively; the terminal scrolls, and stops the cursor *)
(* at the edges of the screen.                                             *)
(*                                                                         *)
(* Lines are opaque and one row high: images, styles, wide characters and  *)
(* the composition of overlays are left out, and so is Termux, where a     *)
(* change of height draws nothing.  Every start but the first is followed  *)
(* by a forced render, as all callers do it.  Two things are excluded in   *)
(* which the TUI loses track: a cursor that it takes to be above the       *)
(* screen, and a size that returns before the next render.                 *)
(***************************************************************************)
EXTENDS Integers, Sequences, FiniteSets, FiniteSetsExt

CONSTANTS
  Contents,       \* what the components may render: sequences of lines
  Sizes,          \* sizes of the terminal: columns and rows
  MaxResizes,     \* bound
  MaxForces       \* bound: forced renders, those after a suspension included

Blank == ""
Shell == "shell"
Unknown == "?"

VARIABLES
  term,       \* the terminal: its scrollback and screen (tape), where the screen
              \* begins (top), the cursor's row (at), its size
  clearOnShrink,
  known,      \* the size that process.stdout tells
  tui,        \* previousLines, previousWidth and -Height (size), hardwareCursorRow
              \* (cursor), previousViewportTop (top), maxLinesRendered (most)
  requested,  \* renderRequested
  timer,      \* renderTimer
  ticks,      \* callbacks of process.nextTick
  stopped,
  resizes, forces,
  origin      \* history: the row of the first line

schedule == <<requested, timer, ticks>>
bounds == <<clearOnShrink, resizes, forces>>
vars == <<term, known, tui, schedule, stopped, bounds, origin>>

-----------------------------------------------------------------------------
(* The terminal *)

Bottom(t) == t.top + t.size[2] - 1

Move(t, n) ==
  [t EXCEPT !.at = IF n < 0 THEN Max({t.top, @ + n}) ELSE Min({Bottom(t), @ + n})]

\* n line feeds, of which the last ones scroll.
Feed(t, n) ==
  LET scroll == Max({0, t.at + n - Bottom(t)})
  IN [t EXCEPT !.tape = @ \o [i \in 1 .. scroll |-> Blank], !.top = @ + scroll, !.at = @ + n]

Fill(t, text) == [t EXCEPT !.tape = [r \in DOMAIN @ |-> IF r \in DOMAIN text THEN text[r] ELSE @[r]]]

\* The lines, from the cursor's row on, with line feeds between them.
Written(t, lines) ==
  IF lines = <<>> THEN t
  ELSE Fill(Feed(t, Len(lines) - 1), [r \in t.at .. t.at + Len(lines) - 1 |-> lines[r - t.at + 1]])

Cleared(t) ==
  [t EXCEPT !.tape = [r \in 1 .. t.size[2] |-> Blank], !.top = 1, !.at = 1]

\* Terminals differ in what they do with the rows when their size changes, and nothing
\* is said of what a render for another size leaves.
Garbled(t, size) ==
  [tape |-> [r \in 1 .. size[2] |-> Unknown], top |-> 1, at |-> 1, size |-> size]

-----------------------------------------------------------------------------
Init ==
  /\ \E size \in Sizes : \E at \in 1 .. size[2] :
       /\ term = [tape |-> [r \in 1 .. size[2] |-> IF r < at THEN Shell ELSE Blank],
                  top |-> 1, at |-> at, size |-> size]
       /\ known = size /\ origin = at
  /\ tui = [lines |-> <<>>, size |-> <<0, 0>>, cursor |-> 0, top |-> 0, most |-> 0]
  /\ requested = TRUE /\ timer = FALSE /\ ticks = <<"schedule">> /\ stopped = FALSE
  /\ resizes = 0 /\ forces = 0 /\ clearOnShrink \in BOOLEAN

-----------------------------------------------------------------------------
(* doRender.  Rows count from 0 in the code, and here; s is a terminal and what the
   TUI remembers. *)

Drawing(t, u) == [term |-> t, tui |-> u]

\* Slip: the rows are counted from the top of the screen.
PositionOnScreen(s, row) ==
  IF row = 0 THEN s
  ELSE Drawing(Move(s.term, row - 1 - s.tui.top - s.tui.cursor), [s.tui EXCEPT !.cursor = row - 1])

\* positionHardwareCursor; row is 0 when there is none, and a number from 1 otherwise.
positionHardwareCursor(s, row) ==
  IF row = 0 THEN s
  ELSE Drawing(Move(s.term, row - 1 - s.tui.cursor), [s.tui EXCEPT !.cursor = row - 1])

fullRender(clear, new) ==
  LET length == Len(new)
  IN Drawing(Written(IF clear THEN Cleared(term) ELSE term, new),
       [lines |-> new, size |-> known, cursor |-> Max({0, length - 1}),
        top |-> Max({known[2], length}) - known[2],
        most |-> IF clear THEN length ELSE Max({tui.most, length})])

widthChanged == tui.size[1] \notin {0, known[1]}
heightChanged == tui.size[2] \notin {0, known[2]}

\* Nothing has been drawn, or all of it was cleared.
FirstRender == tui.lines = <<>> /\ ~widthChanged /\ ~heightChanged

LineAt(lines, i) == IF i < Len(lines) THEN lines[i + 1] ELSE Blank

Changed(new) ==
  {i \in 0 .. Max({Len(new), Len(tui.lines)}) - 1 : LineAt(new, i) # LineAt(tui.lines, i)}

\* What is beyond the new lines, and nothing else, has changed.
OnlyDeleted(new) == \A i \in Changed(new) : i >= Len(new)
Extra(new) == Len(tui.lines) - Len(new)

\* What must be drawn was visible.
Reached(new) ==
  IF OnlyDeleted(new)
  THEN Max({0, Len(new) - 1}) >= tui.top /\ Extra(new) <= known[2]
  ELSE Min(Changed(new)) >= tui.top

\* The conditions under which everything is drawn again.
MustRedraw(new, overlays) ==
  \/ widthChanged \/ heightChanged
  \/ clearOnShrink /\ Len(new) < tui.most /\ ~overlays
  \/ Changed(new) # {} /\ ~Reached(new)

\* Clears the extra lines without scrolling.
DrawDeleted(new) ==
  LET target == Max({0, Len(new) - 1})
      offset == IF new = <<>> THEN 0 ELSE 1
      start == Move(Move(term, target - tui.cursor), offset)
      end == Move(start, Extra(new) - 1)
      cleared == Fill(end, [r \in start.at .. end.at |-> Blank])
  IN Drawing(Move(cleared, - (Extra(new) - 1 + offset)),
             [tui EXCEPT !.lines = new, !.size = known, !.cursor = target])

\* Clears the n rows below and comes back.
ClearedBelow(t, n) ==
  IF n <= 0 THEN t
  ELSE Move(Fill(Feed(t, n), [r \in t.at + 1 .. t.at + n |-> Blank]), - n)

\* From the first line that has changed to the last.
DrawChanged(new) ==
  LET first == Min(Changed(new))
      last == Min({Max(Changed(new)), Len(new) - 1})
      append == first = Len(tui.lines) /\ first > 0
      target == IF append THEN first - 1 ELSE first
      scroll == Max({0, target - (tui.top + known[2] - 1)})
      reached ==
        IF scroll = 0 THEN Move(term, target - tui.cursor)
        ELSE Feed(Move(term, known[2] - 1 - Max({0, Min({known[2] - 1, tui.cursor - tui.top})})), scroll)
      drawn == Written(IF append THEN Feed(reached, 1) ELSE reached, SubSeq(new, first + 1, last + 1))
      final == IF Extra(new) > 0 THEN Len(new) - 1 ELSE last
  IN Drawing(ClearedBelow(Move(drawn, final - last), Extra(new)),
       [lines |-> new, size |-> known, cursor |-> final,
        top |-> Max({tui.top + scroll, final - known[2] + 1}), most |-> Max({tui.most, Len(new)})])

Drawn(new, overlays) ==
  IF FirstRender THEN fullRender(FALSE, new)
  ELSE IF MustRedraw(new, overlays) THEN fullRender(TRUE, new)
  ELSE IF Changed(new) = {} THEN Drawing(term, [tui EXCEPT !.size[2] = known[2]])
  ELSE IF OnlyDeleted(new) THEN DrawDeleted(new)
  ELSE DrawChanged(new)

\* What the components render: their lines, and a cursor in one of the last ones, as
\* extractCursorPosition finds it, or 0.  An overlay fills the screen.
Content ==
  UNION { {new} \X ({0} \cup Max({1, Len(new) - known[2] + 1}) .. Len(new))
                \X (IF clearOnShrink /\ Len(new) >= known[2] THEN BOOLEAN ELSE {FALSE}) : new \in Contents }

doRender ==
  \E content \in Content :
    LET new == content[1]
        row == content[2]
        drawn == Drawn(new, content[3])
        all == ~FirstRender /\ MustRedraw(new, content[3])
        s == positionHardwareCursor(drawn, row)
    IN /\ row # 0 => row - 1 >= drawn.tui.top  \* excluded: see above
       /\ term' = (IF known = term.size THEN s.term ELSE Garbled(term, term.size))
       /\ tui' = s.tui
       /\ origin' = IF all THEN 1 ELSE IF tui.size[1] = 0 THEN term.at ELSE origin

-----------------------------------------------------------------------------
(* When it runs *)

\* requestRender(), with what a callback appends.
Requested(queue) ==
  /\ requested' = TRUE
  /\ ticks' = IF requested THEN queue ELSE Append(queue, "schedule")

RequestRender ==
  /\ Requested(ticks)
  /\ UNCHANGED <<term, known, tui, timer, stopped, bounds, origin>>

\* requestRender(true): everything is forgotten.
Forced ==
  /\ forces < MaxForces /\ forces' = forces + 1
  /\ tui' = [lines |-> <<>>, size |-> <<-1, -1>>, cursor |-> 0, top |-> 0, most |-> 0]
  /\ requested' = TRUE /\ timer' = FALSE

\* Slip: a request that is pending will do.
ForceOnce(queue) == IF requested THEN queue ELSE Append(queue, "force")

ForceQueue(queue) == Append(queue, "force")

Force ==
  /\ ~stopped /\ ticks = <<>> /\ Forced /\ ticks' = ForceQueue(ticks)
  /\ UNCHANGED <<term, known, stopped, clearOnShrink, resizes, origin>>

\* The render, during which a component may request another one.
Renders(queue) ==
  /\ doRender
  /\ \/ requested' = FALSE /\ ticks' = queue
     \/ requested' = TRUE /\ ticks' = Append(queue, "schedule")
  /\ UNCHANGED <<known, stopped, bounds>>

\* scheduleRender, from its callback.
ScheduleTick ==
  /\ ticks # <<>> /\ Head(ticks) = "schedule" /\ ticks' = Tail(ticks)
  /\ timer' = (timer \/ (~stopped /\ requested))
  /\ UNCHANGED <<term, known, tui, requested, stopped, bounds, origin>>

ForceTick ==
  /\ ticks # <<>> /\ Head(ticks) = "force"
  /\ IF stopped \/ ~requested
     THEN ticks' = Tail(ticks)
          /\ UNCHANGED <<term, known, tui, requested, stopped, bounds, origin>>
     ELSE Renders(Tail(ticks))
  /\ UNCHANGED timer

TimerFires ==
  /\ timer /\ ticks = <<>>
  /\ IF requested
     THEN Renders(ticks) /\ timer' = requested'
     ELSE timer' = FALSE
          /\ UNCHANGED <<term, known, tui, requested, ticks, stopped, bounds, origin>>

-----------------------------------------------------------------------------
(* The terminal's user, and suspension *)

Resize ==
  /\ resizes < MaxResizes /\ resizes' = resizes + 1
  /\ tui.size[1] # 0
  /\ \E size \in Sizes \ {term.size, tui.size} : term' = Garbled(term, size)
  /\ UNCHANGED <<clearOnShrink, known, tui, schedule, stopped, forces, origin>>

\* SIGWINCH: the new size is read, and the handler of start requests a render.
Winch ==
  /\ known # term.size /\ ticks = <<>> /\ known' = term.size
  /\ IF stopped THEN UNCHANGED <<requested, ticks>> ELSE Requested(ticks)
  /\ UNCHANGED <<term, tui, timer, stopped, bounds, origin>>

\* stop moves below the content.
Below == Move(term, Len(tui.lines) - tui.cursor)

\* stop, and something else writes a line to the terminal.
Stop ==
  /\ ~stopped /\ ticks = <<>> /\ forces < MaxForces /\ stopped' = TRUE
  /\ timer' = FALSE
  /\ term' = Feed(Written(IF tui.lines = <<>> THEN term ELSE Feed(Below, 1), <<Shell>>), 1)
  /\ UNCHANGED <<known, tui, requested, ticks, bounds, origin>>

\* start and requestRender(true).
Resume ==
  /\ stopped /\ ticks = <<>> /\ stopped' = FALSE /\ Forced
  /\ ticks' = ForceQueue(IF requested THEN ticks ELSE Append(ticks, "schedule"))
  /\ UNCHANGED <<term, known, clearOnShrink, resizes, origin>>

Callbacks == ScheduleTick \/ ForceTick \/ TimerFires

Next == RequestRender \/ Force \/ Callbacks \/ Resize \/ Winch \/ Stop \/ Resume

Spec == Init /\ [][Next]_vars

\* A callback or a timer that is due has run.
TickRan == ticks # <<>> /\ ticks' # ticks /\ Len(ticks') <= Len(ticks)
TimerRan == timer /\ ticks = <<>> /\ UNCHANGED <<known, stopped, bounds>> /\ ~RequestRender

\* Callbacks and timers run, and the size becomes known between them: weak fairness of
\* Callbacks, written out so that TLC need not enumerate their renders, and strong
\* fairness of Winch.
Fairness ==
  /\ []<>(ticks = <<>>) \/ []<><<TickRan>>_vars
  /\ []<>(~timer \/ ticks # <<>>) \/ []<><<TimerRan>>_vars
  /\ SF_vars(Winch)

FairSpec == Spec /\ Fairness

-----------------------------------------------------------------------------
(* Properties *)

\* The size has not changed since the last render, and nothing else writes.
Undisturbed == tui.size = term.size /\ ~stopped

(* Every row, of the screen and of the scrollback, shows its line, what was there
   before the first line, or nothing, whichever rows the renders left alone. *)
ScreenIsContent ==
  Undisturbed => \A r \in DOMAIN term.tape :
    term.tape[r] = IF r < origin THEN Shell ELSE LineAt(tui.lines, r - origin)

(* The cursor is where the TUI takes it to be, on the line of an input method. *)
CursorIsKnown == Undisturbed => term.at = origin + tui.cursor

(* The end of the content is on the screen. *)
EndIsVisible ==
  Undisturbed /\ tui.lines # <<>> => origin + Len(tui.lines) - 1 \in term.top .. Bottom(term)

(* The first render, a forced one and one for a new size run, whatever was requested
   before, unless the TUI is stopped. *)
RenderHappens == tui.size # term.size ~> tui.size = term.size \/ stopped

(* The terminal shows the content, its end and the cursor where the TUI takes them to be. *)
TerminalIsKnown == EndIsVisible /\ ScreenIsContent /\ CursorIsKnown
=============================================================================
