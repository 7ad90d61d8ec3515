---------------------- MODULE HarnessCommandTerminalProofs ----------------------
(***************************************************************************)
(* Theorems about three components that share nothing but this file.       *)
(*                                                                         *)
(* BashCommand: a command of the bash tool, for any number of chunks that  *)
(* its processes write and of delays of the event loop.                    *)
(*                                                                         *)
(* TuiRender: the renders of the terminal interface, for any lines, sizes  *)
(* and numbers of resizes and forced renders.  A terminal has a meaning    *)
(* that its operations keep (TermOK), each branch of doRender moves and    *)
(* scrolls exactly, and so leaves the terminal as the TUI takes it to be   *)
(* (Shows); nothing is claimed between a resize and the next render.       *)
(*                                                                         *)
(* AgentHarness: the harness of callers that use it, while it is idle, one *)
(* call at a time, for any number of prompts, turns, calls and failures.   *)
(* What a step does to the run, to the writes (WritesInv) and to the       *)
(* messages (TextsInv) is shown apart, in lemmas that several steps share; *)
(* a step then puts them together.                                         *)
(***************************************************************************)
EXTENDS BashCommand, TerminalScreen, HarnessSession, FiniteSetTheorems, WellFoundedInduction,
        SequenceTheorems, TLAPS

-----------------------------------------------------------------------------
(* BashCommand: the invariant *)

Kinds == {"aborted", "timeout"}

(* Every variable that the argument reads keeps its type. *)
TypeInv ==
  /\ alive \subseteq Process /\ holding \subseteq alive
  /\ pipe \in Seq(Process) /\ stalls \in Nat
  /\ terminationKind \in {"none"} \cup Kinds
  /\ exec \in {"waiting", "cleaning", "exiting", "returned", "shutdown"} \cup Kinds

\* The wait for the shell is over only when its streams are destroyed.
SettledInv ==
  /\ settled => destroyed
  /\ exec \in {"returned"} \cup Kinds => settled

\* Once the pipe has ended, nothing of the shell is in it and nothing will be.
EndedInv == ended => "shell" \notin holding /\ "shell" \notin ToSet(pipe)

\* While the shell's exit code may still be the answer, all that it wrote is read or in
\* the pipe.
ReadInv ==
  stalls = 0 /\ exec \in {"waiting", "cleaning", "exiting", "returned"} => "shell" \notin lost

\* exec leaves the wait only for a termination that was asked for.
StopInv ==
  /\ exec \in {"cleaning", "exiting"} => terminationKind # "none"
  /\ stopped => terminationKind # "none" /\ exec # "returned"

\* A cleanup that is complete stays so: a group without processes gets no new one.
CleanupInv == cleanup = "completed" => ~GroupAlive

\* The group is tracked until exec is over.
TrackInv ==
  /\ Over \/ tracked
  /\ orphans = {}

CommandInv ==
  TypeInv /\ SettledInv /\ EndedInv /\ ReadInv /\ StopInv /\ CleanupInv /\ TrackInv

-----------------------------------------------------------------------------
(* What the pipe holds *)

\* Nothing is in an empty pipe, reading takes from a pipe, and writing adds the writer.
LEMMA PipeElements ==
  /\ ToSet(<<>>) = {}
  /\ \A s \in Seq(Process) : s # <<>> => Tail(s) \in Seq(Process) /\ ToSet(Tail(s)) \subseteq ToSet(s)
  /\ \A s \in Seq(Process), p \in Process :
       Append(s, p) \in Seq(Process) /\ ToSet(Append(s, p)) \subseteq ToSet(s) \cup {p}
<1>1. ToSet(<<>>) = {}
  BY DEF ToSet
<1>2. ASSUME NEW s \in Seq(Process), s # <<>>
      PROVE  Tail(s) \in Seq(Process) /\ ToSet(Tail(s)) \subseteq ToSet(s)
  <2>1. Tail(s) \in Seq(Process) /\ Len(Tail(s)) = Len(s) - 1 /\ Len(s) \in Nat
    BY <1>2
  <2>2. \A i \in 1..Len(Tail(s)) : i + 1 \in 1..Len(s) /\ Tail(s)[i] = s[i + 1]
    BY <1>2, <2>1
  <2>3. QED
    BY <2>1, <2>2 DEF ToSet
<1>3. ASSUME NEW s \in Seq(Process), NEW p \in Process
      PROVE  Append(s, p) \in Seq(Process) /\ ToSet(Append(s, p)) \subseteq ToSet(s) \cup {p}
  <2>1. Append(s, p) \in Seq(Process) /\ Len(Append(s, p)) = Len(s) + 1 /\ Len(s) \in Nat
    OBVIOUS
  <2>2. \A i \in 1..Len(Append(s, p)) : (i \in 1..Len(s) /\ Append(s, p)[i] = s[i]) \/ Append(s, p)[i] = p
    BY <2>1
  <2>3. QED
    BY <2>1, <2>2 DEF ToSet
<1>4. QED
  BY <1>1, <1>2, <1>3

\* A pipe that is emptied or left alone holds nothing new.
LEMMA PipeKept ==
  ASSUME NEW s \in Seq(Process), NEW t, t = <<>> \/ t = s
  PROVE  t \in Seq(Process) /\ ToSet(t) \subseteq ToSet(s)
<1>1. CASE t = <<>>
  <2>1. <<>> \in Seq(Process)
    OBVIOUS
  <2>2. QED
    BY <1>1, <2>1, PipeElements
<1>2. CASE t = s
  BY <1>2
<1>3. QED
  BY <1>1, <1>2

-----------------------------------------------------------------------------
(* The invariant is inductive *)

\* A command that has not been started satisfies the invariant.
LEMMA CommandInit == Init => CommandInv
  BY PipeElements DEF Init, CommandInv, TypeInv, SettledInv, EndedInv, ReadInv, StopInv, CleanupInv,
     TrackInv, Process, Kinds, Over, GroupAlive

\* What the processes of the command do.
LEMMA ProcessesKeep == ASSUME CommandInv, Processes PROVE CommandInv'
<1> USE DEF CommandInv
<1>1. ASSUME NEW p \in {"job", "daemon"}, NEW holds \in BOOLEAN, Fork(p, holds)
      PROVE  CommandInv'
  <2> USE <1>1 DEF Fork, history, waiter
  <2>1. TypeInv'
    BY DEF TypeInv, Process
  <2>2. EndedInv' /\ CleanupInv'
    BY DEF EndedInv, CleanupInv, GroupAlive
  <2>3. SettledInv' /\ ReadInv' /\ StopInv' /\ TrackInv'
    BY DEF SettledInv, ReadInv, StopInv, TrackInv, Over
  <2>4. QED
    BY <2>1, <2>2, <2>3
<1>2. ASSUME NEW p \in Process, Write(p)
      PROVE  CommandInv'
  <2> USE <1>2 DEF Write, history, waiter
  <2>1. TypeInv'
    BY PipeElements DEF TypeInv
  <2>2. EndedInv'
    BY PipeElements DEF EndedInv, TypeInv
  <2>3. SettledInv' /\ ReadInv' /\ StopInv' /\ CleanupInv' /\ TrackInv'
    BY DEF SettledInv, ReadInv, StopInv, TrackInv, CleanupInv, GroupAlive, Over
  <2>4. QED
    BY <2>1, <2>2, <2>3
<1>3. ASSUME NEW p \in Process, Exit(p)
      PROVE  CommandInv'
  <2> USE <1>3 DEF Exit, history, waiter
  <2>1. TypeInv'
    BY DEF TypeInv
  <2>2. EndedInv' /\ CleanupInv'
    BY DEF EndedInv, CleanupInv, GroupAlive
  <2>3. SettledInv' /\ ReadInv' /\ StopInv' /\ TrackInv'
    BY DEF SettledInv, ReadInv, StopInv, TrackInv, Over
  <2>4. QED
    BY <2>1, <2>2, <2>3
<1>4. QED
  BY <1>1, <1>2, <1>3 DEF Processes

\* Data, the end of the pipe, the exit of the shell and the idle timer.
LEMMA WaiterKeeps ==
  ASSUME CommandInv, exec # "shutdown", Data \/ End \/ onExit \/ Idle PROVE CommandInv'
<1> USE DEF CommandInv
<1>1. ASSUME Data PROVE CommandInv'
  <2> USE <1>1 DEF Data, processes
  <2>1. TypeInv' /\ EndedInv'
    BY PipeElements DEF TypeInv, EndedInv
  <2>2. SettledInv' /\ ReadInv' /\ StopInv' /\ CleanupInv' /\ TrackInv'
    BY DEF SettledInv, ReadInv, StopInv, TrackInv, CleanupInv, GroupAlive, Over
  <2>3. QED
    BY <2>1, <2>2
<1>2. ASSUME End PROVE CommandInv'
  <2> USE <1>2 DEF End, finalize, Destroy, processes, history
  <2>1. pipe' = <<>> /\ ToSet(pipe) = {}
    BY PipeElements
  <2>2. TypeInv' /\ EndedInv'
    BY <2>1, PipeElements DEF TypeInv, EndedInv
  <2>3. SettledInv' /\ ReadInv'
    BY <2>1 DEF SettledInv, ReadInv
  <2>4. StopInv' /\ CleanupInv' /\ TrackInv'
    BY DEF StopInv, TrackInv, CleanupInv, GroupAlive, Over
  <2>5. QED
    BY <2>2, <2>3, <2>4
<1>3. ASSUME onExit PROVE CommandInv'
  <2> USE <1>3 DEF onExit, SettlesAtExit, finalize, Destroy, processes, history
  <2>1. TypeInv' /\ EndedInv'
    <3>1. pipe' = <<>> \/ pipe' = pipe
      OBVIOUS
    <3>2. pipe' \in Seq(Process) /\ ToSet(pipe') \subseteq ToSet(pipe)
      BY <3>1, PipeKept DEF TypeInv
    <3>3. QED
      BY <3>2 DEF TypeInv, EndedInv
  <2>2. SettledInv' /\ ReadInv'
    BY DEF SettledInv, ReadInv, EndedInv
  <2>3. StopInv' /\ CleanupInv' /\ TrackInv'
    BY DEF StopInv, TrackInv, CleanupInv, GroupAlive, Over
  <2>4. QED
    BY <2>1, <2>2, <2>3
<1>4. ASSUME Idle PROVE CommandInv'
  <2> USE <1>4 DEF Idle, finalize, Destroy, processes
  <2>1. TypeInv' /\ EndedInv'
    BY PipeElements DEF TypeInv, EndedInv
  <2>2. stalls' = 0 => stalls = 0 /\ "shell" \notin ToSet(pipe)
    BY DEF TypeInv
  <2>3. SettledInv' /\ ReadInv'
    BY <2>2 DEF SettledInv, ReadInv
  <2>4. StopInv' /\ CleanupInv' /\ TrackInv'
    BY DEF StopInv, TrackInv, CleanupInv, GroupAlive, Over
  <2>5. QED
    BY <2>1, <2>3, <2>4
<1>5. QED
  BY <1>1, <1>2, <1>3, <1>4

\* The cleanup of the group, an abort or a timeout, and how exec ends.
LEMMA ExecKeeps ==
  ASSUME CommandInv,
         \/ CleanupSees \/ GraceOver \/ ForceOver
         \/ Return \/ AwaitCleanup \/ AwaitExit \/ Throw \/ GiveUp
         \/ \E kind \in Kinds : terminate(kind)
         \/ Shutdown
  PROVE  CommandInv'
<1> USE DEF CommandInv, processes, waiter, history
<1>1. CASE CleanupSees \/ GraceOver \/ ForceOver
  <2> USE <1>1 DEF CleanupSees, GraceOver, ForceOver, TreeGone
  <2>1. TypeInv' /\ SettledInv' /\ EndedInv' /\ ReadInv'
    BY DEF TypeInv, SettledInv, EndedInv, ReadInv
  <2>2. StopInv' /\ CleanupInv' /\ TrackInv'
    BY DEF StopInv, CleanupInv, TrackInv, GroupAlive, Over
  <2>3. QED
    BY <2>1, <2>2
<1>2. CASE Return
  <2> USE <1>2 DEF Return, Completed, Leave
  <2>1. TypeInv' /\ SettledInv' /\ EndedInv' /\ ReadInv'
    BY DEF TypeInv, SettledInv, EndedInv, ReadInv
  <2>2. StopInv' /\ CleanupInv' /\ TrackInv'
    BY DEF StopInv, CleanupInv, TrackInv, GroupAlive, Over
  <2>3. QED
    BY <2>1, <2>2
<1>3. CASE AwaitCleanup \/ AwaitExit
  <2> USE <1>3 DEF AwaitCleanup, AwaitExit
  <2>1. TypeInv' /\ SettledInv' /\ EndedInv' /\ ReadInv'
    BY DEF TypeInv, SettledInv, EndedInv, ReadInv, Kinds
  <2>2. StopInv' /\ CleanupInv' /\ TrackInv'
    BY DEF StopInv, CleanupInv, TrackInv, GroupAlive, Over
  <2>3. QED
    BY <2>1, <2>2
<1>4. CASE Throw \/ GiveUp
  <2>1. terminationKind \in Kinds /\ exec' = terminationKind
    BY <1>4 DEF Throw, GiveUp, Leave, StopInv, TypeInv
  <2> USE <1>4, <2>1 DEF Throw, GiveUp, Leave, Detach, Destroy
  <2>2. TypeInv' /\ EndedInv'
    <3>1. pipe' = <<>> \/ pipe' = pipe
      OBVIOUS
    <3>2. pipe' \in Seq(Process) /\ ToSet(pipe') \subseteq ToSet(pipe)
      BY <3>1, PipeKept DEF TypeInv
    <3>3. QED
      BY <3>2 DEF TypeInv, EndedInv, Kinds
  <2>3. SettledInv' /\ ReadInv'
    BY DEF SettledInv, ReadInv, Kinds
  <2>4. StopInv' /\ CleanupInv' /\ TrackInv'
    BY DEF StopInv, CleanupInv, TrackInv, GroupAlive, Over, Kinds
  <2>5. QED
    BY <2>2, <2>3, <2>4
<1>5. ASSUME NEW kind \in Kinds, terminate(kind) PROVE CommandInv'
  <2> USE <1>5 DEF terminate
  <2>1. TypeInv' /\ SettledInv' /\ EndedInv' /\ ReadInv'
    BY DEF TypeInv, SettledInv, EndedInv, ReadInv
  <2>2. StopInv' /\ CleanupInv' /\ TrackInv'
    BY DEF StopInv, CleanupInv, TrackInv, GroupAlive, Over, Kinds
  <2>3. QED
    BY <2>1, <2>2
<1>6. CASE Shutdown
  <2> USE <1>6 DEF Shutdown, Tracked
  <2>1. TypeInv' /\ SettledInv' /\ EndedInv' /\ ReadInv'
    BY PipeElements DEF TypeInv, SettledInv, EndedInv, ReadInv, Kinds
  <2>2. StopInv' /\ CleanupInv' /\ TrackInv'
    BY DEF StopInv, CleanupInv, TrackInv, GroupAlive, Over
  <2>3. QED
    BY <2>1, <2>2
<1>7. QED
  BY <1>1, <1>2, <1>3, <1>4, <1>5, <1>6

\* Every step of the command, its processes, its timers and its caller keeps the invariant.
LEMMA CommandNext == ASSUME CommandInv, [Next]_vars PROVE CommandInv'
<1>1. CASE Next
  BY <1>1, ProcessesKeep, WaiterKeeps, ExecKeeps DEF Next, Loop, Kinds
<1>2. CASE UNCHANGED vars
  BY <1>2 DEF vars, processes, waiter, history, CommandInv, TypeInv, SettledInv, EndedInv, ReadInv,
     StopInv, CleanupInv, TrackInv, GroupAlive, Over
<1>3. QED
  BY <1>1, <1>2

(* The invariant holds of every command, whatever its processes do. *)
THEOREM CommandInvariant == Spec => []CommandInv
<1>1. Init => CommandInv
  BY CommandInit
<1>2. CommandInv /\ [Next]_vars => CommandInv'
  BY CommandNext
<1>3. QED
  BY <1>1, <1>2, PTL DEF Spec

-----------------------------------------------------------------------------
(* What it is for *)

(* A command ends with its whole output or with the truth about why not, and without
   processes left behind: exec of bash.ts with waitForChildProcess and the cleanup of the
   process tree. *)
THEOREM CommandEndsWhole == Spec => []CommandIsWhole
<1>1. CommandInv => CommandIsWhole
  <2> SUFFICES ASSUME CommandInv PROVE CommandIsWhole
    OBVIOUS
  <2>1. CleanupIsTrue
    BY DEF CommandInv, CleanupInv, CleanupIsTrue
  <2>2. OutputIsWhole /\ StoppedIsReported
    BY DEF CommandInv, ReadInv, StopInv, OutputIsWhole, StoppedIsReported
  <2>3. ShutdownKillsTree
    BY DEF CommandInv, TrackInv, ShutdownKillsTree
  <2>4. QED
    BY <2>1, <2>2, <2>3 DEF CommandIsWhole
<1>2. QED
  BY <1>1, CommandInvariant, PTL

(* Nothing is delivered to onData once exec is over, when the tool has finished its
   accumulator. *)
THEOREM OutputEndsWithExec == Spec => NoOutputAfterEnd
<1>1. CommandInv /\ [Next]_vars => [onData' # onData => ~Over]_vars
  <2> SUFFICES ASSUME CommandInv, Next, onData' # onData PROVE ~Over
    BY DEF vars, history
  <2>1. exec # "shutdown" /\ Data
    BY DEF Next, Processes, Fork, Write, Exit, Loop, End, onExit, Idle, finalize, Destroy, CleanupSees,
       GraceOver, ForceOver, Return, AwaitCleanup, AwaitExit, Throw, GiveUp, Detach, terminate,
       Shutdown, history
  <2>2. QED
    BY <2>1 DEF Data, CommandInv, SettledInv, Over, Kinds
<1>2. QED
  BY <1>1, CommandInvariant, PTL DEF Spec, NoOutputAfterEnd

-----------------------------------------------------------------------------
(* The terminal interface: what the argument relates *)

\* What can stand in a row.
Texts == {Tui!Blank, Tui!Shell, Tui!Unknown} \cup UNION {Range(c) : c \in Contents}

\* A terminal: its tape ends with its screen, and the cursor is on the screen.
TermOK(t) ==
  /\ t \in [tape : Seq(Texts), top : Nat \ {0}, at : Nat \ {0}, size : Sizes]
  /\ Len(t.tape) = Tui!Bottom(t) /\ t.at \in t.top .. Tui!Bottom(t)

\* The terminal shows the lines from row o on, below what was there before them, with the
\* cursor at its place; line top is not above the screen, and the last one is on it.
Shows(t, lines, o, cursor, top) ==
  /\ o \in Nat \ {0}
  /\ \A r \in 1 .. Tui!Bottom(t) :
       t.tape[r] = IF r < o THEN Tui!Shell ELSE Tui!LineAt(lines, r - o)
  /\ t.at = o + cursor
  /\ t.top <= o + top
  /\ lines # <<>> => o + Len(lines) - 1 \in t.top .. Tui!Bottom(t)
  /\ lines = <<>> => cursor = 0

\* What the TUI remembers; of no size it has drawn nothing.
Unsized == {<<0, 0>>, <<-1, -1>>}

TuiOK(u) ==
  /\ u \in [lines : Contents \cup {<<>>}, size : Sizes \cup Unsized, cursor : Int, top : Int, most : Int]
  /\ u.size \in Unsized => u.lines = <<>> /\ u.cursor = 0 /\ u.top = 0

\* The TUI works with the terminal's size, or is to draw for the first time.
InTouch == ~uiStopped /\ tui.size \in {term.size, <<0, 0>>}

ScreenTypes ==
  /\ TermOK(term) /\ TuiOK(tui) /\ known \in Sizes /\ origin \in Nat \ {0}
  /\ uiStopped => ~renderTimer
  /\ ~uiStopped /\ tui.size = <<0, 0>> => known = term.size

ScreenInv ==
  ScreenTypes /\ (InTouch => Shows(term, tui.lines, origin, tui.cursor, tui.top))

-----------------------------------------------------------------------------
(* What the operators on terminals do *)

\* The library's maximum and minimum of two numbers.
LEMMA MaxTwo == \A a, b \in Int : Tui!Max({a, b}) = IF a >= b THEN a ELSE b
  BY DEF Tui!Max

LEMMA MinTwo == \A a, b \in Int : Tui!Min({a, b}) = IF a <= b THEN a ELSE b
  BY DEF Tui!Min

\* A size is a pair of positive numbers, and none that stands for no size.
LEMMA SizeOK ==
  ASSUME NEW s \in Sizes
  PROVE  s[1] \in Nat \ {0} /\ s[2] \in Nat \ {0} /\ s \notin Unsized /\ s = <<s[1], s[2]>>
<1>1. s = <<s[1], s[2]>> /\ s[1] \in Nat \ {0} /\ s[2] \in Nat \ {0}
  BY TerminalAssumption
<1>2. s # <<0, 0>> /\ s # <<-1, -1>>
  BY <1>1
<1> QED  BY <1>1, <1>2 DEF Unsized

\* The numbers of a terminal.
LEMMA TermNumbers ==
  ASSUME NEW t, TermOK(t)
  PROVE  /\ t.top \in Nat \ {0} /\ t.at \in Nat \ {0} /\ t.size[2] \in Nat \ {0} /\ t.size \in Sizes
         /\ Tui!Bottom(t) \in Nat \ {0} /\ Tui!Bottom(t) = t.top + t.size[2] - 1
         /\ t.top <= t.at /\ t.at <= Tui!Bottom(t)
         /\ t.tape \in Seq(Texts) /\ Len(t.tape) = Tui!Bottom(t) /\ DOMAIN t.tape = 1 .. Tui!Bottom(t)
<1>1. /\ t.top \in Nat \ {0} /\ t.at \in Nat \ {0} /\ t.size \in Sizes /\ t.tape \in Seq(Texts)
      /\ Len(t.tape) = Tui!Bottom(t) /\ t.at \in t.top .. Tui!Bottom(t)
  BY DEF TermOK
<1>2. t.size[2] \in Nat \ {0}
  BY <1>1, SizeOK
<1>3. Tui!Bottom(t) = t.top + t.size[2] - 1 /\ Tui!Bottom(t) \in Nat \ {0}
  BY <1>1, <1>2 DEF Tui!Bottom
<1> QED  BY <1>1, <1>2, <1>3

\* The cursor moves as far as it is told to when its goal is on the screen.
LEMMA MoveOK ==
  ASSUME NEW t, TermOK(t), NEW n \in Int
  PROVE  /\ TermOK(Tui!Move(t, n))
         /\ Tui!Move(t, n).tape = t.tape /\ Tui!Move(t, n).top = t.top /\ Tui!Move(t, n).size = t.size
         /\ Tui!Bottom(Tui!Move(t, n)) = Tui!Bottom(t)
         /\ t.at + n \in t.top .. Tui!Bottom(t) => Tui!Move(t, n).at = t.at + n
<1>1. /\ t.top \in Nat \ {0} /\ t.at \in Nat \ {0} /\ Tui!Bottom(t) \in Nat \ {0} /\ t.size \in Sizes
      /\ t.top <= t.at /\ t.at <= Tui!Bottom(t)
  BY TermNumbers
<1> DEFINE a == IF n < 0 THEN Tui!Max({t.top, t.at + n}) ELSE Tui!Min({Tui!Bottom(t), t.at + n})
<1>2. /\ a \in t.top .. Tui!Bottom(t) /\ a \in Nat \ {0}
      /\ t.at + n \in t.top .. Tui!Bottom(t) => a = t.at + n
  <2>1. CASE n < 0
    <3>1. Tui!Max({t.top, t.at + n}) = IF t.top >= t.at + n THEN t.top ELSE t.at + n
      BY <1>1, MaxTwo
    <3> QED  BY <1>1, <2>1, <3>1
  <2>2. CASE ~(n < 0)
    <3>1. Tui!Min({Tui!Bottom(t), t.at + n}) = IF Tui!Bottom(t) <= t.at + n THEN Tui!Bottom(t) ELSE t.at + n
      BY <1>1, MinTwo
    <3> QED  BY <1>1, <2>2, <3>1
  <2> QED  BY <2>1, <2>2
<1>3. Tui!Move(t, n) = [t EXCEPT !.at = a]
  BY DEF Tui!Move
<1> HIDE DEF a
<1>4. /\ Tui!Move(t, n).tape = t.tape /\ Tui!Move(t, n).top = t.top /\ Tui!Move(t, n).size = t.size
      /\ Tui!Move(t, n).at = a
      /\ Tui!Move(t, n) \in [tape : Seq(Texts), top : Nat \ {0}, at : Nat \ {0}, size : Sizes]
  BY <1>2, <1>3 DEF TermOK
<1>5. Tui!Bottom(Tui!Move(t, n)) = Tui!Bottom(t)
  BY <1>4 DEF Tui!Bottom
<1>6. TermOK(Tui!Move(t, n))
  BY <1>2, <1>4, <1>5 DEF TermOK
<1> QED  BY <1>2, <1>4, <1>5, <1>6

\* The rows that the terminal scrolls by.
Scrolled(t, n) == IF t.at + n > Tui!Bottom(t) THEN t.at + n - Tui!Bottom(t) ELSE 0

\* Line feeds move the cursor down, and scroll when it is in the last row.
LEMMA FeedOK ==
  ASSUME NEW t, TermOK(t), NEW n \in Nat
  PROVE  /\ TermOK(Tui!Feed(t, n))
         /\ Tui!Feed(t, n).size = t.size /\ Tui!Feed(t, n).at = t.at + n
         /\ Tui!Feed(t, n).top = t.top + Scrolled(t, n)
         /\ Tui!Bottom(Tui!Feed(t, n)) = Tui!Bottom(t) + Scrolled(t, n)
         /\ \A r \in 1 .. Tui!Bottom(t) + Scrolled(t, n) :
              Tui!Feed(t, n).tape[r] = IF r <= Tui!Bottom(t) THEN t.tape[r] ELSE Tui!Blank
<1>1. /\ t.top \in Nat \ {0} /\ t.at \in Nat \ {0} /\ Tui!Bottom(t) \in Nat \ {0} /\ t.size \in Sizes
      /\ t.size[2] \in Nat \ {0} /\ Tui!Bottom(t) = t.top + t.size[2] - 1
      /\ t.top <= t.at /\ t.at <= Tui!Bottom(t)
      /\ t.tape \in Seq(Texts) /\ Len(t.tape) = Tui!Bottom(t)
  BY TermNumbers
<1> DEFINE k == Tui!Max({0, t.at + n - Tui!Bottom(t)})
           blanks == [i \in 1 .. k |-> Tui!Blank]
<1>2. k = Scrolled(t, n) /\ k \in Nat
  <2>1. 0 \in Int /\ t.at + n - Tui!Bottom(t) \in Int
    BY <1>1
  <2>2. k = IF 0 >= t.at + n - Tui!Bottom(t) THEN 0 ELSE t.at + n - Tui!Bottom(t)
    BY <2>1, MaxTwo
  <2> HIDE DEF k
  <2>3. QED
    BY <1>1, <2>2 DEF Scrolled
<1>3. Tui!Feed(t, n) = [t EXCEPT !.tape = t.tape \o blanks, !.top = t.top + k, !.at = t.at + n]
  BY DEF Tui!Feed
<1> HIDE DEF k
<1>4. blanks \in Seq(Texts) /\ Len(blanks) = k /\ \A i \in 1 .. k : blanks[i] = Tui!Blank
  <2>1. Tui!Blank \in Texts
    BY DEF Texts
  <2>2. blanks \in [1 .. k -> Texts]
    BY <2>1
  <2>3. blanks \in Seq(Texts)
    BY <1>2, <2>2
  <2>4. Len(blanks) = k
    BY <1>2
  <2> QED  BY <2>3, <2>4
<1> HIDE DEF blanks
<1>5. /\ t.tape \o blanks \in Seq(Texts) /\ Len(t.tape \o blanks) = Tui!Bottom(t) + k
      /\ \A r \in 1 .. Tui!Bottom(t) + k :
           (t.tape \o blanks)[r] = IF r <= Tui!Bottom(t) THEN t.tape[r] ELSE Tui!Blank
  <2>1. /\ t.tape \o blanks \in Seq(Texts)
        /\ Len(t.tape \o blanks) = Len(t.tape) + Len(blanks)
        /\ \A i \in 1 .. Len(t.tape) + Len(blanks) :
             (t.tape \o blanks)[i] = IF i <= Len(t.tape) THEN t.tape[i] ELSE blanks[i - Len(t.tape)]
    BY <1>1, <1>4, ConcatProperties
  <2>2. ASSUME NEW r \in 1 .. Tui!Bottom(t) + k
        PROVE  (t.tape \o blanks)[r] = IF r <= Tui!Bottom(t) THEN t.tape[r] ELSE Tui!Blank
    <3>1. ~(r <= Tui!Bottom(t)) => r - Tui!Bottom(t) \in 1 .. k
      BY <1>1, <1>2
    <3> QED  BY <1>1, <1>4, <2>1, <3>1
  <2> QED  BY <1>1, <1>4, <2>1, <2>2
<1> DEFINE tape == t.tape \o blanks
<1>6. tape \in Seq(Texts) /\ Len(tape) = Tui!Bottom(t) + k
  BY <1>5
<1>7. Tui!Feed(t, n) = [t EXCEPT !.tape = tape, !.top = t.top + k, !.at = t.at + n]
  BY <1>3
<1> HIDE DEF tape
<1>8. /\ Tui!Feed(t, n).tape = tape /\ Tui!Feed(t, n).top = t.top + k
      /\ Tui!Feed(t, n).at = t.at + n /\ Tui!Feed(t, n).size = t.size
      /\ Tui!Feed(t, n) \in [tape : Seq(Texts), top : Nat \ {0}, at : Nat \ {0}, size : Sizes]
  <2>1. t.top + k \in Nat \ {0} /\ t.at + n \in Nat \ {0}
    BY <1>1, <1>2
  <2>2. t \in [tape : Seq(Texts), top : Nat \ {0}, at : Nat \ {0}, size : Sizes]
    BY DEF TermOK
  <2> DEFINE top == t.top + k
             at == t.at + n
  <2> HIDE DEF top, at
  <2>3. top \in Nat \ {0} /\ at \in Nat \ {0} /\ Tui!Feed(t, n) = [t EXCEPT !.tape = tape, !.top = top, !.at = at]
    BY <1>7, <2>1 DEF top, at
  <2>4. /\ Tui!Feed(t, n).tape = tape /\ Tui!Feed(t, n).top = top
        /\ Tui!Feed(t, n).at = at /\ Tui!Feed(t, n).size = t.size
        /\ Tui!Feed(t, n) \in [tape : Seq(Texts), top : Nat \ {0}, at : Nat \ {0}, size : Sizes]
    BY <1>6, <2>2, <2>3
  <2> QED  BY <2>4 DEF top, at
<1>9. Tui!Bottom(Tui!Feed(t, n)) = Tui!Bottom(t) + k
  <2>1. Tui!Bottom(Tui!Feed(t, n)) = Tui!Feed(t, n).top + Tui!Feed(t, n).size[2] - 1
    BY DEF Tui!Bottom
  <2>2. Tui!Bottom(Tui!Feed(t, n)) = t.top + k + t.size[2] - 1
    BY <1>8, <2>1
  <2> QED  BY <1>1, <1>2, <2>2
<1>10. t.at + n \in (t.top + k) .. (Tui!Bottom(t) + k)
  <2>1. k = IF t.at + n > Tui!Bottom(t) THEN t.at + n - Tui!Bottom(t) ELSE 0
    BY <1>2 DEF Scrolled
  <2>2. t.at + n \in Int /\ t.top + k \in Int /\ Tui!Bottom(t) + k \in Int
    BY <1>1, <1>2
  <2>3. t.top + k <= t.at + n /\ t.at + n <= Tui!Bottom(t) + k
    <3>1. CASE t.at + n > Tui!Bottom(t)
      <4>1. k = t.at + n - Tui!Bottom(t)
        BY <2>1, <3>1
      <4>2. Tui!Bottom(t) + k = t.at + n
        BY <1>1, <4>1
      <4>3. t.top <= Tui!Bottom(t)
        BY <1>1
      <4> QED  BY <1>1, <1>2, <4>2, <4>3
    <3>2. CASE ~(t.at + n > Tui!Bottom(t))
      <4>1. k = 0
        BY <2>1, <3>2
      <4> QED  BY <1>1, <3>2, <4>1
    <3> QED  BY <3>1, <3>2
  <2> QED  BY <2>2, <2>3
<1>11. TermOK(Tui!Feed(t, n))
  BY <1>6, <1>8, <1>9, <1>10 DEF TermOK
<1> QED  BY <1>2, <1>5, <1>8, <1>9, <1>11 DEF tape

\* A terminal that scrolls has its cursor in the last row.
LEMMA ScrolledOK ==
  ASSUME NEW t, TermOK(t), NEW n \in Nat
  PROVE  /\ Scrolled(t, n) \in Nat
         /\ t.at + n <= Tui!Bottom(t) + Scrolled(t, n)
         /\ Scrolled(t, n) = 0 \/ (Scrolled(t, n) > 0 /\ t.at + n = Tui!Bottom(t) + Scrolled(t, n))
<1>1. t.at \in Nat /\ Tui!Bottom(t) \in Nat
  BY TermNumbers
<1> QED  BY <1>1 DEF Scrolled

\* Text is written into rows that exist, and the other rows keep theirs.
LEMMA FillOK ==
  ASSUME NEW t, TermOK(t), NEW text, \A r \in DOMAIN text : text[r] \in Texts
  PROVE  /\ TermOK(Tui!Fill(t, text))
         /\ Tui!Fill(t, text).size = t.size /\ Tui!Fill(t, text).at = t.at
         /\ Tui!Fill(t, text).top = t.top /\ Tui!Bottom(Tui!Fill(t, text)) = Tui!Bottom(t)
         /\ \A r \in 1 .. Tui!Bottom(t) :
              Tui!Fill(t, text).tape[r] = IF r \in DOMAIN text THEN text[r] ELSE t.tape[r]
<1>1. /\ t.top \in Nat \ {0} /\ t.at \in Nat \ {0} /\ Tui!Bottom(t) \in Nat \ {0}
      /\ t.tape \in Seq(Texts) /\ Len(t.tape) = Tui!Bottom(t) /\ DOMAIN t.tape = 1 .. Tui!Bottom(t)
  BY TermNumbers
<1> DEFINE tape == [r \in DOMAIN t.tape |-> IF r \in DOMAIN text THEN text[r] ELSE t.tape[r]]
<1>2. /\ DOMAIN tape = 1 .. Tui!Bottom(t)
      /\ \A r \in 1 .. Tui!Bottom(t) : tape[r] = IF r \in DOMAIN text THEN text[r] ELSE t.tape[r]
  BY <1>1
<1>3. tape \in Seq(Texts) /\ Len(tape) = Tui!Bottom(t)
  <2>1. \A r \in 1 .. Tui!Bottom(t) : t.tape[r] \in Texts
    BY <1>1, ElementOfSeq
  <2>2. tape \in [1 .. Tui!Bottom(t) -> Texts]
    BY <1>1, <2>1
  <2>3. tape \in Seq(Texts)
    BY <1>1, <2>2, SeqDef
  <2> QED  BY <1>1, <1>2, <2>3, LenProperties
<1>4. Tui!Fill(t, text) = [t EXCEPT !.tape = tape]
  BY DEF Tui!Fill
<1> HIDE DEF tape
<1>5. /\ Tui!Fill(t, text).tape = tape /\ Tui!Fill(t, text).top = t.top
      /\ Tui!Fill(t, text).at = t.at /\ Tui!Fill(t, text).size = t.size
      /\ Tui!Fill(t, text) \in [tape : Seq(Texts), top : Nat \ {0}, at : Nat \ {0}, size : Sizes]
  BY <1>3, <1>4 DEF TermOK
<1>6. Tui!Bottom(Tui!Fill(t, text)) = Tui!Bottom(t)
  BY <1>5 DEF Tui!Bottom
<1>7. TermOK(Tui!Fill(t, text))
  BY <1>3, <1>5, <1>6 DEF TermOK
<1> QED  BY <1>2, <1>5, <1>6, <1>7

\* Lines that are written fill the rows from the cursor's on.
LEMMA WrittenOK ==
  ASSUME NEW t, TermOK(t), NEW lines \in Seq(Texts), lines # <<>>
  PROVE  /\ TermOK(Tui!Written(t, lines))
         /\ Tui!Written(t, lines).size = t.size /\ Tui!Written(t, lines).at = t.at + (Len(lines) - 1)
         /\ Tui!Written(t, lines).top = t.top + Scrolled(t, Len(lines) - 1)
         /\ Tui!Bottom(Tui!Written(t, lines)) = Tui!Bottom(t) + Scrolled(t, Len(lines) - 1)
         /\ \A r \in 1 .. Tui!Bottom(t) + Scrolled(t, Len(lines) - 1) :
              Tui!Written(t, lines).tape[r] =
                IF r \in t.at .. t.at + Len(lines) - 1 THEN lines[r - t.at + 1] ELSE t.tape[r]
<1> DEFINE n == Len(lines) - 1
           f == Tui!Feed(t, n)
           text == [r \in t.at .. t.at + n |-> lines[r - t.at + 1]]
<1>1. /\ t.top \in Nat \ {0} /\ t.at \in Nat \ {0} /\ Tui!Bottom(t) \in Nat \ {0}
      /\ t.top <= t.at /\ t.at <= Tui!Bottom(t)
  BY TermNumbers
<1>2. Len(lines) \in Nat \ {0} /\ n \in Nat /\ \A i \in 1 .. Len(lines) : lines[i] \in Texts
  <2>1. Len(lines) \in Nat /\ Len(lines) # 0
    BY EmptySeq
  <2> QED  BY <2>1, ElementOfSeq
<1>3. Tui!Written(t, lines) = Tui!Fill(f, text)
  <2>1. t.at + Len(lines) - 1 = t.at + n
    BY <1>1, <1>2
  <2> QED  BY <2>1 DEF Tui!Written
<1>4. \A r \in DOMAIN text : text[r] \in Texts /\ r \in t.at .. t.at + n
  <2>1. ASSUME NEW r \in t.at .. t.at + n PROVE r - t.at + 1 \in 1 .. Len(lines)
    BY <1>1, <1>2
  <2> QED  BY <1>2, <2>1
<1>5. DOMAIN text = t.at .. t.at + n /\ \A r \in t.at .. t.at + n : text[r] = lines[r - t.at + 1]
  OBVIOUS
<1> HIDE DEF text, n
<1>6. /\ TermOK(f) /\ f.size = t.size /\ f.at = t.at + n /\ f.top = t.top + Scrolled(t, n)
      /\ Tui!Bottom(f) = Tui!Bottom(t) + Scrolled(t, n)
      /\ \A r \in 1 .. Tui!Bottom(t) + Scrolled(t, n) :
           f.tape[r] = IF r <= Tui!Bottom(t) THEN t.tape[r] ELSE Tui!Blank
  BY <1>2, FeedOK
<1> HIDE DEF f
<1>7. /\ TermOK(Tui!Fill(f, text)) /\ Tui!Fill(f, text).size = f.size /\ Tui!Fill(f, text).at = f.at
      /\ Tui!Fill(f, text).top = f.top /\ Tui!Bottom(Tui!Fill(f, text)) = Tui!Bottom(f)
      /\ \A r \in 1 .. Tui!Bottom(f) :
           Tui!Fill(f, text).tape[r] = IF r \in DOMAIN text THEN text[r] ELSE f.tape[r]
  BY <1>4, <1>6, FillOK
<1>8. ASSUME NEW r \in 1 .. Tui!Bottom(t) + Scrolled(t, n)
      PROVE  Tui!Fill(f, text).tape[r] = IF r \in t.at .. t.at + n THEN lines[r - t.at + 1] ELSE t.tape[r]
  <2>1. CASE r \in t.at .. t.at + n
    BY <1>5, <1>6, <1>7, <2>1
  <2>2. CASE r \notin t.at .. t.at + n
    <3>1. r <= Tui!Bottom(t)
      BY <1>1, <1>2, <2>2 DEF Scrolled
    <3> QED  BY <1>5, <1>6, <1>7, <2>2, <3>1
  <2> QED  BY <2>1, <2>2
<1>9. t.at + Len(lines) - 1 = t.at + n
  BY <1>1, <1>2 DEF n
<1> QED  BY <1>3, <1>6, <1>7, <1>8, <1>9 DEF n

\* The rows below the cursor are cleared without scrolling when they are on the screen.
LEMMA BelowOK ==
  ASSUME NEW t, TermOK(t), NEW n \in Int, t.at + n <= Tui!Bottom(t)
  PROVE  /\ TermOK(Tui!ClearedBelow(t, n))
         /\ Tui!ClearedBelow(t, n).size = t.size /\ Tui!ClearedBelow(t, n).at = t.at
         /\ Tui!ClearedBelow(t, n).top = t.top /\ Tui!Bottom(Tui!ClearedBelow(t, n)) = Tui!Bottom(t)
         /\ \A r \in 1 .. Tui!Bottom(t) :
              Tui!ClearedBelow(t, n).tape[r] = IF r \in t.at + 1 .. t.at + n THEN Tui!Blank ELSE t.tape[r]
<1>1. /\ t.top \in Nat \ {0} /\ t.at \in Nat \ {0} /\ Tui!Bottom(t) \in Nat \ {0}
      /\ t.top <= t.at /\ t.at <= Tui!Bottom(t)
  BY TermNumbers
<1>2. CASE n <= 0
  <2>1. Tui!ClearedBelow(t, n) = t
    BY <1>2 DEF Tui!ClearedBelow
  <2>2. \A r \in 1 .. Tui!Bottom(t) : r \notin t.at + 1 .. t.at + n
    BY <1>1, <1>2
  <2> QED  BY <2>1, <2>2
<1>3. CASE ~(n <= 0)
  <2> DEFINE f == Tui!Feed(t, n)
             text == [r \in t.at + 1 .. t.at + n |-> Tui!Blank]
             g == Tui!Fill(f, text)
  <2>1. Tui!ClearedBelow(t, n) = Tui!Move(g, - n)
    BY <1>3 DEF Tui!ClearedBelow
  <2>2. n \in Nat /\ Scrolled(t, n) = 0
    BY <1>1, <1>3 DEF Scrolled
  <2>3. DOMAIN text = t.at + 1 .. t.at + n /\ \A r \in t.at + 1 .. t.at + n : text[r] = Tui!Blank
    OBVIOUS
  <2>4. \A r \in DOMAIN text : text[r] \in Texts
    BY <2>3 DEF Texts
  <2> HIDE DEF text
  <2>a. /\ TermOK(f) /\ f.size = t.size /\ f.at = t.at + n /\ f.top = t.top + Scrolled(t, n)
        /\ Tui!Bottom(f) = Tui!Bottom(t) + Scrolled(t, n)
        /\ \A r \in 1 .. Tui!Bottom(t) + Scrolled(t, n) :
             f.tape[r] = IF r <= Tui!Bottom(t) THEN t.tape[r] ELSE Tui!Blank
    BY <2>2, FeedOK
  <2> HIDE DEF f
  <2>5. /\ TermOK(f) /\ f.size = t.size /\ f.at = t.at + n /\ f.top = t.top
        /\ Tui!Bottom(f) = Tui!Bottom(t)
        /\ \A r \in 1 .. Tui!Bottom(t) : f.tape[r] = t.tape[r]
    BY <1>1, <2>2, <2>a
  <2>b. /\ TermOK(g) /\ g.size = f.size /\ g.at = f.at /\ g.top = f.top
        /\ Tui!Bottom(g) = Tui!Bottom(f)
        /\ \A r \in 1 .. Tui!Bottom(f) : g.tape[r] = IF r \in DOMAIN text THEN text[r] ELSE f.tape[r]
    BY <2>4, <2>5, FillOK
  <2> HIDE DEF g
  <2>6. /\ TermOK(g) /\ g.size = t.size /\ g.at = t.at + n /\ g.top = t.top
        /\ Tui!Bottom(g) = Tui!Bottom(t)
        /\ \A r \in 1 .. Tui!Bottom(t) :
             g.tape[r] = IF r \in t.at + 1 .. t.at + n THEN Tui!Blank ELSE t.tape[r]
    BY <2>3, <2>5, <2>b
  <2> DEFINE m == - n
  <2>7. g.at + m = t.at /\ m \in Int /\ g.at + m \in g.top .. Tui!Bottom(g)
    BY <1>1, <2>6
  <2> HIDE DEF m
  <2>8. /\ TermOK(Tui!Move(g, m))
        /\ Tui!Move(g, m).tape = g.tape /\ Tui!Move(g, m).top = g.top /\ Tui!Move(g, m).size = g.size
        /\ Tui!Bottom(Tui!Move(g, m)) = Tui!Bottom(g) /\ Tui!Move(g, m).at = g.at + m
    BY <2>6, <2>7, MoveOK
  <2>9. Tui!ClearedBelow(t, n) = Tui!Move(g, m)
    BY <2>1 DEF m
  <2> QED  BY <2>6, <2>7, <2>8, <2>9
<1> QED  BY <1>2, <1>3

\* The screen and the scrollback are cleared.
LEMMA ClearedOK ==
  ASSUME NEW t, TermOK(t)
  PROVE  /\ TermOK(Tui!Cleared(t))
         /\ Tui!Cleared(t).size = t.size /\ Tui!Cleared(t).at = 1 /\ Tui!Cleared(t).top = 1
         /\ Tui!Bottom(Tui!Cleared(t)) = t.size[2]
         /\ \A r \in 1 .. t.size[2] : Tui!Cleared(t).tape[r] = Tui!Blank
<1>1. t.size[2] \in Nat \ {0} /\ t.size \in Sizes
  BY TermNumbers
<1> DEFINE tape == [r \in 1 .. t.size[2] |-> Tui!Blank]
<1>2. tape \in Seq(Texts) /\ Len(tape) = t.size[2] /\ \A r \in 1 .. t.size[2] : tape[r] = Tui!Blank
  <2>1. tape \in [1 .. t.size[2] -> Texts]
    BY DEF Texts
  <2> QED  BY <1>1, <2>1
<1>3. Tui!Cleared(t) = [t EXCEPT !.tape = tape, !.top = 1, !.at = 1]
  BY DEF Tui!Cleared
<1> HIDE DEF tape
<1>4. /\ Tui!Cleared(t).tape = tape /\ Tui!Cleared(t).top = 1
      /\ Tui!Cleared(t).at = 1 /\ Tui!Cleared(t).size = t.size
      /\ Tui!Cleared(t) \in [tape : Seq(Texts), top : Nat \ {0}, at : Nat \ {0}, size : Sizes]
  <2>1. t \in [tape : Seq(Texts), top : Nat \ {0}, at : Nat \ {0}, size : Sizes]
    BY DEF TermOK
  <2>2. tape \in Seq(Texts) /\ 1 \in Nat \ {0}
    BY <1>2
  <2> QED  BY <1>3, <2>1, <2>2
<1>5. Tui!Bottom(Tui!Cleared(t)) = t.size[2]
  BY <1>1, <1>4 DEF Tui!Bottom
<1>6. TermOK(Tui!Cleared(t))
  BY <1>1, <1>2, <1>4, <1>5 DEF TermOK
<1> QED  BY <1>2, <1>4, <1>5, <1>6

\* A terminal of a new size.
LEMMA GarbledOK ==
  ASSUME NEW t, NEW size \in Sizes
  PROVE  TermOK(Tui!Garbled(t, size)) /\ Tui!Garbled(t, size).size = size
<1>1. size[2] \in Nat \ {0}
  BY SizeOK
<1> DEFINE tape == [r \in 1 .. size[2] |-> Tui!Unknown]
<1>2. tape \in Seq(Texts) /\ Len(tape) = size[2]
  <2>1. tape \in [1 .. size[2] -> Texts]
    BY DEF Texts
  <2> QED  BY <1>1, <2>1
<1>3. Tui!Garbled(t, size) = [tape |-> tape, top |-> 1, at |-> 1, size |-> size]
  BY DEF Tui!Garbled
<1> HIDE DEF tape
<1>4. Tui!Bottom(Tui!Garbled(t, size)) = size[2]
  BY <1>1, <1>3 DEF Tui!Bottom
<1> QED  BY <1>1, <1>2, <1>3, <1>4 DEF TermOK

-----------------------------------------------------------------------------
(* Sets of numbers *)

\* A set of natural numbers has a least element.
LEMMA Least ==
  ASSUME NEW S \in SUBSET Nat, S # {}
  PROVE  \E i \in S : \A j \in S : i <= j
<1> DEFINE T == {0 .. i : i \in S}
<1>1. T \subseteq FiniteSubsetsOf(Nat)
  <2>1. \A i \in Nat : IsFiniteSet(0 .. i) /\ 0 .. i \subseteq Nat
    BY FS_Interval
  <2> QED  BY <2>1 DEF FiniteSubsetsOf
<1>2. PICK x \in T : \A y \in T : <<y, x>> \notin StrictSubsetOrdering(Nat)
  <2>1. T # {}
    OBVIOUS
  <2> QED  BY <1>1, <2>1, FS_StrictSubsetOrderingWellFounded, WFMin
<1>3. PICK i \in S : x = 0 .. i
  BY <1>2
<1>4. ASSUME NEW j \in S PROVE i <= j
  <2>1. SUFFICES ASSUME j < i PROVE FALSE
    OBVIOUS
  <2>2. /\ 0 .. j \subseteq Nat /\ 0 .. i \subseteq Nat /\ 0 .. j \subseteq 0 .. i
        /\ i \notin 0 .. j /\ i \in 0 .. i
    BY <2>1
  <2>3. <<0 .. j, 0 .. i>> \in StrictSubsetOrdering(Nat)
    BY <2>2 DEF StrictSubsetOrdering
  <2> QED  BY <1>2, <1>3, <2>3
<1> QED  BY <1>4

\* The least and the greatest of a set of numbers below n.
LEMMA Extremes ==
  ASSUME NEW n \in Nat, NEW S \in SUBSET (0 .. n - 1), S # {}
  PROVE  /\ Tui!Min(S) \in S /\ \A j \in S : Tui!Min(S) <= j
         /\ Tui!Max(S) \in S /\ \A j \in S : j <= Tui!Max(S)
<1>1. Tui!Min(S) \in S /\ \A j \in S : Tui!Min(S) <= j
  <2>1. S \in SUBSET Nat
    OBVIOUS
  <2>2. \E i \in S : \A j \in S : i <= j
    BY <2>1, Least
  <2> QED  BY <2>2 DEF Tui!Min
<1> DEFINE T == {n - i : i \in S}
<1>2. T \in SUBSET Nat /\ T # {}
  <2>1. \A i \in S : n - i \in Nat
    OBVIOUS
  <2> QED  BY <2>1
<1>3. PICK t \in T : \A u \in T : t <= u
  BY <1>2, Least
<1>4. PICK i \in S : t = n - i
  BY <1>3
<1>5. ASSUME NEW j \in S PROVE i >= j
  <2>1. n - i <= n - j
    BY <1>3, <1>4
  <2> QED  BY <2>1
<1>6. \E x \in S : \A y \in S : x >= y
  BY <1>5
<1>7. Tui!Max(S) \in S /\ \A y \in S : Tui!Max(S) >= y
  BY <1>6 DEF Tui!Max
<1> QED  BY <1>1, <1>7

-----------------------------------------------------------------------------
(* Lines, and the lines that have changed *)

\* Lines that a render can draw: none is empty.
LinesOK(lines) ==
  /\ lines \in Seq(Texts)
  /\ \A i \in 1 .. Len(lines) : lines[i] # Tui!Blank

\* What the components render can be drawn.
LEMMA ContentsOK ==
  ASSUME NEW lines \in Contents \cup {<<>>}
  PROVE  LinesOK(lines)
<1>1. CASE lines = <<>>
  BY <1>1 DEF LinesOK
<1>2. CASE lines \in Contents
  <2>1. lines \in Seq(Range(lines)) /\ Tui!Blank \notin Range(lines)
    BY <1>2, TerminalAssumption
  <2>2. Len(lines) \in Nat /\ \A i \in 1 .. Len(lines) : lines[i] \in Range(lines)
    BY <2>1, ElementOfSeq
  <2>3. Range(lines) \subseteq Texts
    BY <1>2 DEF Texts
  <2>4. lines \in [1 .. Len(lines) -> Texts]
    <3>1. lines \in [1 .. Len(lines) -> Range(lines)]
      BY <2>1, LenProperties
    <3> QED  BY <2>3, <3>1
  <2>5. lines \in Seq(Texts)
    BY <2>2, <2>4, SeqDef
  <2> QED  BY <2>1, <2>2, <2>5 DEF LinesOK
<1> QED  BY <1>1, <1>2

\* Beyond the last line there is nothing.
LEMMA LineAtOK ==
  ASSUME NEW lines, LinesOK(lines)
  PROVE  /\ Len(lines) \in Nat
         /\ lines # <<>> => Len(lines) > 0
         /\ \A i \in Nat : /\ i < Len(lines) => Tui!LineAt(lines, i) = lines[i + 1]
                           /\ i < Len(lines) => Tui!LineAt(lines, i) # Tui!Blank
                           /\ ~(i < Len(lines)) => Tui!LineAt(lines, i) = Tui!Blank
<1>1. Len(lines) \in Nat /\ (lines # <<>> => Len(lines) > 0)
  <2>1. Len(lines) \in Nat /\ (Len(lines) = 0 => lines = <<>>)
    BY EmptySeq DEF LinesOK
  <2> QED  BY <2>1
<1>2. ASSUME NEW i \in Nat
      PROVE  /\ i < Len(lines) => Tui!LineAt(lines, i) = lines[i + 1]
             /\ i < Len(lines) => Tui!LineAt(lines, i) # Tui!Blank
             /\ ~(i < Len(lines)) => Tui!LineAt(lines, i) = Tui!Blank
  <2>1. i < Len(lines) => i + 1 \in 1 .. Len(lines)
    BY <1>1
  <2> QED  BY <2>1 DEF LinesOK, Tui!LineAt
<1> QED  BY <1>1, <1>2

\* The set of the changed lines.
LEMMA ChangedOK ==
  ASSUME NEW new, LinesOK(new), LinesOK(tui.lines)
  PROVE  \E n \in Nat :
           /\ Tui!Changed(new) \in SUBSET (0 .. n - 1)
           /\ n = IF Len(new) >= Len(tui.lines) THEN Len(new) ELSE Len(tui.lines)
           /\ \A i \in Nat \ Tui!Changed(new) : Tui!LineAt(new, i) = Tui!LineAt(tui.lines, i)
           /\ \A i \in Len(new) .. Len(tui.lines) - 1 : i \in Tui!Changed(new)
           /\ \A i \in Len(tui.lines) .. Len(new) - 1 : i \in Tui!Changed(new)
<1> DEFINE n == Tui!Max({Len(new), Len(tui.lines)})
           C == Tui!Changed(new)
<1>1. /\ Len(new) \in Nat /\ Len(tui.lines) \in Nat
      /\ \A i \in Nat : /\ i < Len(new) => Tui!LineAt(new, i) # Tui!Blank
                        /\ ~(i < Len(new)) => Tui!LineAt(new, i) = Tui!Blank
                        /\ i < Len(tui.lines) => Tui!LineAt(tui.lines, i) # Tui!Blank
                        /\ ~(i < Len(tui.lines)) => Tui!LineAt(tui.lines, i) = Tui!Blank
  BY LineAtOK
<1>2. n = IF Len(new) >= Len(tui.lines) THEN Len(new) ELSE Len(tui.lines)
  <2>1. Len(new) \in Int /\ Len(tui.lines) \in Int
    BY <1>1
  <2> QED  BY <2>1, MaxTwo
<1>3. C = {i \in 0 .. n - 1 : Tui!LineAt(new, i) # Tui!LineAt(tui.lines, i)}
  BY DEF Tui!Changed
<1> HIDE DEF n, C
<1>4. n \in Nat
  BY <1>1, <1>2
<1>5. ASSUME NEW i \in Nat \ C PROVE Tui!LineAt(new, i) = Tui!LineAt(tui.lines, i)
  <2>1. CASE i \in 0 .. n - 1
    BY <1>3, <2>1
  <2>2. CASE i \notin 0 .. n - 1
    <3>1. ~(i < Len(new)) /\ ~(i < Len(tui.lines))
      BY <1>1, <1>2, <2>2
    <3> QED  BY <1>1, <3>1
  <2> QED  BY <2>1, <2>2
<1>6. ASSUME NEW i \in Len(new) .. Len(tui.lines) - 1 PROVE i \in C
  <2>1. i \in Nat /\ i \in 0 .. n - 1 /\ ~(i < Len(new)) /\ i < Len(tui.lines)
    BY <1>1, <1>2
  <2>2. Tui!LineAt(new, i) = Tui!Blank /\ Tui!LineAt(tui.lines, i) # Tui!Blank
    BY <1>1, <2>1
  <2> QED  BY <1>3, <2>1, <2>2
<1>7. ASSUME NEW i \in Len(tui.lines) .. Len(new) - 1 PROVE i \in C
  <2>1. i \in Nat /\ i \in 0 .. n - 1 /\ ~(i < Len(tui.lines)) /\ i < Len(new)
    BY <1>1, <1>2
  <2>2. Tui!LineAt(tui.lines, i) = Tui!Blank /\ Tui!LineAt(new, i) # Tui!Blank
    BY <1>1, <2>1
  <2> QED  BY <1>3, <2>1, <2>2
<1>8. C \in SUBSET (0 .. n - 1)
  BY <1>3
<1> QED  BY <1>2, <1>4, <1>5, <1>6, <1>7, <1>8 DEF C

-----------------------------------------------------------------------------
(* What the renders draw *)

\* fullRender: everything from the cursor's row on.
LEMMA FullOK ==
  ASSUME NEW t, TermOK(t), NEW new, LinesOK(new), NEW o, o = t.at,
         \A r \in 1 .. Tui!Bottom(t) : t.tape[r] = IF r < o THEN Tui!Shell ELSE Tui!Blank
  PROVE  /\ TermOK(Tui!Written(t, new)) /\ Tui!Written(t, new).size = t.size
         /\ Shows(Tui!Written(t, new), new, o, Tui!Max({0, Len(new) - 1}),
                  Tui!Max({t.size[2], Len(new)}) - t.size[2])
<1> DEFINE H == t.size[2]
           L == Len(new)
           w == Tui!Written(t, new)
           cursor == Tui!Max({0, L - 1})
           top == Tui!Max({H, L}) - H
<1>1. /\ t.top \in Nat \ {0} /\ o \in Nat \ {0} /\ H \in Nat \ {0}
      /\ Tui!Bottom(t) \in Nat \ {0} /\ Tui!Bottom(t) = t.top + H - 1
      /\ t.top <= o /\ o <= Tui!Bottom(t)
  BY TermNumbers
<1>2. /\ L \in Nat
      /\ new # <<>> => L > 0
      /\ \A i \in Nat : /\ i < L => Tui!LineAt(new, i) = new[i + 1]
                        /\ ~(i < L) => Tui!LineAt(new, i) = Tui!Blank
  BY LineAtOK
<1>3. /\ cursor = IF L = 0 THEN 0 ELSE L - 1
      /\ top = IF L > H THEN L - H ELSE 0
  <2>1. cursor = IF 0 >= L - 1 THEN 0 ELSE L - 1
    <3>1. 0 \in Int /\ L - 1 \in Int
      BY <1>2
    <3> QED  BY <3>1, MaxTwo
  <2> HIDE DEF H, L
  <2>2. H \in Int /\ L \in Int
    BY <1>1, <1>2
  <2>3. Tui!Max({H, L}) = IF H >= L THEN H ELSE L
    BY <2>2, MaxTwo
  <2>4. top = IF L > H THEN L - H ELSE 0
    BY <2>2, <2>3
  <2> HIDE DEF cursor, top
  <2>5. L \in Nat
    BY <1>2
  <2>6. cursor = IF L = 0 THEN 0 ELSE L - 1
    BY <2>1, <2>5
  <2> QED  BY <2>4, <2>6
<1>4. CASE new = <<>>
  <2>1. w = t /\ L = 0
    BY <1>4 DEF Tui!Written
  <2>2. \A r \in 1 .. Tui!Bottom(t) :
          t.tape[r] = IF r < o THEN Tui!Shell ELSE Tui!LineAt(new, r - o)
    <3>1. ASSUME NEW r \in 1 .. Tui!Bottom(t), ~(r < o)
          PROVE  r - o \in Nat /\ ~(r - o < L)
      BY <1>1, <2>1, <3>1
    <3> QED  BY <1>2, <3>1
  <2> HIDE DEF w, cursor, top, L, H
  <2>3. cursor = 0 /\ top = 0
    BY <1>1, <1>3, <2>1
  <2>4. t.at = o + cursor /\ t.top <= o + top
    BY <1>1, <2>3
  <2>5. Shows(t, new, o, cursor, top)
    BY <1>1, <1>4, <2>2, <2>3, <2>4 DEF Shows
  <2> QED  BY <2>1, <2>5 DEF w, cursor, top, L, H
<1>5. CASE new # <<>>
  <2> DEFINE k == Scrolled(t, L - 1)
  <2>1. new \in Seq(Texts)
    BY DEF LinesOK
  <2>2. /\ TermOK(w) /\ w.size = t.size /\ w.at = t.at + (L - 1) /\ w.top = t.top + k
        /\ Tui!Bottom(w) = Tui!Bottom(t) + k
        /\ \A r \in 1 .. Tui!Bottom(t) + k :
             w.tape[r] = IF r \in t.at .. t.at + L - 1 THEN new[r - t.at + 1] ELSE t.tape[r]
    BY <1>5, <2>1, WrittenOK
  <2>3. L \in Nat \ {0}
    BY <1>2, <1>5
  <2>4. k = IF o + (L - 1) > Tui!Bottom(t) THEN o + (L - 1) - Tui!Bottom(t) ELSE 0
    BY DEF Scrolled
  <2> HIDE DEF w, cursor, top, L, H, k
  <2>5. cursor = L - 1 /\ k \in Nat
    BY <1>1, <1>3, <2>3, <2>4
  <2>6. ASSUME NEW r \in 1 .. Tui!Bottom(w)
        PROVE  w.tape[r] = IF r < o THEN Tui!Shell ELSE Tui!LineAt(new, r - o)
    <3>1. w.tape[r] = IF r \in o .. o + L - 1 THEN new[r - o + 1] ELSE t.tape[r]
      BY <2>2
    <3>2. CASE r < o
      <4>1. r \notin o .. o + L - 1 /\ r \in 1 .. Tui!Bottom(t)
        BY <1>1, <3>2
      <4> QED  BY <3>1, <3>2, <4>1
    <3>3. CASE ~(r < o) /\ r <= o + L - 1
      <4>1. r \in o .. o + L - 1 /\ r - o \in Nat /\ r - o < L
        BY <1>1, <2>3, <3>3
      <4> QED  BY <1>2, <3>1, <3>3, <4>1
    <3>4. CASE ~(r < o) /\ ~(r <= o + L - 1)
      <4>1. r \notin o .. o + L - 1 /\ r - o \in Nat /\ ~(r - o < L) /\ r \in 1 .. Tui!Bottom(t)
        BY <1>1, <2>2, <2>3, <2>4, <3>4
      <4> QED  BY <1>2, <3>1, <3>4, <4>1
    <3> QED  BY <3>2, <3>3, <3>4
  <2>7. w.at = o + cursor
    BY <2>2, <2>5
  <2>8. w.top <= o + top
    BY <1>1, <1>3, <2>2, <2>3, <2>4
  <2>9. o + L - 1 \in w.top .. Tui!Bottom(w)
    BY <1>1, <2>2, <2>3, TermNumbers
  <2>10. Shows(w, new, o, cursor, top)
    BY <1>1, <1>5, <2>6, <2>7, <2>8, <2>9 DEF Shows, L
  <2> QED  BY <2>2, <2>10 DEF w, cursor, top, L, H
<1> QED  BY <1>4, <1>5

\* What the TUI remembers when it has placed the cursor.
LEMMA PositionTypes ==
  ASSUME NEW s, TuiOK(s.tui), s.tui.size \notin Unsized, NEW row \in Nat
  PROVE  /\ TuiOK(Tui!positionHardwareCursor(s, row).tui)
         /\ Tui!positionHardwareCursor(s, row).tui.size = s.tui.size
<1>1. CASE row = 0
  BY <1>1 DEF Tui!positionHardwareCursor
<1>2. CASE row # 0
  <2> DEFINE u == [s.tui EXCEPT !.cursor = row - 1]
  <2>1. Tui!positionHardwareCursor(s, row).tui = u
    BY <1>2 DEF Tui!positionHardwareCursor, Tui!Drawing
  <2>2. s.tui \in [lines : Contents \cup {<<>>}, size : Sizes \cup Unsized, cursor : Int, top : Int, most : Int]
    BY DEF TuiOK
  <2>3. /\ u \in [lines : Contents \cup {<<>>}, size : Sizes \cup Unsized, cursor : Int, top : Int, most : Int]
        /\ u.size = s.tui.size
    BY <2>2
  <2> HIDE DEF u
  <2> QED  BY <2>1, <2>3 DEF TuiOK
<1> QED  BY <1>1, <1>2

\* positionHardwareCursor: to a line that is not above the screen.
LEMMA PositionOK ==
  ASSUME NEW s, TermOK(s.term), TuiOK(s.tui), s.tui.size \notin Unsized, NEW row \in Nat
  PROVE  /\ TermOK(Tui!positionHardwareCursor(s, row).term)
         /\ TuiOK(Tui!positionHardwareCursor(s, row).tui)
         /\ Tui!positionHardwareCursor(s, row).term.size = s.term.size
         /\ Tui!positionHardwareCursor(s, row).tui.size = s.tui.size
         /\ \A o : Shows(s.term, s.tui.lines, o, s.tui.cursor, s.tui.top)
                  /\ LinesOK(s.tui.lines) /\ row <= Len(s.tui.lines) /\ (row # 0 => row - 1 >= s.tui.top)
                => Shows(Tui!positionHardwareCursor(s, row).term, Tui!positionHardwareCursor(s, row).tui.lines, o,
                         Tui!positionHardwareCursor(s, row).tui.cursor, Tui!positionHardwareCursor(s, row).tui.top)
<1>1. CASE row = 0
  BY <1>1 DEF Tui!positionHardwareCursor
<1>2. CASE row # 0
  <2> DEFINE n == row - 1 - s.tui.cursor
             p == Tui!positionHardwareCursor(s, row)
             u == [s.tui EXCEPT !.cursor = row - 1]
  <2>1. p = Tui!Drawing(Tui!Move(s.term, n), u)
    BY <1>2 DEF Tui!positionHardwareCursor
  <2>2. /\ s.tui \in [lines : Contents \cup {<<>>}, size : Sizes \cup Unsized, cursor : Int, top : Int, most : Int]
        /\ s.tui.cursor \in Int /\ s.tui.top \in Int
    BY DEF TuiOK
  <2>3. n \in Int /\ row - 1 \in Int
    BY <2>2
  <2> HIDE DEF n
  <2>4. /\ TermOK(Tui!Move(s.term, n))
        /\ Tui!Move(s.term, n).tape = s.term.tape /\ Tui!Move(s.term, n).top = s.term.top
        /\ Tui!Move(s.term, n).size = s.term.size
        /\ Tui!Bottom(Tui!Move(s.term, n)) = Tui!Bottom(s.term)
        /\ s.term.at + n \in s.term.top .. Tui!Bottom(s.term) => Tui!Move(s.term, n).at = s.term.at + n
    BY <2>3, MoveOK
  <2>5. /\ u \in [lines : Contents \cup {<<>>}, size : Sizes \cup Unsized, cursor : Int, top : Int, most : Int]
        /\ u.lines = s.tui.lines /\ u.size = s.tui.size /\ u.top = s.tui.top /\ u.cursor = row - 1
    BY <2>2, <2>3
  <2> HIDE DEF u, p
  <2>6. p.term = Tui!Move(s.term, n) /\ p.tui = u
    BY <2>1 DEF Tui!Drawing
  <2>7. TuiOK(u)
    BY <2>5 DEF TuiOK
  <2>8. ASSUME NEW o, Shows(s.term, s.tui.lines, o, s.tui.cursor, s.tui.top), LinesOK(s.tui.lines),
               row <= Len(s.tui.lines), row - 1 >= s.tui.top
        PROVE  Shows(p.term, p.tui.lines, o, p.tui.cursor, p.tui.top)
    <3> DEFINE L == Len(s.tui.lines)
    <3>1. /\ o \in Nat \ {0} /\ s.term.at = o + s.tui.cursor /\ s.term.top <= o + s.tui.top
          /\ s.tui.lines # <<>> => o + L - 1 \in s.term.top .. Tui!Bottom(s.term)
          /\ \A r \in 1 .. Tui!Bottom(s.term) :
               s.term.tape[r] = IF r < o THEN Tui!Shell ELSE Tui!LineAt(s.tui.lines, r - o)
      BY <2>8 DEF Shows
    <3>2. L \in Nat /\ L # 0 /\ s.tui.lines # <<>>
      <4>1. L \in Nat /\ L # 0
        BY <1>2, <2>8, LineAtOK
      <4> QED  BY <4>1
    <3>3. /\ s.term.top \in Nat \ {0} /\ s.term.at \in Nat \ {0} /\ Tui!Bottom(s.term) \in Nat \ {0}
      BY TermNumbers
    <3>4. row <= L
      BY <2>8
    <3> HIDE DEF L
    <3>5. o + L - 1 \in s.term.top .. Tui!Bottom(s.term)
      BY <3>1, <3>2
    <3>6. s.term.at + n = o + (row - 1)
      BY <2>2, <3>1, <3>3 DEF n
    <3>7. s.term.at + n \in s.term.top .. Tui!Bottom(s.term)
      BY <2>2, <2>8, <3>1, <3>2, <3>3, <3>4, <3>5, <3>6
    <3>8. p.term.at = o + p.tui.cursor
      BY <2>4, <2>5, <2>6, <3>6, <3>7
    <3> QED  BY <2>4, <2>5, <2>6, <3>1, <3>2, <3>5, <3>8 DEF Shows, L
  <2> QED  BY <1>2, <2>4, <2>5, <2>6, <2>7, <2>8 DEF p
<1> QED  BY <1>1, <1>2

\* DrawDeleted: of lines that were visible.
LEMMA DeletedOK ==
  ASSUME TermOK(term), TuiOK(tui), known = term.size, NEW new \in Contents,
         Shows(term, tui.lines, origin, tui.cursor, tui.top), tui.lines # <<>>,
         Tui!Changed(new) # {}, Tui!OnlyDeleted(new), Tui!Reached(new)
  PROVE  /\ TermOK(Tui!DrawDeleted(new).term) /\ Tui!DrawDeleted(new).term.size = term.size
         /\ Shows(Tui!DrawDeleted(new).term, Tui!DrawDeleted(new).tui.lines, origin,
                  Tui!DrawDeleted(new).tui.cursor, Tui!DrawDeleted(new).tui.top)
<1> DEFINE L == Len(new)
           K == Len(tui.lines)
           target == Tui!Max({0, L - 1})
           offset == IF new = <<>> THEN 0 ELSE 1
           placed == Tui!Move(term, target - tui.cursor)
           start == Tui!Move(placed, offset)
           end == Tui!Move(start, Tui!Extra(new) - 1)
           text == [r \in start.at .. end.at |-> Tui!Blank]
           cleared == Tui!Fill(end, text)
           back == - (Tui!Extra(new) - 1 + offset)
           final == Tui!Move(cleared, back)
           d == Tui!DrawDeleted(new)
<1>1. LinesOK(new) /\ LinesOK(tui.lines)
  BY ContentsOK DEF TuiOK
<1>2. /\ L \in Nat
      /\ K \in Nat
      /\ K > 0
      /\ new # <<>> => L > 0
      /\ new = <<>> => L = 0
      /\ \A i \in Nat : ~(i < L) => Tui!LineAt(new, i) = Tui!Blank
      /\ \A i \in Nat : ~(i < K) => Tui!LineAt(tui.lines, i) = Tui!Blank
  BY <1>1, LineAtOK
<1>3. PICK n \in Nat :
        /\ Tui!Changed(new) \in SUBSET (0 .. n - 1)
        /\ n = IF L >= K THEN L ELSE K
        /\ \A i \in Nat \ Tui!Changed(new) : Tui!LineAt(new, i) = Tui!LineAt(tui.lines, i)
  BY <1>1, ChangedOK
<1>4. d = Tui!Drawing(final, [tui EXCEPT !.lines = new, !.size = known, !.cursor = target])
  BY DEF Tui!DrawDeleted
<1>5. Tui!Extra(new) = K - L
  BY DEF Tui!Extra
<1>6. target >= tui.top
  BY DEF Tui!Reached
<1>7. \A i \in Tui!Changed(new) : i >= L
  BY DEF Tui!OnlyDeleted
<1>8. target = IF 0 >= L - 1 THEN 0 ELSE L - 1
  <2>1. 0 \in Int /\ L - 1 \in Int
    BY <1>2
  <2> QED  BY <2>1, MaxTwo
<1>9. /\ \A r \in 1 .. Tui!Bottom(term) :
           term.tape[r] = IF r < origin THEN Tui!Shell ELSE Tui!LineAt(tui.lines, r - origin)
      /\ origin \in Nat \ {0} /\ term.at = origin + tui.cursor /\ term.top <= origin + tui.top
      /\ origin + K - 1 \in term.top .. Tui!Bottom(term)
  BY DEF Shows
<1>10. /\ term.top \in Nat \ {0} /\ Tui!Bottom(term) \in Nat \ {0}
       /\ tui.cursor \in Int /\ tui.top \in Int
  BY TermNumbers DEF TuiOK
<1> HIDE DEF L, K, target, offset, placed, start, end, text, cleared, back, final, d
<1>11. K > L
  <2>1. PICK i \in Tui!Changed(new) : TRUE
    OBVIOUS
  <2>2. i \in Int /\ i >= L /\ i <= n - 1
    BY <1>3, <1>7
  <2> QED  BY <1>2, <1>3, <2>2
<1>12. target \in Nat /\ target <= K - 1 /\ target + offset = L /\ (new = <<>> => target = 0)
       /\ (new # <<>> => target = L - 1) /\ offset \in Nat
  <2>1. CASE new = <<>>
    <3>1. offset = 0
      BY <2>1 DEF offset
    <3> QED  BY <1>2, <1>8, <2>1, <3>1
  <2>2. CASE new # <<>>
    <3>1. offset = 1
      BY <2>2 DEF offset
    <3> QED  BY <1>2, <1>8, <1>11, <2>2, <3>1
  <2> QED  BY <2>1, <2>2
<1>13. /\ TermOK(placed) /\ placed.tape = term.tape /\ placed.top = term.top /\ placed.size = term.size
       /\ Tui!Bottom(placed) = Tui!Bottom(term) /\ placed.at = origin + target
  <2> DEFINE m == target - tui.cursor
  <2>1. m \in Int /\ term.at + m = origin + target /\ origin + target \in term.top .. Tui!Bottom(term)
    BY <1>2, <1>6, <1>9, <1>10, <1>12
  <2>2. placed = Tui!Move(term, m)
    BY DEF placed
  <2> HIDE DEF m
  <2>3. /\ TermOK(Tui!Move(term, m)) /\ Tui!Move(term, m).tape = term.tape /\ Tui!Move(term, m).top = term.top
        /\ Tui!Move(term, m).size = term.size /\ Tui!Bottom(Tui!Move(term, m)) = Tui!Bottom(term)
        /\ term.at + m \in term.top .. Tui!Bottom(term) => Tui!Move(term, m).at = term.at + m
    BY <2>1, MoveOK
  <2> QED  BY <2>1, <2>2, <2>3
<1>14. /\ TermOK(start) /\ start.tape = term.tape /\ start.top = term.top /\ start.size = term.size
       /\ Tui!Bottom(start) = Tui!Bottom(term) /\ start.at = origin + L
  <2>1. offset \in Int /\ placed.at + offset = origin + L /\ origin + L \in placed.top .. Tui!Bottom(placed)
    BY <1>2, <1>6, <1>9, <1>10, <1>11, <1>12, <1>13
  <2>2. /\ TermOK(Tui!Move(placed, offset)) /\ Tui!Move(placed, offset).tape = placed.tape
        /\ Tui!Move(placed, offset).top = placed.top /\ Tui!Move(placed, offset).size = placed.size
        /\ Tui!Bottom(Tui!Move(placed, offset)) = Tui!Bottom(placed)
        /\ placed.at + offset \in placed.top .. Tui!Bottom(placed) => Tui!Move(placed, offset).at = placed.at + offset
    BY <1>13, <2>1, MoveOK
  <2> QED  BY <1>13, <2>1, <2>2 DEF start
<1>15. /\ TermOK(end) /\ end.tape = term.tape /\ end.top = term.top /\ end.size = term.size
       /\ Tui!Bottom(end) = Tui!Bottom(term) /\ end.at = origin + K - 1
  <2> DEFINE m == Tui!Extra(new) - 1
  <2>1. m \in Int /\ start.at + m = origin + K - 1 /\ start.at + m \in start.top .. Tui!Bottom(start)
    BY <1>2, <1>5, <1>9, <1>10, <1>14
  <2>2. end = Tui!Move(start, m)
    BY DEF end
  <2> HIDE DEF m
  <2>3. /\ TermOK(Tui!Move(start, m)) /\ Tui!Move(start, m).tape = start.tape
        /\ Tui!Move(start, m).top = start.top /\ Tui!Move(start, m).size = start.size
        /\ Tui!Bottom(Tui!Move(start, m)) = Tui!Bottom(start)
        /\ start.at + m \in start.top .. Tui!Bottom(start) => Tui!Move(start, m).at = start.at + m
    BY <1>14, <2>1, MoveOK
  <2> QED  BY <1>14, <2>1, <2>2, <2>3
<1>16. /\ TermOK(cleared) /\ cleared.size = term.size /\ cleared.at = origin + K - 1 /\ cleared.top = term.top
       /\ Tui!Bottom(cleared) = Tui!Bottom(term)
       /\ \A r \in 1 .. Tui!Bottom(term) :
            cleared.tape[r] = IF r \in origin + L .. origin + K - 1 THEN Tui!Blank ELSE term.tape[r]
  <2>1. DOMAIN text = origin + L .. origin + K - 1 /\ \A r \in origin + L .. origin + K - 1 : text[r] = Tui!Blank
    BY <1>14, <1>15 DEF text
  <2>2. \A r \in DOMAIN text : text[r] \in Texts
    BY <2>1 DEF Texts
  <2>3. /\ TermOK(Tui!Fill(end, text)) /\ Tui!Fill(end, text).size = end.size /\ Tui!Fill(end, text).at = end.at
        /\ Tui!Fill(end, text).top = end.top /\ Tui!Bottom(Tui!Fill(end, text)) = Tui!Bottom(end)
        /\ \A r \in 1 .. Tui!Bottom(end) :
             Tui!Fill(end, text).tape[r] = IF r \in DOMAIN text THEN text[r] ELSE end.tape[r]
    BY <1>15, <2>2, FillOK
  <2> QED  BY <1>15, <2>1, <2>3 DEF cleared
<1>17. /\ TermOK(final) /\ final.size = term.size /\ final.at = origin + target /\ final.top = term.top
       /\ Tui!Bottom(final) = Tui!Bottom(term) /\ final.tape = cleared.tape
  <2>1. back = - (K - L - 1 + offset)
    BY <1>5 DEF back
  <2>2. back \in Int /\ cleared.at + back = origin + target
    BY <1>2, <1>9, <1>12, <1>16, <2>1
  <2>3. origin + target \in cleared.top .. Tui!Bottom(cleared)
    BY <1>2, <1>6, <1>9, <1>10, <1>12, <1>16
  <2>4. /\ TermOK(Tui!Move(cleared, back)) /\ Tui!Move(cleared, back).tape = cleared.tape
        /\ Tui!Move(cleared, back).top = cleared.top /\ Tui!Move(cleared, back).size = cleared.size
        /\ Tui!Bottom(Tui!Move(cleared, back)) = Tui!Bottom(cleared)
        /\ cleared.at + back \in cleared.top .. Tui!Bottom(cleared) =>
             Tui!Move(cleared, back).at = cleared.at + back
    BY <1>16, <2>2, MoveOK
  <2> QED  BY <1>16, <2>2, <2>3, <2>4 DEF final
<1>18. ASSUME NEW r \in 1 .. Tui!Bottom(final)
       PROVE  final.tape[r] = IF r < origin THEN Tui!Shell ELSE Tui!LineAt(new, r - origin)
  <2>1. /\ final.tape[r] = IF r \in origin + L .. origin + K - 1 THEN Tui!Blank ELSE term.tape[r]
        /\ term.tape[r] = IF r < origin THEN Tui!Shell ELSE Tui!LineAt(tui.lines, r - origin)
        /\ r \in Nat
    BY <1>9, <1>10, <1>16, <1>17
  <2>2. CASE r < origin
    <3>1. r \notin origin + L .. origin + K - 1
      BY <1>2, <1>9, <2>1, <2>2
    <3> QED  BY <2>1, <2>2, <3>1
  <2>3. CASE ~(r < origin) /\ r - origin < L
    <3>1. r \notin origin + L .. origin + K - 1 /\ r - origin \in Nat /\ r - origin \notin Tui!Changed(new)
      BY <1>2, <1>3, <1>7, <1>9, <2>1, <2>3
    <3> QED  BY <1>3, <2>1, <2>3, <3>1
  <2>4. CASE ~(r < origin) /\ ~(r - origin < L) /\ r - origin < K
    <3>1. r \in origin + L .. origin + K - 1 /\ r - origin \in Nat
      BY <1>2, <1>9, <2>1, <2>4
    <3> QED  BY <1>2, <2>1, <2>4, <3>1
  <2>5. CASE ~(r < origin) /\ ~(r - origin < K)
    <3>1. r \notin origin + L .. origin + K - 1 /\ r - origin \in Nat /\ ~(r - origin < L)
      BY <1>2, <1>9, <1>11, <2>1, <2>5
    <3> QED  BY <1>2, <2>1, <2>5, <3>1
  <2> QED  BY <2>2, <2>3, <2>4, <2>5
<1>19. d.term = final /\ d.tui.lines = new /\ d.tui.cursor = target /\ d.tui.top = tui.top
  <2>1. tui \in [lines : Contents \cup {<<>>}, size : Sizes \cup Unsized, cursor : Int, top : Int, most : Int]
    BY DEF TuiOK
  <2> QED  BY <1>4, <2>1 DEF Tui!Drawing
<1>20. new # <<>> => origin + L - 1 \in final.top .. Tui!Bottom(final)
  <2>1. final.at \in final.top .. Tui!Bottom(final)
    BY <1>17 DEF TermOK
  <2> QED  BY <1>2, <1>9, <1>12, <1>17, <2>1
<1>21. Shows(final, new, origin, target, tui.top)
  BY <1>9, <1>12, <1>17, <1>18, <1>20 DEF Shows, L
<1> QED  BY <1>17, <1>19, <1>21 DEF d

\* The lines from one to another.
LEMMA SliceOK ==
  ASSUME NEW lines \in Seq(Texts), NEW i \in Nat, NEW j \in Nat, i <= j, j < Len(lines)
  PROVE  /\ SubSeq(lines, i + 1, j + 1) \in Seq(Texts) /\ SubSeq(lines, i + 1, j + 1) # <<>>
         /\ Len(SubSeq(lines, i + 1, j + 1)) = j - i + 1
         /\ \A m \in 1 .. j - i + 1 : SubSeq(lines, i + 1, j + 1)[m] = lines[i + m]
<1> DEFINE a == i + 1
           b == j + 1
           text == SubSeq(lines, a, b)
<1>1. a \in Int /\ b \in Int /\ a <= b /\ \A m \in a .. b : m \in 1 .. Len(lines)
  BY LenProperties
<1>2. b - a + 1 = j - i + 1 /\ \A m \in 1 .. j - i + 1 : a + m - 1 = i + m
  OBVIOUS
<1> HIDE DEF a, b
<1>3. \A m \in a .. b : lines[m] \in Texts
  BY <1>1, ElementOfSeq
<1>4. /\ text \in Seq(Texts) /\ Len(text) = IF a <= b THEN b - a + 1 ELSE 0
      /\ \A m \in 1 .. b - a + 1 : text[m] = lines[a + m - 1]
  BY <1>1, <1>3, SubSeqProperties
<1> HIDE DEF text
<1>5. Len(text) = j - i + 1 /\ \A m \in 1 .. j - i + 1 : text[m] = lines[i + m]
  BY <1>1, <1>2, <1>4
<1>6. text # <<>>
  BY <1>5
<1>7. text = SubSeq(lines, i + 1, j + 1)
  BY DEF text, a, b
<1> QED  BY <1>4, <1>5, <1>6, <1>7

\* DrawChanged: from a line that was visible, or below the last one.
LEMMA DrawChangedOK ==
  ASSUME TermOK(term), TuiOK(tui), known = term.size, NEW new \in Contents,
         Shows(term, tui.lines, origin, tui.cursor, tui.top), tui.lines # <<>>,
         Tui!Changed(new) # {}, ~Tui!OnlyDeleted(new), Tui!Reached(new)
  PROVE  /\ TermOK(Tui!DrawChanged(new).term) /\ Tui!DrawChanged(new).term.size = term.size
         /\ Shows(Tui!DrawChanged(new).term, Tui!DrawChanged(new).tui.lines, origin,
                  Tui!DrawChanged(new).tui.cursor, Tui!DrawChanged(new).tui.top)
<1> DEFINE L == Len(new)
           K == Len(tui.lines)
           H == known[2]
           first == Tui!Min(Tui!Changed(new))
           end == Tui!Max(Tui!Changed(new))
           last == Tui!Min({end, L - 1})
           append == first = K /\ first > 0
           target == IF append THEN first - 1 ELSE first
           scroll == Tui!Max({0, target - (tui.top + H - 1)})
           moved == Tui!Move(term, target - tui.cursor)
           reached ==
             IF scroll = 0 THEN moved
             ELSE Tui!Feed(Tui!Move(term, H - 1 - Tui!Max({0, Tui!Min({H - 1, tui.cursor - tui.top})})), scroll)
           base == IF append THEN Tui!Feed(reached, 1) ELSE reached
           text == SubSeq(new, first + 1, last + 1)
           drawn == Tui!Written(base, text)
           final == IF Tui!Extra(new) > 0 THEN L - 1 ELSE last
           shown == Tui!ClearedBelow(Tui!Move(drawn, final - last), Tui!Extra(new))
           top == Tui!Max({tui.top + scroll, final - H + 1})
           d == Tui!DrawChanged(new)
<1>1. LinesOK(new) /\ LinesOK(tui.lines) /\ new \in Seq(Texts)
  BY ContentsOK DEF TuiOK, LinesOK
<1>2. /\ L \in Nat
      /\ K \in Nat
      /\ K > 0
      /\ new # <<>> => L > 0
      /\ new = <<>> => L = 0
      /\ \A i \in Nat : i < L => Tui!LineAt(new, i) = new[i + 1]
      /\ \A i \in Nat : ~(i < L) => Tui!LineAt(new, i) = Tui!Blank
      /\ \A i \in Nat : ~(i < K) => Tui!LineAt(tui.lines, i) = Tui!Blank
  BY <1>1, LineAtOK
<1>3. PICK n \in Nat :
        /\ Tui!Changed(new) \in SUBSET (0 .. n - 1)
        /\ n = IF L >= K THEN L ELSE K
        /\ \A i \in Nat \ Tui!Changed(new) : Tui!LineAt(new, i) = Tui!LineAt(tui.lines, i)
        /\ \A i \in L .. K - 1 : i \in Tui!Changed(new)
        /\ \A i \in K .. L - 1 : i \in Tui!Changed(new)
  BY <1>1, ChangedOK
<1>4. /\ first \in Tui!Changed(new)
      /\ \A j \in Tui!Changed(new) : first <= j
      /\ end \in Tui!Changed(new)
      /\ \A j \in Tui!Changed(new) : j <= end
  BY <1>3, Extremes
<1>5. d = Tui!Drawing(shown, [lines |-> new, size |-> known, cursor |-> final, top |-> top,
                              most |-> Tui!Max({tui.most, L})])
  BY DEF Tui!DrawChanged
<1>6. Tui!Extra(new) = K - L
  BY DEF Tui!Extra
<1>7. first >= tui.top
  BY DEF Tui!Reached
<1>8. \E i \in Tui!Changed(new) : ~(i >= L)
  BY DEF Tui!OnlyDeleted
<1>9. /\ \A r \in 1 .. Tui!Bottom(term) :
           term.tape[r] = IF r < origin THEN Tui!Shell ELSE Tui!LineAt(tui.lines, r - origin)
      /\ origin \in Nat \ {0} /\ term.at = origin + tui.cursor /\ term.top <= origin + tui.top
      /\ origin + K - 1 \in term.top .. Tui!Bottom(term)
  BY DEF Shows
<1>10. /\ term.top \in Nat \ {0} /\ Tui!Bottom(term) \in Nat \ {0} /\ Tui!Bottom(term) = term.top + H - 1
       /\ tui.cursor \in Int /\ tui.top \in Int /\ H \in Nat \ {0}
  BY TermNumbers DEF TuiOK
<1> HIDE DEF H, L, K, first, end, last, append, target, scroll, moved, reached, base, text, drawn, final,
             shown, top, d
\* The first line to draw is drawn; the last is.
<1>11. first \in Nat /\ end \in Nat /\ first <= end /\ end <= n - 1 /\ first < L
  BY <1>2, <1>3, <1>4, <1>8
<1>12. last = IF end <= L - 1 THEN end ELSE L - 1
  <2>1. L - 1 \in Int /\ end \in Int
    BY <1>2, <1>11
  <2> QED  BY <2>1, MinTwo DEF last
<1>13. last \in Nat /\ first <= last /\ last <= L - 1
  BY <1>2, <1>11, <1>12
\* The new lines reach the end of the old ones.
<1>14. first <= K
  <2>1. CASE K < L
    <3>1. K \in K .. L - 1
      BY <1>2, <2>1
    <3> QED  BY <1>3, <1>4, <3>1
  <2>2. CASE ~(K < L)
    BY <1>2, <1>11, <2>2
  <2> QED  BY <2>1, <2>2
<1>15. /\ append => target = first - 1
       /\ append => first = K
       /\ ~append => target = first
       /\ ~append => first # K
       /\ target \in Nat /\ target <= K - 1
  <2>1. CASE append
    BY <1>2, <1>11, <2>1 DEF append, target
  <2>2. CASE ~append
    <3>1. first # K /\ target = first
      BY <1>2, <1>11, <2>2 DEF append, target
    <3> QED  BY <1>2, <1>11, <1>14, <2>2, <3>1
  <2> QED  BY <2>1, <2>2
<1>16. origin + target \in term.top .. Tui!Bottom(term)
  BY <1>2, <1>7, <1>9, <1>10, <1>11, <1>15
<1>17. scroll = 0
  <2>1. target - (tui.top + H - 1) <= 0 /\ target - (tui.top + H - 1) \in Int /\ 0 \in Int
    BY <1>2, <1>9, <1>10, <1>15
  <2> DEFINE m == target - (tui.top + H - 1)
  <2>2. m \in Int /\ m <= 0 /\ scroll = Tui!Max({0, m})
    BY <2>1 DEF scroll
  <2> HIDE DEF m
  <2> QED  BY <2>1, <2>2, MaxTwo
<1>18. /\ TermOK(reached) /\ reached.tape = term.tape /\ reached.top = term.top /\ reached.size = term.size
       /\ Tui!Bottom(reached) = Tui!Bottom(term) /\ reached.at = origin + target
  <2> DEFINE m == target - tui.cursor
  <2>1. m \in Int /\ term.at + m = origin + target
    BY <1>9, <1>10, <1>15
  <2>2. reached = Tui!Move(term, m)
    BY <1>17 DEF reached, moved
  <2> HIDE DEF m
  <2>3. /\ TermOK(Tui!Move(term, m)) /\ Tui!Move(term, m).tape = term.tape /\ Tui!Move(term, m).top = term.top
        /\ Tui!Move(term, m).size = term.size /\ Tui!Bottom(Tui!Move(term, m)) = Tui!Bottom(term)
        /\ term.at + m \in term.top .. Tui!Bottom(term) => Tui!Move(term, m).at = term.at + m
    BY <2>1, MoveOK
  <2> QED  BY <1>16, <2>1, <2>2, <2>3
\* A terminal that has scrolled has its cursor in the last row.
<1>19. /\ TermOK(base) /\ base.size = term.size /\ base.at = origin + first
       /\ base.top \in Nat \ {0} /\ Tui!Bottom(base) = base.top + H - 1
       /\ base.top = term.top \/ (base.top > term.top /\ base.at = Tui!Bottom(base))
       /\ \A r \in 1 .. Tui!Bottom(base) :
            base.tape[r] = IF r < origin THEN Tui!Shell ELSE Tui!LineAt(tui.lines, r - origin)
  <2>1. CASE append
    <3> DEFINE k == Scrolled(reached, 1)
    <3>1. /\ TermOK(base) /\ base.size = reached.size /\ base.at = reached.at + 1 /\ base.top = reached.top + k
          /\ Tui!Bottom(base) = Tui!Bottom(reached) + k
          /\ \A r \in 1 .. Tui!Bottom(reached) + k :
               base.tape[r] = IF r <= Tui!Bottom(reached) THEN reached.tape[r] ELSE Tui!Blank
      <4>1. base = Tui!Feed(reached, 1) /\ 1 \in Nat
        BY <2>1 DEF base
      <4> QED  BY <1>18, <4>1, FeedOK
    <3>2. /\ k \in Nat
          /\ k = 0 \/ (k > 0 /\ reached.at + 1 = Tui!Bottom(reached) + k)
      BY <1>18, ScrolledOK
    <3> HIDE DEF k
    <3>3. origin + target + 1 = origin + first /\ k \in Nat
      <4>1. target = first - 1
        BY <1>15, <2>1
      <4> QED  BY <1>9, <1>11, <3>2, <4>1
    <3>4. k = 0 \/ (k > 0 /\ origin + first = Tui!Bottom(term) + k)
      BY <1>18, <3>2, <3>3
    <3>5. ASSUME NEW r \in 1 .. Tui!Bottom(base)
          PROVE  base.tape[r] = IF r < origin THEN Tui!Shell ELSE Tui!LineAt(tui.lines, r - origin)
      <4>1. CASE r <= Tui!Bottom(term)
        <5>1. r \in 1 .. Tui!Bottom(term)
          BY <4>1
        <5> QED  BY <1>9, <1>18, <3>1, <4>1, <5>1
      <4>2. CASE ~(r <= Tui!Bottom(term))
        <5>1. base.tape[r] = Tui!Blank
          BY <1>18, <3>1, <4>2
        <5>2. ~(r < origin) /\ r - origin \in Nat /\ ~(r - origin < K)
          BY <1>2, <1>9, <1>10, <4>2
        <5> QED  BY <1>2, <5>1, <5>2
      <4> QED  BY <4>1, <4>2
    <3>6. base.at = origin + first /\ base.top \in Nat \ {0} /\ Tui!Bottom(base) = base.top + H - 1
      BY <1>9, <1>10, <1>18, <3>1, <3>3
    <3>7. base.top = term.top \/ (base.top > term.top /\ base.at = Tui!Bottom(base))
      BY <1>10, <1>18, <3>1, <3>3, <3>4
    <3> QED  BY <1>18, <3>1, <3>5, <3>6, <3>7
  <2>2. CASE ~append
    BY <1>9, <1>10, <1>15, <1>18, <2>2 DEF base
  <2> QED  BY <2>1, <2>2
<1>20. /\ text \in Seq(Texts) /\ text # <<>> /\ Len(text) = last - first + 1
       /\ \A i \in 1 .. last - first + 1 : text[i] = new[first + i]
  <2>1. last < Len(new)
    BY <1>2, <1>13 DEF L
  <2> QED  BY <1>1, <1>11, <1>13, <2>1, SliceOK DEF text
<1>21. /\ TermOK(drawn) /\ drawn.size = term.size /\ drawn.at = origin + last
       /\ drawn.top \in Nat \ {0} /\ Tui!Bottom(drawn) = drawn.top + H - 1
       /\ drawn.top = term.top \/ (drawn.top > term.top /\ drawn.at = Tui!Bottom(drawn))
       /\ \A r \in 1 .. Tui!Bottom(drawn) :
            drawn.tape[r] = IF r < origin THEN Tui!Shell
                            ELSE IF r - origin \in first .. last THEN Tui!LineAt(new, r - origin)
                            ELSE Tui!LineAt(tui.lines, r - origin)
  <2> DEFINE k == Scrolled(base, last - first)
  <2>1. Len(text) - 1 = last - first /\ last - first \in Nat
    BY <1>11, <1>13, <1>20
  <2>2. /\ TermOK(drawn) /\ drawn.size = base.size /\ drawn.at = base.at + (last - first)
        /\ drawn.top = base.top + k /\ Tui!Bottom(drawn) = Tui!Bottom(base) + k
    BY <1>19, <1>20, <2>1, WrittenOK DEF drawn
  <2>3. \A r \in 1 .. Tui!Bottom(base) + k :
          drawn.tape[r] = IF r \in base.at .. base.at + Len(text) - 1 THEN text[r - base.at + 1] ELSE base.tape[r]
    BY <1>19, <1>20, <2>1, WrittenOK DEF drawn
  <2>4. /\ k \in Nat
        /\ base.at + (last - first) <= Tui!Bottom(base) + k
        /\ k = 0 \/ (k > 0 /\ base.at + (last - first) = Tui!Bottom(base) + k)
    BY <1>19, <2>1, ScrolledOK
  <2> HIDE DEF k
  <2>5. k \in Nat /\ drawn.at = origin + last
        /\ base.at .. base.at + Len(text) - 1 = origin + first .. origin + last
    <3>1. base.at + (last - first) = origin + last /\ base.at + Len(text) - 1 = origin + last
      BY <1>9, <1>11, <1>13, <1>19, <1>20
    <3> QED  BY <1>19, <2>2, <2>4, <3>1
  <2>6. drawn.top \in Nat \ {0} /\ Tui!Bottom(drawn) = drawn.top + H - 1
    BY <1>10, <1>19, <2>2, <2>5
  <2>7. drawn.top = term.top \/ (drawn.top > term.top /\ drawn.at = Tui!Bottom(drawn))
    <3>1. k = 0 \/ (k > 0 /\ drawn.at = Tui!Bottom(drawn))
      BY <2>2, <2>4
    <3>2. drawn.at \in drawn.top .. Tui!Bottom(drawn)
      BY <2>2 DEF TermOK
    <3>3. CASE k = 0
      <4>1. drawn.top = base.top /\ Tui!Bottom(drawn) = Tui!Bottom(base)
        BY <1>10, <1>19, <2>2, <3>3
      <4>2. CASE base.top = term.top
        BY <4>1, <4>2
      <4>3. CASE base.top > term.top /\ base.at = Tui!Bottom(base)
        <5>1. drawn.at >= base.at /\ drawn.at <= Tui!Bottom(base) /\ drawn.at \in Int /\ base.at \in Int
          BY <1>9, <1>11, <1>13, <1>19, <2>5, <2>6, <3>2, <4>1
        <5> QED  BY <4>1, <4>3, <5>1
      <4> QED  BY <1>19, <4>2, <4>3
    <3>4. CASE k > 0 /\ drawn.at = Tui!Bottom(drawn)
      BY <1>10, <1>19, <2>2, <2>5, <3>4
    <3> QED  BY <3>1, <3>3, <3>4
  <2>8. ASSUME NEW r \in 1 .. Tui!Bottom(drawn)
        PROVE  drawn.tape[r] = IF r < origin THEN Tui!Shell
                               ELSE IF r - origin \in first .. last THEN Tui!LineAt(new, r - origin)
                               ELSE Tui!LineAt(tui.lines, r - origin)
    <3>1. drawn.tape[r] = IF r \in origin + first .. origin + last THEN text[r - base.at + 1] ELSE base.tape[r]
      BY <2>2, <2>3, <2>5
    <3>2. CASE r \in origin + first .. origin + last
      <4> DEFINE i == r - base.at + 1
      <4>1. /\ i \in 1 .. last - first + 1 /\ first + i = r - origin + 1 /\ ~(r < origin)
            /\ r - origin \in first .. last /\ r - origin \in Nat /\ r - origin < L
        BY <1>2, <1>9, <1>11, <1>13, <1>19, <3>2
      <4>2. drawn.tape[r] = text[i]
        BY <3>1, <3>2
      <4> HIDE DEF i
      <4>3. drawn.tape[r] = new[r - origin + 1]
        BY <1>20, <4>1, <4>2
      <4>4. Tui!LineAt(new, r - origin) = new[r - origin + 1]
        BY <1>2, <4>1
      <4> QED  BY <4>1, <4>3, <4>4
    <3>3. CASE r \notin origin + first .. origin + last
      <4>1. r \in Nat /\ ~(r - origin \in first .. last)
        BY <1>9, <1>11, <1>13, <2>2, <2>5, <2>6, <3>3
      <4>2. r \in 1 .. Tui!Bottom(base)
        <5>1. CASE k = 0
          BY <2>2, <5>1, <1>10, <1>19
        <5>2. CASE k # 0
          <6>1. origin + last = Tui!Bottom(drawn) /\ base.at <= Tui!Bottom(base) /\ base.at = origin + first
            BY <1>19, <2>2, <2>4, <2>5, <5>2 DEF TermOK
          <6>2. r < origin + first
            BY <1>9, <1>11, <1>13, <2>5, <2>6, <3>3, <6>1
          <6> QED  BY <1>9, <1>10, <1>11, <1>19, <4>1, <6>1, <6>2
        <5> QED  BY <5>1, <5>2
      <4> QED  BY <1>19, <3>1, <3>3, <4>1, <4>2
    <3> QED  BY <3>2, <3>3
  <2> QED  BY <1>19, <2>2, <2>5, <2>6, <2>7, <2>8
\* When lines were deleted too, the last one that is new was drawn.
<1>22. /\ K > L => last = L - 1
       /\ final = last
  <2>1. ASSUME K > L PROVE last = L - 1
    <3>1. K - 1 \in L .. K - 1
      BY <1>2, <2>1
    <3>2. end >= K - 1
      BY <1>3, <1>4, <3>1
    <3> QED  BY <1>2, <1>11, <1>12, <2>1, <3>2
  <2>2. CASE K > L
    BY <1>2, <1>6, <2>1, <2>2 DEF final
  <2>3. CASE ~(K > L)
    <3>1. ~(Tui!Extra(new) > 0)
      BY <1>2, <1>6, <2>3
    <3> QED  BY <2>3, <3>1 DEF final
  <2> QED  BY <2>1, <2>2, <2>3
<1>23. /\ TermOK(shown) /\ shown.size = term.size /\ shown.at = origin + last /\ shown.top = drawn.top
       /\ Tui!Bottom(shown) = Tui!Bottom(drawn)
       /\ \A r \in 1 .. Tui!Bottom(drawn) :
            shown.tape[r] = IF r \in origin + last + 1 .. origin + last + (K - L) THEN Tui!Blank ELSE drawn.tape[r]
  <2> DEFINE m == Tui!Move(drawn, final - last)
  <2>1. /\ TermOK(m) /\ m.tape = drawn.tape /\ m.top = drawn.top /\ m.size = drawn.size
        /\ Tui!Bottom(m) = Tui!Bottom(drawn) /\ m.at = origin + last
    <3>1. final - last = 0
      BY <1>13, <1>22
    <3>2. m = Tui!Move(drawn, 0)
      BY <3>1
    <3>3. 0 \in Int /\ drawn.at + 0 = drawn.at /\ drawn.at \in drawn.top .. Tui!Bottom(drawn)
      BY <1>9, <1>13, <1>21 DEF TermOK
    <3>4. /\ TermOK(Tui!Move(drawn, 0)) /\ Tui!Move(drawn, 0).tape = drawn.tape /\ Tui!Move(drawn, 0).top = drawn.top
          /\ Tui!Move(drawn, 0).size = drawn.size /\ Tui!Bottom(Tui!Move(drawn, 0)) = Tui!Bottom(drawn)
          /\ drawn.at + 0 \in drawn.top .. Tui!Bottom(drawn) => Tui!Move(drawn, 0).at = drawn.at + 0
      BY <1>21, <3>3, MoveOK
    <3> QED  BY <1>21, <3>2, <3>3, <3>4
  <2> HIDE DEF m
  <2>2. shown = Tui!ClearedBelow(m, K - L)
    BY <1>6 DEF shown, m
  <2>3. Tui!Bottom(drawn) >= Tui!Bottom(term)
    BY <1>10, <1>21
  <2>4. K - L \in Int /\ m.at + (K - L) <= Tui!Bottom(m)
    <3>1. CASE K > L
      BY <1>2, <1>9, <1>10, <1>13, <1>21, <1>22, <2>1, <2>3, <3>1
    <3>2. CASE ~(K > L)
      <4>1. m.at \in m.top .. Tui!Bottom(m)
        BY <2>1 DEF TermOK
      <4> QED  BY <1>2, <1>9, <1>10, <1>13, <1>21, <2>1, <3>2, <4>1
    <3> QED  BY <3>1, <3>2
  <2> DEFINE e == K - L
  <2>5. e \in Int /\ m.at + e <= Tui!Bottom(m)
    BY <2>4
  <2> HIDE DEF e
  <2>6. LET b == Tui!ClearedBelow(m, e)
        IN /\ TermOK(b) /\ b.size = m.size /\ b.at = m.at /\ b.top = m.top /\ Tui!Bottom(b) = Tui!Bottom(m)
           /\ \A r \in 1 .. Tui!Bottom(m) :
                b.tape[r] = IF r \in m.at + 1 .. m.at + e THEN Tui!Blank ELSE m.tape[r]
    BY <2>1, <2>5, BelowOK
  <2> QED  BY <1>21, <2>1, <2>2, <2>6 DEF e
<1>24. ASSUME NEW r \in 1 .. Tui!Bottom(shown)
       PROVE  shown.tape[r] = IF r < origin THEN Tui!Shell ELSE Tui!LineAt(new, r - origin)
  <2>1. /\ shown.tape[r] = IF r \in origin + last + 1 .. origin + last + (K - L) THEN Tui!Blank ELSE drawn.tape[r]
        /\ drawn.tape[r] = IF r < origin THEN Tui!Shell
                           ELSE IF r - origin \in first .. last THEN Tui!LineAt(new, r - origin)
                           ELSE Tui!LineAt(tui.lines, r - origin)
        /\ r \in Nat
    BY <1>10, <1>21, <1>23
  <2>2. CASE r < origin
    <3>1. r \notin origin + last + 1 .. origin + last + (K - L)
      BY <1>2, <1>9, <1>13, <2>1, <2>2
    <3> QED  BY <2>1, <2>2, <3>1
  <2>3. CASE ~(r < origin) /\ r - origin <= last
    <3>1. r \notin origin + last + 1 .. origin + last + (K - L) /\ r - origin \in Nat
      BY <1>2, <1>9, <1>13, <2>1, <2>3
    <3>2. r - origin \notin first .. last => r - origin \notin Tui!Changed(new)
      BY <1>4, <1>11, <1>13, <2>3, <3>1
    <3> QED  BY <1>3, <2>1, <2>3, <3>1, <3>2
  <2>4. CASE ~(r < origin) /\ ~(r - origin <= last)
    <3>1. r - origin \in Nat /\ r - origin \notin first .. last
      BY <1>9, <1>11, <1>13, <2>1, <2>4
    <3>2. drawn.tape[r] = Tui!LineAt(tui.lines, r - origin)
      BY <2>1, <2>4, <3>1
    <3>3. CASE r - origin < L
      <4>1. ~(K > L) /\ last = end
        BY <1>2, <1>11, <1>12, <1>13, <1>22, <2>4, <3>1, <3>3
      <4>2. r - origin \notin Tui!Changed(new)
        BY <1>4, <1>11, <2>4, <3>1, <4>1
      <4>3. r \notin origin + last + 1 .. origin + last + (K - L)
        BY <1>2, <1>9, <1>13, <2>1, <4>1
      <4> QED  BY <1>3, <2>1, <2>4, <3>1, <3>2, <4>2, <4>3
    <3>4. CASE ~(r - origin < L)
      <4>1. Tui!LineAt(new, r - origin) = Tui!Blank
        BY <1>2, <3>1, <3>4
      <4>2. CASE r - origin < K
        <5>1. r \in origin + last + 1 .. origin + last + (K - L)
          BY <1>2, <1>9, <1>13, <1>22, <2>1, <2>4, <3>1, <3>4, <4>2
        <5> QED  BY <2>1, <2>4, <4>1, <5>1
      <4>3. CASE ~(r - origin < K)
        <5>1. Tui!LineAt(tui.lines, r - origin) = Tui!Blank
          BY <1>2, <3>1, <4>3
        <5> QED  BY <2>1, <2>4, <3>2, <4>1, <5>1
      <4> QED  BY <4>2, <4>3
    <3> QED  BY <3>3, <3>4
  <2> QED  BY <2>2, <2>3, <2>4
<1>25. shown.top <= origin + top
  <2>1. tui.top + scroll = tui.top /\ final - H + 1 = last - H + 1 /\ tui.top \in Int /\ last - H + 1 \in Int
    BY <1>10, <1>13, <1>17, <1>22
  <2>2. top = IF tui.top >= last - H + 1 THEN tui.top ELSE last - H + 1
    BY <2>1, MaxTwo DEF top
  <2> QED  BY <1>9, <1>10, <1>13, <1>21, <1>23, <2>1, <2>2
<1>26. origin + L - 1 \in shown.top .. Tui!Bottom(shown)
  <2>1. shown.at \in shown.top .. Tui!Bottom(shown)
    BY <1>23 DEF TermOK
  <2>2. CASE last = L - 1
    BY <1>2, <1>9, <1>13, <1>23, <2>1, <2>2
  <2>3. CASE last # L - 1
    <3>1. last = end /\ last < L - 1 /\ ~(K > L)
      BY <1>2, <1>11, <1>12, <1>13, <1>22, <2>3
    <3>2. L = K
      <4>1. SUFFICES ASSUME K < L PROVE FALSE
        BY <1>2, <3>1
      <4>2. L - 1 \in K .. L - 1
        BY <1>2, <4>1
      <4> QED  BY <1>2, <1>3, <1>4, <1>11, <3>1, <4>2
    <3>3. Tui!Bottom(shown) >= Tui!Bottom(term)
      BY <1>10, <1>21, <1>23
    <3> QED  BY <1>2, <1>9, <1>10, <1>13, <1>21, <1>23, <2>1, <3>1, <3>2, <3>3
  <2> QED  BY <2>2, <2>3
<1>27. d.term = shown /\ d.tui.lines = new /\ d.tui.cursor = last /\ d.tui.top = top
  BY <1>5, <1>22 DEF Tui!Drawing
<1>28. Shows(shown, new, origin, last, top)
  <2>1. new # <<>>
    BY <1>2, <1>11
  <2> QED  BY <1>9, <1>23, <1>24, <1>25, <1>26, <2>1 DEF Shows, L
<1> QED  BY <1>23, <1>27, <1>28 DEF d

-----------------------------------------------------------------------------
(* A render *)

\* A render that does not start anew knows the size, and lines that it drew.
LEMMA SizeKnown ==
  ASSUME TuiOK(tui), known \in Sizes
  PROVE  /\ ~Tui!widthChanged /\ ~Tui!heightChanged => tui.size = known \/ tui.size = <<0, 0>>
         /\ tui.size = <<0, 0>> => Tui!FirstRender
<1>1. /\ known[1] \in Nat \ {0} /\ known[2] \in Nat \ {0} /\ known = <<known[1], known[2]>>
  BY SizeOK
<1>2. tui.size \in Sizes \cup Unsized
  BY DEF TuiOK
<1>3. CASE tui.size = <<0, 0>>
  <2>1. ~Tui!widthChanged /\ ~Tui!heightChanged
    BY <1>3 DEF Tui!widthChanged, Tui!heightChanged
  <2>2. tui.lines = <<>>
    BY <1>3 DEF TuiOK, Unsized
  <2> QED  BY <1>3, <2>1, <2>2 DEF Tui!FirstRender
<1>4. CASE tui.size = <<-1, -1>>
  <2>1. Tui!widthChanged
    BY <1>1, <1>4 DEF Tui!widthChanged
  <2> QED  BY <1>4, <2>1
<1>5. CASE tui.size \in Sizes
  <2>1. /\ tui.size[1] \in Nat \ {0} /\ tui.size[2] \in Nat \ {0} /\ tui.size = <<tui.size[1], tui.size[2]>>
        /\ tui.size # <<0, 0>>
    BY <1>5, SizeOK DEF Unsized
  <2>2. ASSUME ~Tui!widthChanged, ~Tui!heightChanged PROVE tui.size = known
    <3>1. tui.size[1] = known[1] /\ tui.size[2] = known[2]
      BY <2>1, <2>2 DEF Tui!widthChanged, Tui!heightChanged
    <3> QED  BY <1>1, <2>1, <3>1
  <2> QED  BY <2>1, <2>2
<1> QED  BY <1>2, <1>3, <1>4, <1>5 DEF Unsized

\* fullRender's result, of what has been drawn.
LEMMA FullTypes ==
  ASSUME TuiOK(tui), known \in Sizes, NEW new \in Contents, NEW clear \in BOOLEAN
  PROVE  /\ TuiOK(Tui!fullRender(clear, new).tui)
         /\ Tui!fullRender(clear, new).tui.size = known /\ Tui!fullRender(clear, new).tui.lines = new
<1> DEFINE L == Len(new)
           cursor == Tui!Max({0, L - 1})
           top == Tui!Max({known[2], L}) - known[2]
           most == IF clear THEN L ELSE Tui!Max({tui.most, L})
           u == [lines |-> new, size |-> known, cursor |-> cursor, top |-> top, most |-> most]
<1>1. Tui!fullRender(clear, new).tui = u
  BY DEF Tui!fullRender, Tui!Drawing
<1>2. L \in Nat /\ known[2] \in Nat \ {0} /\ tui.most \in Int /\ known \notin Unsized
  <2>1. LinesOK(new)
    BY ContentsOK
  <2> QED  BY <2>1, LineAtOK, SizeOK DEF TuiOK
<1> HIDE DEF L
<1>3. 0 \in Int /\ L - 1 \in Int /\ L \in Int /\ known[2] \in Int
  BY <1>2
<1>4. cursor \in Int /\ Tui!Max({known[2], L}) \in Int /\ Tui!Max({tui.most, L}) \in Int
  <2>1. cursor = IF 0 >= L - 1 THEN 0 ELSE L - 1
    BY <1>3, MaxTwo
  <2>2. Tui!Max({known[2], L}) = IF known[2] >= L THEN known[2] ELSE L
    BY <1>3, MaxTwo
  <2>3. Tui!Max({tui.most, L}) = IF tui.most >= L THEN tui.most ELSE L
    BY <1>2, <1>3, MaxTwo
  <2> QED  BY <1>2, <1>3, <2>1, <2>2, <2>3
<1>5. top \in Int /\ most \in Int
  BY <1>3, <1>4
<1> HIDE DEF cursor, top, most
<1> QED  BY <1>1, <1>2, <1>4, <1>5 DEF TuiOK

\* DrawChanged's result.
LEMMA ChangedTypes ==
  ASSUME TuiOK(tui), known \in Sizes, NEW new \in Contents, Tui!Changed(new) # {}
  PROVE  /\ TuiOK(Tui!DrawChanged(new).tui)
         /\ Tui!DrawChanged(new).tui.size = known /\ Tui!DrawChanged(new).tui.lines = new
<1> DEFINE L == Len(new)
           K == Len(tui.lines)
           H == known[2]
           first == Tui!Min(Tui!Changed(new))
           end == Tui!Max(Tui!Changed(new))
           last == Tui!Min({end, L - 1})
           append == first = K /\ first > 0
           target == IF append THEN first - 1 ELSE first
           scroll == Tui!Max({0, target - (tui.top + H - 1)})
           final == IF Tui!Extra(new) > 0 THEN L - 1 ELSE last
           top == Tui!Max({tui.top + scroll, final - H + 1})
           most == Tui!Max({tui.most, L})
           u == [lines |-> new, size |-> known, cursor |-> final, top |-> top, most |-> most]
<1>1. Tui!DrawChanged(new).tui = u
  BY DEF Tui!DrawChanged, Tui!Drawing
<1>2. L \in Int /\ K \in Int /\ H \in Int /\ tui.most \in Int /\ tui.top \in Int
  <2>1. LinesOK(new) /\ LinesOK(tui.lines)
    BY ContentsOK DEF TuiOK
  <2> QED  BY <2>1, LineAtOK, SizeOK DEF TuiOK
<1>3. first \in Int /\ end \in Int
  <2>1. LinesOK(new) /\ LinesOK(tui.lines)
    BY ContentsOK DEF TuiOK
  <2>2. PICK n \in Nat : Tui!Changed(new) \in SUBSET (0 .. n - 1)
    BY <2>1, ChangedOK
  <2>3. first \in Tui!Changed(new) /\ end \in Tui!Changed(new)
    BY <2>2, Extremes
  <2> QED  BY <2>2, <2>3
<1> HIDE DEF L, K, H, first, end
<1>4. last \in Int
  <2>1. L - 1 \in Int
    BY <1>2
  <2>2. last = IF end <= L - 1 THEN end ELSE L - 1
    BY <1>3, <2>1, MinTwo
  <2> QED  BY <1>3, <2>1, <2>2
<1>5. target \in Int
  BY <1>3
<1> HIDE DEF target, last
<1>6. final \in Int
  BY <1>2, <1>4
<1> HIDE DEF final
<1>7. scroll \in Int
  <2> DEFINE m == target - (tui.top + H - 1)
  <2>1. m \in Int /\ 0 \in Int
    BY <1>2, <1>5
  <2> HIDE DEF m
  <2>2. Tui!Max({0, m}) = IF 0 >= m THEN 0 ELSE m
    BY <2>1, MaxTwo
  <2> QED  BY <2>1, <2>2 DEF m
<1> HIDE DEF scroll
<1>8. top \in Int
  <2> DEFINE a == tui.top + scroll
             b == final - H + 1
  <2>1. a \in Int /\ b \in Int
    BY <1>2, <1>6, <1>7
  <2> HIDE DEF a, b
  <2>2. Tui!Max({a, b}) = IF a >= b THEN a ELSE b
    BY <2>1, MaxTwo
  <2> QED  BY <2>1, <2>2 DEF a, b
<1>9. most \in Int
  <2>1. most = IF tui.most >= L THEN tui.most ELSE L
    BY <1>2, MaxTwo
  <2> QED  BY <1>2, <2>1
<1> HIDE DEF top, most
<1> QED  BY <1>1, <1>6, <1>8, <1>9, SizeOK DEF TuiOK

\* What the TUI remembers of what it has drawn.
LEMMA DrawnTypes ==
  ASSUME TuiOK(tui), known \in Sizes, NEW new \in Contents, NEW overlays
  PROVE  /\ TuiOK(Tui!Drawn(new, overlays).tui) /\ Tui!Drawn(new, overlays).tui.size = known
         /\ Len(Tui!Drawn(new, overlays).tui.lines) = Len(new)
<1> DEFINE d == Tui!Drawn(new, overlays)
<1>1. CASE Tui!FirstRender \/ Tui!MustRedraw(new, overlays)
  <2>1. d = Tui!fullRender(FALSE, new) \/ d = Tui!fullRender(TRUE, new)
    BY <1>1 DEF Tui!Drawn
  <2> QED  BY <2>1, FullTypes
<1>2. CASE ~Tui!FirstRender /\ ~Tui!MustRedraw(new, overlays)
  <2>1. tui.size = known /\ known \notin Unsized
    BY <1>2, SizeKnown, SizeOK DEF Tui!MustRedraw
  <2>2. tui \in [lines : Contents \cup {<<>>}, size : Sizes \cup Unsized, cursor : Int, top : Int, most : Int]
    BY DEF TuiOK
  <2>3. LinesOK(new) /\ LinesOK(tui.lines) /\ Len(new) \in Nat /\ Len(tui.lines) \in Nat
    BY <2>2, ContentsOK, LineAtOK
  <2>4. CASE Tui!Changed(new) = {}
    <3>1. d = Tui!Drawing(term, [tui EXCEPT !.size[2] = known[2]])
      BY <1>2, <2>4 DEF Tui!Drawn
    <3>2. [tui EXCEPT !.size[2] = known[2]] = tui
      <4>1. known = <<known[1], known[2]>>
        BY SizeOK
      <4>2. [tui.size EXCEPT ![2] = known[2]] = tui.size
        BY <2>1, <4>1
      <4> QED  BY <2>2, <4>2
    <3>3. d.tui = tui
      BY <3>1, <3>2 DEF Tui!Drawing
    <3>4. Len(tui.lines) = Len(new)
      <4>1. /\ \A i \in Len(new) .. Len(tui.lines) - 1 : i \in Tui!Changed(new)
            /\ \A i \in Len(tui.lines) .. Len(new) - 1 : i \in Tui!Changed(new)
        BY <2>3, ChangedOK
      <4>2. ~(Len(new) < Len(tui.lines))
        <5>1. SUFFICES ASSUME Len(new) < Len(tui.lines) PROVE FALSE
          OBVIOUS
        <5>2. Len(new) \in Len(new) .. Len(tui.lines) - 1
          BY <2>3, <5>1
        <5> QED  BY <2>4, <4>1, <5>2
      <4>3. ~(Len(tui.lines) < Len(new))
        <5>1. SUFFICES ASSUME Len(tui.lines) < Len(new) PROVE FALSE
          OBVIOUS
        <5>2. Len(tui.lines) \in Len(tui.lines) .. Len(new) - 1
          BY <2>3, <5>1
        <5> QED  BY <2>4, <4>1, <5>2
      <4> QED  BY <2>3, <4>2, <4>3
    <3> QED  BY <2>1, <3>3, <3>4
  <2>5. CASE Tui!Changed(new) # {} /\ Tui!OnlyDeleted(new)
    <3> DEFINE target == Tui!Max({0, Len(new) - 1})
               u == [tui EXCEPT !.lines = new, !.size = known, !.cursor = target]
    <3>1. d = Tui!DrawDeleted(new)
      BY <1>2, <2>5 DEF Tui!Drawn
    <3>2. d.tui = u
      BY <3>1 DEF Tui!DrawDeleted, Tui!Drawing
    <3>3. target \in Int
      <4>1. 0 \in Int /\ Len(new) - 1 \in Int
        BY <2>3
      <4>2. target = IF 0 >= Len(new) - 1 THEN 0 ELSE Len(new) - 1
        BY <4>1, MaxTwo
      <4> QED  BY <4>1, <4>2
    <3> HIDE DEF target
    <3>4. /\ u \in [lines : Contents \cup {<<>>}, size : Sizes \cup Unsized, cursor : Int, top : Int, most : Int]
          /\ u.size = known /\ u.lines = new
      BY <2>2, <3>3
    <3> HIDE DEF u
    <3> QED  BY <2>1, <3>2, <3>4 DEF TuiOK
  <2>6. CASE Tui!Changed(new) # {} /\ ~Tui!OnlyDeleted(new)
    <3>1. d = Tui!DrawChanged(new)
      BY <1>2, <2>6 DEF Tui!Drawn
    <3> QED  BY <2>1, <2>3, <2>6, <3>1, ChangedTypes
  <2> QED  BY <2>4, <2>5, <2>6
<1> QED  BY <1>1, <1>2

\* The row of the first line after a render.
Origin(new, overlays) ==
  IF ~Tui!FirstRender /\ Tui!MustRedraw(new, overlays) THEN 1
  ELSE IF tui.size[1] = 0 THEN term.at ELSE origin

\* A render for the terminal's size leaves it as the TUI takes it to be.
LEMMA DrawnOK ==
  ASSUME ScreenInv, ~uiStopped, known = term.size, NEW new \in Contents, NEW overlays
  PROVE  /\ TermOK(Tui!Drawn(new, overlays).term) /\ Tui!Drawn(new, overlays).term.size = term.size
         /\ Shows(Tui!Drawn(new, overlays).term, Tui!Drawn(new, overlays).tui.lines, Origin(new, overlays),
                  Tui!Drawn(new, overlays).tui.cursor, Tui!Drawn(new, overlays).tui.top)
<1> DEFINE d == Tui!Drawn(new, overlays)
<1>1. /\ TermOK(term) /\ TuiOK(tui) /\ known \in Sizes /\ origin \in Nat \ {0}
      /\ InTouch => Shows(term, tui.lines, origin, tui.cursor, tui.top)
      /\ LinesOK(new)
  BY ContentsOK DEF ScreenInv, ScreenTypes
<1>2. ASSUME tui.size \in {known, <<0, 0>>}
      PROVE  Shows(term, tui.lines, origin, tui.cursor, tui.top)
  BY <1>1, <1>2 DEF InTouch
<1>3. CASE Tui!FirstRender
  <2>1. tui.size \in {known, <<0, 0>>} /\ tui.lines = <<>>
    BY <1>1, <1>3, SizeKnown DEF Tui!FirstRender
  <2>2. Shows(term, <<>>, origin, tui.cursor, tui.top)
    BY <1>2, <2>1
  <2>3. /\ origin \in Nat \ {0} /\ tui.cursor = 0 /\ term.at = origin + 0
        /\ \A r \in 1 .. Tui!Bottom(term) :
             term.tape[r] = IF r < origin THEN Tui!Shell ELSE Tui!LineAt(<<>>, r - origin)
    BY <2>2 DEF Shows
  <2>4. /\ term.at = origin
        /\ \A r \in 1 .. Tui!Bottom(term) : term.tape[r] = IF r < origin THEN Tui!Shell ELSE Tui!Blank
    <3>1. LinesOK(<<>>) /\ Len(<<>>) = 0
      BY ContentsOK
    <3>2. ASSUME NEW r \in 1 .. Tui!Bottom(term), ~(r < origin)
          PROVE  Tui!LineAt(<<>>, r - origin) = Tui!Blank
      <4>1. r - origin \in Nat /\ ~(r - origin < Len(<<>>))
        BY <1>1, <3>1, <3>2, TermNumbers
      <4> QED  BY <3>1, <4>1, LineAtOK
    <3> QED  BY <2>3, <3>2
  <2>5. Origin(new, overlays) = origin
    BY <1>3, <2>4 DEF Origin
  <2>6. /\ d.term = Tui!Written(term, new) /\ d.tui.lines = new
        /\ d.tui.cursor = Tui!Max({0, Len(new) - 1})
        /\ d.tui.top = Tui!Max({term.size[2], Len(new)}) - term.size[2]
    BY <1>3 DEF Tui!Drawn, Tui!fullRender, Tui!Drawing
  <2>7. /\ TermOK(Tui!Written(term, new)) /\ Tui!Written(term, new).size = term.size
        /\ Shows(Tui!Written(term, new), new, origin, Tui!Max({0, Len(new) - 1}),
                 Tui!Max({term.size[2], Len(new)}) - term.size[2])
    BY <1>1, <2>4, FullOK
  <2> QED  BY <2>5, <2>6, <2>7
<1>4. CASE ~Tui!FirstRender /\ Tui!MustRedraw(new, overlays)
  <2> DEFINE t == Tui!Cleared(term)
  <2>1. /\ TermOK(t) /\ t.size = term.size /\ t.at = 1 /\ Tui!Bottom(t) = term.size[2]
        /\ \A r \in 1 .. term.size[2] : t.tape[r] = Tui!Blank
    BY <1>1, ClearedOK
  <2>2. Origin(new, overlays) = 1
    BY <1>4 DEF Origin
  <2>3. /\ d.term = Tui!Written(t, new) /\ d.tui.lines = new
        /\ d.tui.cursor = Tui!Max({0, Len(new) - 1})
        /\ d.tui.top = Tui!Max({term.size[2], Len(new)}) - term.size[2]
    BY <1>4 DEF Tui!Drawn, Tui!fullRender, Tui!Drawing
  <2> HIDE DEF t
  <2>4. \A r \in 1 .. Tui!Bottom(t) : t.tape[r] = IF r < 1 THEN Tui!Shell ELSE Tui!Blank
    <3>1. term.size[2] \in Nat
      BY <1>1, TermNumbers
    <3> QED  BY <2>1, <3>1
  <2>5. /\ TermOK(Tui!Written(t, new)) /\ Tui!Written(t, new).size = t.size
        /\ Shows(Tui!Written(t, new), new, 1, Tui!Max({0, Len(new) - 1}),
                 Tui!Max({t.size[2], Len(new)}) - t.size[2])
    BY <1>1, <2>1, <2>4, FullOK
  <2> QED  BY <2>1, <2>2, <2>3, <2>5
<1>5. CASE ~Tui!FirstRender /\ ~Tui!MustRedraw(new, overlays)
  <2>1. /\ ~Tui!widthChanged /\ ~Tui!heightChanged
        /\ Tui!Changed(new) # {} => Tui!Reached(new)
    BY <1>5 DEF Tui!MustRedraw
  <2>2. tui.size = known /\ tui.lines # <<>>
    BY <1>1, <1>5, <2>1, SizeKnown DEF Tui!FirstRender
  <2>3. Shows(term, tui.lines, origin, tui.cursor, tui.top)
    BY <1>2, <2>2
  <2>4. Origin(new, overlays) = origin
    <3>1. tui.size[1] # 0
      BY <1>1, <2>2, SizeOK
    <3> QED  BY <1>5, <3>1 DEF Origin
  <2>5. CASE Tui!Changed(new) = {}
    <3>1. d = Tui!Drawing(term, [tui EXCEPT !.size[2] = known[2]])
      BY <1>5, <2>5 DEF Tui!Drawn
    <3>2. /\ d.term = term /\ d.tui.lines = tui.lines /\ d.tui.cursor = tui.cursor /\ d.tui.top = tui.top
      <4>1. tui \in [lines : Contents \cup {<<>>}, size : Sizes \cup Unsized, cursor : Int, top : Int, most : Int]
        BY <1>1 DEF TuiOK
      <4> QED  BY <3>1, <4>1 DEF Tui!Drawing
    <3> QED  BY <1>1, <2>3, <2>4, <3>2
  <2>6. CASE Tui!Changed(new) # {} /\ Tui!OnlyDeleted(new)
    <3>1. d = Tui!DrawDeleted(new)
      BY <1>5, <2>6 DEF Tui!Drawn
    <3> QED  BY <1>1, <2>1, <2>2, <2>3, <2>4, <2>6, <3>1, DeletedOK
  <2>7. CASE Tui!Changed(new) # {} /\ ~Tui!OnlyDeleted(new)
    <3>1. d = Tui!DrawChanged(new)
      BY <1>5, <2>7 DEF Tui!Drawn
    <3> QED  BY <1>1, <2>1, <2>2, <2>3, <2>4, <2>7, <3>1, DrawChangedOK
  <2> QED  BY <2>5, <2>6, <2>7
<1> QED  BY <1>3, <1>4, <1>5

\* doRender, and what it leaves when the terminal has another size.
LEMMA RenderOK ==
  ASSUME ScreenInv, ~uiStopped, Tui!doRender
  PROVE  /\ TermOK(term') /\ term'.size = term.size /\ TuiOK(tui') /\ tui'.size = known
         /\ origin' \in Nat \ {0}
         /\ known = term.size => Shows(term', tui'.lines, origin', tui'.cursor, tui'.top)
<1>1. PICK content \in Tui!Content :
        LET new == content[1]
            row == content[2]
            d == Tui!Drawn(new, content[3])
            s == Tui!positionHardwareCursor(d, row)
        IN /\ row # 0 => row - 1 >= d.tui.top
           /\ term' = (IF known = term.size THEN s.term ELSE Tui!Garbled(term, term.size))
           /\ tui' = s.tui
           /\ origin' = Origin(new, content[3])
  BY DEF Tui!doRender, Origin
<1> DEFINE new == content[1]
           row == content[2]
           d == Tui!Drawn(new, content[3])
           s == Tui!positionHardwareCursor(d, row)
<1>2. /\ TermOK(term) /\ TuiOK(tui) /\ known \in Sizes /\ origin \in Nat \ {0}
      /\ term.at \in Nat \ {0} /\ term.size \in Sizes
  BY TermNumbers DEF ScreenInv, ScreenTypes
<1>3. new \in Contents /\ row \in Nat /\ row <= Len(new)
  <2>1. PICK c \in Contents :
          content \in {c} \X ({0} \cup Tui!Max({1, Len(c) - known[2] + 1}) .. Len(c))
                        \X (IF clearOnShrink /\ Len(c) >= known[2] THEN BOOLEAN ELSE {FALSE})
    BY DEF Tui!Content
  <2>2. new = c /\ row \in {0} \cup Tui!Max({1, Len(c) - known[2] + 1}) .. Len(c)
    BY <2>1
  <2> DEFINE m == Len(c) - known[2] + 1
  <2>3. Len(c) \in Nat /\ m \in Int /\ 1 \in Int
    <3>1. known[2] \in Nat /\ LinesOK(c)
      BY <1>2, SizeOK, ContentsOK
    <3> QED  BY <3>1, LineAtOK
  <2> HIDE DEF m
  <2>4. Tui!Max({1, m}) = IF 1 >= m THEN 1 ELSE m
    BY <2>3, MaxTwo
  <2>5. row \in {0} \cup Tui!Max({1, m}) .. Len(c)
    BY <2>2 DEF m
  <2> HIDE DEF new, row
  <2>6. row \in Nat /\ row <= Len(c)
    BY <2>3, <2>4, <2>5
  <2> QED  BY <2>2, <2>6
<1>4. /\ row # 0 => row - 1 >= d.tui.top
      /\ term' = (IF known = term.size THEN s.term ELSE Tui!Garbled(term, term.size))
      /\ tui' = s.tui
      /\ origin' = Origin(new, content[3])
  BY <1>1
<1> HIDE DEF new, row
<1>5. TuiOK(d.tui) /\ d.tui.size = known /\ Len(d.tui.lines) = Len(new)
  BY <1>2, <1>3, DrawnTypes
<1> HIDE DEF d
<1>6. TuiOK(s.tui) /\ s.tui.size = known
  BY <1>2, <1>3, <1>5, PositionTypes, SizeOK
<1>7. origin' \in Nat \ {0}
  BY <1>2, <1>4 DEF Origin
<1>8. CASE known = term.size
  <2>1. /\ TermOK(d.term) /\ d.term.size = term.size
        /\ Shows(d.term, d.tui.lines, Origin(new, content[3]), d.tui.cursor, d.tui.top)
    BY <1>3, <1>8, DrawnOK DEF d
  <2>2. LinesOK(d.tui.lines) /\ row <= Len(d.tui.lines) /\ d.tui.size \notin Unsized
    BY <1>2, <1>3, <1>5, ContentsOK, SizeOK DEF TuiOK
  <2>3. /\ TermOK(s.term) /\ s.term.size = d.term.size
        /\ Shows(s.term, s.tui.lines, Origin(new, content[3]), s.tui.cursor, s.tui.top)
    BY <1>3, <1>4, <1>5, <2>1, <2>2, PositionOK
  <2> QED  BY <1>4, <1>6, <1>7, <1>8, <2>1, <2>3
<1>9. CASE known # term.size
  <2>1. TermOK(Tui!Garbled(term, term.size)) /\ Tui!Garbled(term, term.size).size = term.size
    BY <1>2, GarbledOK
  <2> QED  BY <1>4, <1>6, <1>7, <1>9, <2>1
<1> QED  BY <1>8, <1>9

-----------------------------------------------------------------------------
(* The invariant *)

\* At the start nothing has been drawn below the shell's rows.
LEMMA ScreenInit == Tui!Init => ScreenInv
<1> SUFFICES ASSUME Tui!Init PROVE ScreenInv
  OBVIOUS
<1>1. PICK size \in Sizes : \E at \in 1 .. size[2] :
        /\ term = [tape |-> [r \in 1 .. size[2] |-> IF r < at THEN Tui!Shell ELSE Tui!Blank],
                   top |-> 1, at |-> at, size |-> size]
        /\ known = size /\ origin = at
  BY DEF Tui!Init
<1>2. PICK at \in 1 .. size[2] :
        /\ term = [tape |-> [r \in 1 .. size[2] |-> IF r < at THEN Tui!Shell ELSE Tui!Blank],
                   top |-> 1, at |-> at, size |-> size]
        /\ known = size /\ origin = at
  BY <1>1
<1>3. /\ tui = [lines |-> <<>>, size |-> <<0, 0>>, cursor |-> 0, top |-> 0, most |-> 0]
      /\ renderTimer = FALSE /\ uiStopped = FALSE
  BY DEF Tui!Init
<1>4. size[2] \in Nat \ {0}
  BY SizeOK
<1> DEFINE tape == [r \in 1 .. size[2] |-> IF r < at THEN Tui!Shell ELSE Tui!Blank]
<1>5. /\ tape \in Seq(Texts) /\ Len(tape) = size[2]
      /\ \A r \in 1 .. size[2] : tape[r] = IF r < at THEN Tui!Shell ELSE Tui!Blank
  <2>1. tape \in [1 .. size[2] -> Texts]
    BY DEF Texts
  <2> QED  BY <1>4, <2>1
<1>6. term = [tape |-> tape, top |-> 1, at |-> at, size |-> size]
  BY <1>2
<1> HIDE DEF tape
<1>7. Tui!Bottom(term) = size[2]
  BY <1>4, <1>6 DEF Tui!Bottom
<1>8. TermOK(term)
  BY <1>4, <1>5, <1>6, <1>7 DEF TermOK
<1>9. TuiOK(tui)
  BY <1>3 DEF TuiOK, Unsized
<1>10. Shows(term, tui.lines, origin, tui.cursor, tui.top)
  <2>1. LinesOK(<<>>) /\ Len(<<>>) = 0
    BY ContentsOK
  <2>2. ASSUME NEW r \in 1 .. Tui!Bottom(term)
        PROVE  term.tape[r] = IF r < origin THEN Tui!Shell ELSE Tui!LineAt(<<>>, r - origin)
    <3>1. ~(r < at) => r - at \in Nat /\ ~(r - at < Len(<<>>))
      BY <1>4, <1>7, <2>1
    <3>2. ~(r < at) => Tui!LineAt(<<>>, r - at) = Tui!Blank
      BY <2>1, <3>1, LineAtOK
    <3> QED  BY <1>2, <1>5, <1>6, <1>7, <3>2
  <2>3. origin \in Nat \ {0} /\ term.at = origin + 0 /\ term.top <= origin + 0
    BY <1>2, <1>4
  <2> QED  BY <1>3, <2>2, <2>3 DEF Shows
<1> QED  BY <1>2, <1>3, <1>4, <1>8, <1>9, <1>10 DEF ScreenInv, ScreenTypes

\* A forced render forgets what was drawn.
LEMMA ForgottenOK ==
  ASSUME Tui!Forced, TermOK(term)
  PROVE  TuiOK(tui') /\ tui'.size = <<-1, -1>> /\ tui'.size \notin {term.size, <<0, 0>>} /\ renderTimer' = FALSE
<1>1. /\ tui' = [lines |-> <<>>, size |-> <<-1, -1>>, cursor |-> 0, top |-> 0, most |-> 0]
      /\ renderTimer' = FALSE
  BY DEF Tui!Forced
<1>2. TuiOK(tui')
  BY <1>1 DEF TuiOK, Unsized
<1>3. term.size # <<-1, -1>>
  BY TermNumbers, SizeOK DEF Unsized
<1> QED  BY <1>1, <1>2, <1>3

\* A callback or a timer renders.
LEMMA RendersOK ==
  ASSUME ScreenInv, ~uiStopped, NEW due, Tui!Renders(due)
  PROVE  ScreenInv'
<1>1. Tui!doRender /\ UNCHANGED <<known, uiStopped>>
  BY DEF Tui!Renders
<1>2. /\ TermOK(term') /\ term'.size = term.size /\ TuiOK(tui') /\ tui'.size = known
      /\ origin' \in Nat \ {0}
      /\ known = term.size => Shows(term', tui'.lines, origin', tui'.cursor, tui'.top)
  BY <1>1, RenderOK
<1>3. known \in Sizes /\ known # <<0, 0>>
  BY SizeOK DEF ScreenInv, ScreenTypes, Unsized
<1> QED  BY <1>1, <1>2, <1>3 DEF ScreenInv, ScreenTypes, InTouch

\* Stopping leaves the terminal, and a line of somebody else, in order.
LEMMA StopOK ==
  ASSUME ScreenInv, Tui!Stop
  PROVE  ScreenInv'
<1>1. /\ uiStopped' = TRUE /\ renderTimer' = FALSE
      /\ term' = Tui!Feed(Tui!Written(IF tui.lines = <<>> THEN term ELSE Tui!Feed(Tui!Below, 1), <<Tui!Shell>>), 1)
      /\ UNCHANGED <<known, tui, origin>>
  BY DEF Tui!Stop
<1>2. TermOK(term) /\ TuiOK(tui) /\ known \in Sizes /\ origin \in Nat \ {0}
  BY DEF ScreenInv, ScreenTypes
<1> DEFINE t == IF tui.lines = <<>> THEN term ELSE Tui!Feed(Tui!Below, 1)
<1>3. TermOK(t)
  <2>1. Len(tui.lines) - tui.cursor \in Int
    <3>1. LinesOK(tui.lines) /\ tui.cursor \in Int
      BY <1>2, ContentsOK DEF TuiOK
    <3> QED  BY <3>1, LineAtOK
  <2>2. TermOK(Tui!Below)
    BY <1>2, <2>1, MoveOK DEF Tui!Below
  <2>3. TermOK(Tui!Feed(Tui!Below, 1))
    BY <2>2, FeedOK
  <2> QED  BY <1>2, <2>3
<1> HIDE DEF t
<1>4. TermOK(Tui!Written(t, <<Tui!Shell>>))
  <2>1. <<Tui!Shell>> \in Seq(Texts) /\ <<Tui!Shell>> # <<>>
    BY DEF Texts
  <2> QED  BY <1>3, <2>1, WrittenOK
<1>5. TermOK(term')
  <2>1. term' = Tui!Feed(Tui!Written(t, <<Tui!Shell>>), 1)
    BY <1>1 DEF t
  <2> QED  BY <1>4, <2>1, FeedOK
<1> QED  BY <1>1, <1>2, <1>5 DEF ScreenInv, ScreenTypes, InTouch

\* Every step keeps the invariant.
LEMMA ScreenStep == ScreenInv /\ [Tui!Next]_(Tui!vars) => ScreenInv'
<1> SUFFICES ASSUME ScreenInv, [Tui!Next]_(Tui!vars) PROVE ScreenInv'
  OBVIOUS
<1>0. /\ TermOK(term) /\ TuiOK(tui) /\ known \in Sizes /\ origin \in Nat \ {0} /\ term.size \in Sizes
      /\ uiStopped => ~renderTimer
  BY TermNumbers DEF ScreenInv, ScreenTypes
<1>1. CASE Tui!RequestRender
  BY <1>1 DEF Tui!RequestRender, Tui!bounds, ScreenInv, ScreenTypes, InTouch
<1>2. CASE Tui!Force
  <2>1. Tui!Forced /\ UNCHANGED <<term, known, uiStopped, origin>>
    BY <1>2 DEF Tui!Force
  <2> QED  BY <1>0, <2>1, ForgottenOK DEF ScreenInv, ScreenTypes, InTouch
<1>3. CASE Tui!ScheduleTick
  <2>1. /\ renderTimer' = (renderTimer \/ (~uiStopped /\ requested))
        /\ UNCHANGED <<term, known, tui, uiStopped, origin>>
    BY <1>3 DEF Tui!ScheduleTick
  <2>2. uiStopped' => ~renderTimer'
    BY <1>0, <2>1
  <2> QED  BY <2>1, <2>2 DEF ScreenInv, ScreenTypes, InTouch
<1>4. CASE Tui!ForceTick
  <2>1. CASE uiStopped \/ ~requested
    BY <1>4, <2>1 DEF Tui!ForceTick, ScreenInv, ScreenTypes, InTouch
  <2>2. CASE ~(uiStopped \/ ~requested)
    BY <1>4, <2>2, RendersOK DEF Tui!ForceTick
  <2> QED  BY <2>1, <2>2
<1>5. CASE Tui!TimerFires
  <2>1. CASE requested
    BY <1>0, <1>5, <2>1, RendersOK DEF Tui!TimerFires
  <2>2. CASE ~requested
    BY <1>5, <2>2 DEF Tui!TimerFires, ScreenInv, ScreenTypes, InTouch
  <2> QED  BY <2>1, <2>2
<1>6. CASE Tui!Resize
  <2>1. PICK size \in Sizes \ {term.size, tui.size} : term' = Tui!Garbled(term, size)
    BY <1>6 DEF Tui!Resize
  <2>2. tui.size[1] # 0 /\ UNCHANGED <<known, tui, renderTimer, uiStopped, origin>>
    BY <1>6 DEF Tui!Resize, Tui!schedule
  <2>3. TermOK(term') /\ term'.size = size
    BY <2>1, GarbledOK
  <2>4. tui.size # <<0, 0>>
    BY <2>2
  <2>5. tui'.size \notin {term'.size, <<0, 0>>}
    BY <2>1, <2>2, <2>3, <2>4
  <2> QED  BY <1>0, <2>2, <2>3, <2>5 DEF ScreenInv, ScreenTypes, InTouch
<1>7. CASE Tui!Winch
  <2>1. known' = term.size /\ UNCHANGED <<term, tui, renderTimer, uiStopped, origin>>
    BY <1>7 DEF Tui!Winch
  <2> QED  BY <1>0, <2>1 DEF ScreenInv, ScreenTypes, InTouch
<1>8. CASE Tui!Stop
  BY <1>8, StopOK
<1>9. CASE Tui!Resume
  <2>1. Tui!Forced /\ UNCHANGED <<term, known, origin>>
    BY <1>9 DEF Tui!Resume
  <2> QED  BY <1>0, <2>1, ForgottenOK DEF ScreenInv, ScreenTypes, InTouch
<1>10. CASE UNCHANGED Tui!vars
  BY <1>10 DEF Tui!vars, Tui!schedule, ScreenInv, ScreenTypes, InTouch
<1> QED
  BY <1>1, <1>2, <1>3, <1>4, <1>5, <1>6, <1>7, <1>8, <1>9, <1>10 DEF Tui!Next, Tui!Callbacks

\* tui.ts: what it remembers of the terminal is true whenever a render for the
\* terminal's size was the last thing that happened to it.
THEOREM ScreenInvariant == Tui!Spec => []ScreenInv
<1>1. Tui!Init => ScreenInv
  BY ScreenInit
<1>2. ScreenInv /\ [Tui!Next]_(Tui!vars) => ScreenInv'
  BY ScreenStep
<1> QED  BY <1>1, <1>2, PTL DEF Tui!Spec

\* tui.ts never reads the terminal and moves the cursor relatively; while the size is the
\* one drawn for and nobody else writes, every row shows its line whichever rows the
\* renders left alone, and the end of the content and the cursor are where they are
\* taken to be.
THEOREM TerminalHolds == Tui!Spec => []TerminalIsKnown
<1>1. ScreenInv => TerminalIsKnown
  <2> SUFFICES ASSUME ScreenInv, tui.size = term.size, ~uiStopped
               PROVE  Tui!EndIsVisible /\ Tui!ScreenIsContent /\ Tui!CursorIsKnown
    BY DEF TerminalIsKnown, Tui!TerminalIsKnown, Tui!EndIsVisible, Tui!ScreenIsContent, Tui!CursorIsKnown,
           Tui!Undisturbed
  <2>1. Shows(term, tui.lines, origin, tui.cursor, tui.top) /\ DOMAIN term.tape = 1 .. Tui!Bottom(term)
    BY TermNumbers DEF ScreenInv, ScreenTypes, InTouch
  <2> QED  BY <2>1 DEF Shows, Tui!EndIsVisible, Tui!ScreenIsContent, Tui!CursorIsKnown
<1> QED  BY <1>1, ScreenInvariant, PTL

-----------------------------------------------------------------------------
-----------------------------------------------------------------------------
(* Sequences of entries *)

\* The entries of those kinds in S were made before those in T.
Before(S, T, kinds) ==
  \A e \in S, f \in T : e[1] \in kinds /\ f[1] \in kinds => e[2] < f[2]

\* The elements of a sequence, and of sequences put together.
LEMMA Elements ==
  ASSUME NEW s \in Seq(Harness!Entry)
  PROVE  /\ Harness!Range(s) = {s[i] : i \in 1 .. Len(s)}
         /\ Harness!Range(s) \subseteq Harness!Entry
         /\ \A i \in DOMAIN s : s[i] \in Harness!Range(s)
         /\ s = <<>> <=> Harness!Range(s) = {}
         /\ \A e \in Harness!Range(s) : e = <<e[1], e[2]>> /\ e[2] \in Nat
<1>1. DOMAIN s = 1 .. Len(s) /\ Len(s) \in Nat /\ \A i \in 1 .. Len(s) : s[i] \in Harness!Entry
  OBVIOUS
<1>2. \A e \in Harness!Entry : e = <<e[1], e[2]>> /\ e[2] \in Nat
  BY DEF Harness!Entry
<1>3. Harness!Range(s) = {s[i] : i \in 1 .. Len(s)}
  BY <1>1 DEF Harness!Range
<1>4. s = <<>> <=> Harness!Range(s) = {}
  <2>1. s # <<>> => 1 \in 1 .. Len(s)
    OBVIOUS
  <2>2. s = <<>> => 1 .. Len(s) = {}
    OBVIOUS
  <2> QED  BY <1>3, <2>1, <2>2
<1>5. Harness!Range(s) \subseteq Harness!Entry /\ \A i \in DOMAIN s : s[i] \in Harness!Range(s)
  BY <1>1, <1>3
<1> QED  BY <1>2, <1>3, <1>4, <1>5

\* The elements of two sequences put together are those of both.
LEMMA ElementsOfConcat ==
  ASSUME NEW s \in Seq(Harness!Entry), NEW t \in Seq(Harness!Entry)
  PROVE  /\ s \o t \in Seq(Harness!Entry)
         /\ Harness!Range(s \o t) = Harness!Range(s) \cup Harness!Range(t)
<1>1. /\ s \o t \in Seq(Harness!Entry) /\ Len(s \o t) = Len(s) + Len(t)
      /\ \A i \in 1 .. Len(s) + Len(t) : (s \o t)[i] = IF i <= Len(s) THEN s[i] ELSE t[i - Len(s)]
  BY ConcatProperties
<1>2. Len(s) \in Nat /\ Len(t) \in Nat
  OBVIOUS
<1>3. \A i \in 1 .. Len(s) : i \in 1 .. Len(s) + Len(t) /\ (s \o t)[i] = s[i]
  BY <1>1, <1>2
<1>4. \A j \in 1 .. Len(t) : j + Len(s) \in 1 .. Len(s) + Len(t) /\ (s \o t)[j + Len(s)] = t[j]
  BY <1>1, <1>2
<1>5. \A i \in 1 .. Len(s) + Len(t) :
        (i \in 1 .. Len(s) /\ (s \o t)[i] = s[i])
        \/ (i - Len(s) \in 1 .. Len(t) /\ (s \o t)[i] = t[i - Len(s)])
  BY <1>1, <1>2
<1>6. /\ Harness!Range(s) = {s[i] : i \in 1 .. Len(s)} /\ Harness!Range(t) = {t[i] : i \in 1 .. Len(t)}
      /\ Harness!Range(s \o t) = {(s \o t)[i] : i \in 1 .. Len(s) + Len(t)}
  BY <1>1, Elements
<1> HIDE DEF Harness!Range
<1>7. Harness!Range(s \o t) \subseteq Harness!Range(s) \cup Harness!Range(t)
  BY <1>5, <1>6
<1>8. Harness!Range(s) \subseteq Harness!Range(s \o t)
  BY <1>3, <1>6
<1>9. Harness!Range(t) \subseteq Harness!Range(s \o t)
  BY <1>4, <1>6
<1> QED  BY <1>1, <1>7, <1>8, <1>9

\* Sequences put together are in order when each is and one is before the other.
LEMMA AscendingConcat ==
  ASSUME NEW s \in Seq(Harness!Entry), NEW t \in Seq(Harness!Entry), NEW kinds
  PROVE  Harness!Ascending(s \o t, kinds) <=>
           /\ Harness!Ascending(s, kinds) /\ Harness!Ascending(t, kinds)
           /\ Before(Harness!Range(s), Harness!Range(t), kinds)
<1> DEFINE u == s \o t
<1>1. /\ u \in Seq(Harness!Entry) /\ Len(u) = Len(s) + Len(t)
      /\ \A i \in 1 .. Len(s) + Len(t) : u[i] = IF i <= Len(s) THEN s[i] ELSE t[i - Len(s)]
  BY ConcatProperties
<1>2. Len(s) \in Nat /\ Len(t) \in Nat
  OBVIOUS
<1>3. \A i \in 1 .. Len(s) : i \in DOMAIN u /\ u[i] = s[i]
  BY <1>1, <1>2
<1>4. \A j \in 1 .. Len(t) : j + Len(s) \in DOMAIN u /\ u[j + Len(s)] = t[j]
  BY <1>1, <1>2
<1>5. \A i \in DOMAIN u : (i \in DOMAIN s /\ u[i] = s[i])
                       \/ (i > Len(s) /\ i - Len(s) \in DOMAIN t /\ u[i] = t[i - Len(s)])
  BY <1>1, <1>2
<1>6. Harness!Range(s) = {s[i] : i \in 1 .. Len(s)} /\ Harness!Range(t) = {t[i] : i \in 1 .. Len(t)}
  BY Elements
<1>7. DOMAIN s = 1 .. Len(s) /\ DOMAIN t = 1 .. Len(t)
  OBVIOUS
<1> HIDE DEF u
<1>8. ASSUME Harness!Ascending(u, kinds)
      PROVE  /\ Harness!Ascending(s, kinds) /\ Harness!Ascending(t, kinds)
             /\ Before(Harness!Range(s), Harness!Range(t), kinds)
  <2>1. \A i, j \in DOMAIN u : i < j /\ u[i][1] \in kinds /\ u[j][1] \in kinds => u[i][2] < u[j][2]
    BY <1>8 DEF Harness!Ascending
  <2>2. Harness!Ascending(s, kinds)
    <3> SUFFICES ASSUME NEW i \in DOMAIN s, NEW j \in DOMAIN s, i < j, s[i][1] \in kinds, s[j][1] \in kinds
                 PROVE  s[i][2] < s[j][2]
      BY DEF Harness!Ascending
    <3>1. i \in DOMAIN u /\ j \in DOMAIN u /\ u[i] = s[i] /\ u[j] = s[j]
      BY <1>3, <1>7
    <3> QED  BY <2>1, <3>1
  <2>3. Harness!Ascending(t, kinds)
    <3> SUFFICES ASSUME NEW i \in DOMAIN t, NEW j \in DOMAIN t, i < j, t[i][1] \in kinds, t[j][1] \in kinds
                 PROVE  t[i][2] < t[j][2]
      BY DEF Harness!Ascending
    <3>1. /\ i + Len(s) \in DOMAIN u /\ j + Len(s) \in DOMAIN u
          /\ u[i + Len(s)] = t[i] /\ u[j + Len(s)] = t[j]
      BY <1>4, <1>7
    <3>2. i + Len(s) < j + Len(s)
      BY <1>2, <1>7
    <3> QED  BY <2>1, <3>1, <3>2
  <2>4. Before(Harness!Range(s), Harness!Range(t), kinds)
    <3> SUFFICES ASSUME NEW i \in DOMAIN s, NEW j \in DOMAIN t, s[i][1] \in kinds, t[j][1] \in kinds
                 PROVE  s[i][2] < t[j][2]
      BY <1>6, <1>7 DEF Before
    <3>1. /\ i \in DOMAIN u /\ j + Len(s) \in DOMAIN u
          /\ u[i] = s[i] /\ u[j + Len(s)] = t[j]
      BY <1>3, <1>4, <1>7
    <3>2. i < j + Len(s)
      BY <1>2, <1>7
    <3> QED  BY <2>1, <3>1, <3>2
  <2> QED  BY <2>2, <2>3, <2>4
<1>9. ASSUME Harness!Ascending(s, kinds), Harness!Ascending(t, kinds),
             Before(Harness!Range(s), Harness!Range(t), kinds)
      PROVE  Harness!Ascending(u, kinds)
  <2> SUFFICES ASSUME NEW i \in DOMAIN u, NEW j \in DOMAIN u, i < j, u[i][1] \in kinds, u[j][1] \in kinds
               PROVE  u[i][2] < u[j][2]
    BY DEF Harness!Ascending
  <2>0. i \in Int /\ j \in Int
    BY <1>1
  <2>1. CASE i \in DOMAIN s /\ u[i] = s[i] /\ j \in DOMAIN s /\ u[j] = s[j]
    BY <1>9, <2>1 DEF Harness!Ascending
  <2>2. CASE i \in DOMAIN s /\ u[i] = s[i] /\ j - Len(s) \in DOMAIN t /\ u[j] = t[j - Len(s)]
    <3>1. s[i] \in Harness!Range(s) /\ t[j - Len(s)] \in Harness!Range(t)
      BY <1>6, <1>7, <2>2
    <3> QED  BY <1>9, <2>2, <3>1 DEF Before
  <2>3. CASE i > Len(s) /\ i - Len(s) \in DOMAIN t /\ u[i] = t[i - Len(s)]
             /\ j - Len(s) \in DOMAIN t /\ u[j] = t[j - Len(s)]
    <3>1. i - Len(s) < j - Len(s)
      BY <1>2, <2>0
    <3> QED  BY <1>9, <2>3, <3>1 DEF Harness!Ascending
  <2>4. ~(i > Len(s) /\ j \in DOMAIN s)
    BY <1>2, <1>7, <2>0
  <2> QED  BY <1>5, <2>1, <2>2, <2>3, <2>4
<1> QED  BY <1>8, <1>9 DEF u

\* A sequence of one entry.
LEMMA Single ==
  ASSUME NEW e \in Harness!Entry
  PROVE  /\ <<e>> \in Seq(Harness!Entry) /\ Harness!Range(<<e>>) = {e}
         /\ \A kinds : Harness!Ascending(<<e>>, kinds)
         /\ \A s \in Seq(Harness!Entry) : Append(s, e) = s \o <<e>>
<1>1. <<e>> \in Seq(Harness!Entry) /\ Len(<<e>>) = 1 /\ <<e>>[1] = e /\ DOMAIN <<e>> = {1}
  OBVIOUS
<1>2. \A s \in Seq(Harness!Entry) : Append(s, e) = s \o <<e>>
  BY AppendIsConcat
<1>3. Harness!Range(<<e>>) = {e}
  BY <1>1 DEF Harness!Range
<1>4. \A kinds : Harness!Ascending(<<e>>, kinds)
  BY <1>1 DEF Harness!Ascending
<1> QED  BY <1>1, <1>2, <1>3, <1>4

\* Nothing is in an empty sequence, and putting it to another changes nothing.
LEMMA Empty ==
  /\ <<>> \in Seq(Harness!Entry) /\ Harness!Range(<<>>) = {}
  /\ \A kinds : Harness!Ascending(<<>>, kinds)
  /\ \A s \in Seq(Harness!Entry) : s \o <<>> = s /\ <<>> \o s = s
  BY DEF Harness!Range, Harness!Ascending

\* The first entry and the rest, the first n and the rest, all but the last and the last.
LEMMA Parts ==
  ASSUME NEW s \in Seq(Harness!Entry), s # <<>>
  PROVE  /\ Head(s) \in Harness!Entry /\ Tail(s) \in Seq(Harness!Entry) /\ s = <<Head(s)>> \o Tail(s)
         /\ Head(s) \in Harness!Range(s)
         /\ \A n \in 1 .. Len(s) :
              /\ SubSeq(s, 1, n) \in Seq(Harness!Entry) /\ SubSeq(s, n + 1, Len(s)) \in Seq(Harness!Entry)
              /\ SubSeq(s, 1, n) # <<>> /\ s = SubSeq(s, 1, n) \o SubSeq(s, n + 1, Len(s))
<1>1. Head(s) \in Harness!Entry /\ Tail(s) \in Seq(Harness!Entry) /\ Len(s) \in Nat \ {0}
  OBVIOUS
<1>2. s = <<Head(s)>> \o Tail(s)
  <2>1. <<Head(s)>> \in Seq(Harness!Entry) /\ Len(<<Head(s)>>) = 1 /\ <<Head(s)>>[1] = s[1]
    BY <1>1
  <2>2. /\ <<Head(s)>> \o Tail(s) \in Seq(Harness!Entry) /\ Len(<<Head(s)>> \o Tail(s)) = Len(s)
        /\ \A i \in 1 .. Len(s) :
             (<<Head(s)>> \o Tail(s))[i] = IF i <= 1 THEN <<Head(s)>>[i] ELSE Tail(s)[i - 1]
    <3>1. Len(Tail(s)) = Len(s) - 1
      BY <1>1
    <3> QED  BY <1>1, <2>1, <3>1, ConcatProperties
  <2>3. \A i \in 1 .. Len(s) : (<<Head(s)>> \o Tail(s))[i] = s[i]
    <3> TAKE i \in 1 .. Len(s)
    <3>1. CASE i = 1
      BY <2>1, <2>2, <3>1
    <3>2. CASE i # 1
      <4>1. i - 1 \in 1 .. Len(Tail(s)) /\ Tail(s)[i - 1] = s[(i - 1) + 1] /\ (i - 1) + 1 = i /\ ~(i <= 1)
        BY <1>1, <3>2
      <4> QED  BY <2>2, <4>1
    <3> QED  BY <3>1, <3>2
  <2> QED  BY <1>1, <2>2, <2>3, SeqEqual
<1>3. Head(s) \in Harness!Range(s)
  BY <1>1, Elements
<1>4. ASSUME NEW n \in 1 .. Len(s)
      PROVE  /\ SubSeq(s, 1, n) \in Seq(Harness!Entry) /\ SubSeq(s, n + 1, Len(s)) \in Seq(Harness!Entry)
             /\ SubSeq(s, 1, n) # <<>> /\ s = SubSeq(s, 1, n) \o SubSeq(s, n + 1, Len(s))
  <2>1. n \in Int /\ n >= 1 /\ n <= Len(s) /\ n + 1 \in Int /\ Len(s) \in Nat
    BY <1>1
  <2>2. /\ \A i \in 1 .. n : s[i] \in Harness!Entry
        /\ \A i \in n + 1 .. Len(s) : s[i] \in Harness!Entry
    BY <2>1
  <2>3. /\ SubSeq(s, 1, n) \in Seq(Harness!Entry)
        /\ Len(SubSeq(s, 1, n)) = IF 1 <= n THEN n - 1 + 1 ELSE 0
    BY <2>1, <2>2, SubSeqProperties
  <2>4. SubSeq(s, n + 1, Len(s)) \in Seq(Harness!Entry)
    BY <2>1, <2>2, SubSeqProperties
  <2>5. Len(SubSeq(s, 1, n)) >= 1
    BY <2>1, <2>3
  <2>6. SubSeq(s, 1, n) \o SubSeq(s, n + 1, Len(s)) = SubSeq(s, 1, Len(s))
    <3>1. 1 \in 1 .. Len(s) + 1 /\ n \in 1 - 1 .. Len(s) /\ Len(s) \in n .. Len(s)
      BY <2>1
    <3> QED  BY <3>1, ConcatAdjacentSubSeq
  <2>7. SubSeq(s, 1, Len(s)) = s
    BY SubSeqFull
  <2>8. SubSeq(s, 1, n) # <<>>
    BY <2>3, <2>5
  <2> QED  BY <2>3, <2>4, <2>6, <2>7, <2>8
<1> QED  BY <1>1, <1>2, <1>3, <1>4

\* An entry at the end of a sequence, and at its beginning.
LEMMA Added ==
  ASSUME NEW s \in Seq(Harness!Entry), NEW e \in Harness!Entry
  PROVE  /\ Append(s, e) \in Seq(Harness!Entry) /\ Harness!Range(Append(s, e)) = Harness!Range(s) \cup {e}
         /\ \A kinds : Harness!Ascending(Append(s, e), kinds) <=>
              Harness!Ascending(s, kinds) /\ Before(Harness!Range(s), {e}, kinds)
         /\ Harness!Range(<<e>> \o s) = {e} \cup Harness!Range(s)
         /\ \A kinds : Harness!Ascending(<<e>> \o s, kinds) <=>
              Harness!Ascending(s, kinds) /\ Before({e}, Harness!Range(s), kinds)
<1>1. Append(s, e) = s \o <<e>>
  BY Single
<1>2. <<e>> \in Seq(Harness!Entry) /\ Harness!Range(<<e>>) = {e}
  BY Single
<1>3. /\ s \o <<e>> \in Seq(Harness!Entry) /\ Harness!Range(s \o <<e>>) = Harness!Range(s) \cup {e}
      /\ Harness!Range(<<e>> \o s) = {e} \cup Harness!Range(s)
  BY <1>2, ElementsOfConcat
<1>4. ASSUME NEW kinds
      PROVE  /\ Harness!Ascending(s \o <<e>>, kinds) <=>
                  Harness!Ascending(s, kinds) /\ Before(Harness!Range(s), {e}, kinds)
             /\ Harness!Ascending(<<e>> \o s, kinds) <=>
                  Harness!Ascending(s, kinds) /\ Before({e}, Harness!Range(s), kinds)
  <2>1. Harness!Ascending(<<e>>, kinds)
    BY Single
  <2>2. Harness!Ascending(s \o <<e>>, kinds) <=>
          /\ Harness!Ascending(s, kinds) /\ Harness!Ascending(<<e>>, kinds)
          /\ Before(Harness!Range(s), Harness!Range(<<e>>), kinds)
    BY <1>2, AscendingConcat
  <2>3. Harness!Ascending(<<e>> \o s, kinds) <=>
          /\ Harness!Ascending(<<e>>, kinds) /\ Harness!Ascending(s, kinds)
          /\ Before(Harness!Range(<<e>>), Harness!Range(s), kinds)
    BY <1>2, AscendingConcat
  <2> QED  BY <1>2, <2>1, <2>2, <2>3
<1> QED  BY <1>1, <1>3, <1>4

-----------------------------------------------------------------------------
(* The harness: the invariant *)

Runs == Harness!Runs
Working(r) == Harness!InProgress(r)

\* While it is idle the harness does one thing at a time.
SerialInv ==
  /\ \A r, s \in Runs : Working(r) /\ Working(s) => r = s
  /\ \A r \in Runs : Working(r) => call = Harness!NoAppend /\ op.at = "none"
  /\ call # Harness!NoAppend => op.at = "none" /\ phase = "idle"
  /\ op.at # "none" <=> phase \in {"compaction", "branch_summary"}

\* Where a run has messages in hand.
Taking == {"announce", "hook", "prompts", "polled", "followed", "inject"}

HandInv(r) ==
  /\ run[r].at \in Taking => run[r].hand # <<>>
  /\ run[r].hand # <<>> => run[r].at \in Taking \cup {"failure"}
  /\ run[r].at = "failure" /\ run[r].writing # Harness!NoAppend => run[r].hand = <<>>
  /\ \A e \in Harness!Range(run[r].hand) : e[1] \in Harness!TextKinds \cup {"prompt"}
  /\ run[r].at = "announce" =>
       \E q \in Seq({"nextTurn"} \X Nat) : run[r].hand = Append(q, <<"prompt", r>>)
  /\ run[r].at = "polled" => run[r].hand \in Seq({"steer"} \X Nat)
  /\ run[r].at = "followed" => run[r].hand \in Seq({"followUp"} \X Nat)

\* What a run is writing, it writes to the end of the path.
WritingInv(r) ==
  run[r].writing # Harness!NoAppend =>
    /\ run[r].writing.path = branch
    /\ \/ run[r].at \in {"prompts", "inject"} /\ run[r].writing.entry = Head(run[r].hand)
       \/ run[r].at \in {"stream", "failure"} /\ run[r].writing.entry = <<"assistant", r>>
       \/ run[r].at \in Harness!Flushing /\ pending # <<>> /\ run[r].writing.entry = Head(pending)

\* From its snapshot to its answer a run works with the path of the session.
ContextInv(r) ==
  run[r].at \in Taking \cup {"poll", "follow", "stream"} => run[r].context = branch

\* A run that reports a failure goes to its end.
FailureInv(r) ==
  /\ run[r].at = "failure" => run[r].terminal
  /\ run[r].terminal =>
       /\ failures >= 1
       /\ run[r].at \in {"failure", "turnEnd", "flushTurn", "flushEnd", "ended", "flushFinal"}

RunInv(r) ==
  /\ ~Working(r) => run[r].hand = <<>> /\ run[r].writing = Harness!NoAppend
  /\ HandInv(r) /\ WritingInv(r) /\ ContextInv(r) /\ FailureInv(r)

\* A run whose agent_end is out leaves the phase as it is, and it takes two failures to leave
\* the harness busy with nothing.
Leaving == {"ended", "flushFinal"}

PhaseInv ==
  phase = "turn" => failures >= 2 \/ \E r \in Runs : Working(r) /\ run[r].at \notin Leaving

\* A prompt that does not reject leaves no write behind.
PendingInv ==
  ~gaveUp /\ phase # "turn" /\ (\A r \in Runs : ~Working(r)) => pending = <<>>

\* What a caller is writing is the last write so far; it too goes to the end of the path.
CallerInv ==
  /\ call # Harness!NoAppend =>
       /\ call.entry \in Harness!WriteKinds \X (1 .. calls) /\ call.path = branch
       /\ \A e \in Harness!Range(accepted) : e[2] < call.entry[2]
  /\ op.at = "append" =>
       op.writing.entry \in {"compaction", "summary"} \X Nat /\ op.writing.path = branch

\* No write is twice in the session, or there and still queued.
OnceInv ==
  /\ \A i, j \in DOMAIN log :
       i # j /\ log[i][1] \in Harness!WriteKinds => log[i] # log[j]
  /\ \A e \in Harness!Range(log) : e \notin Harness!Range(pending)

\* The writes accepted are in the session or queued, in their order, and the last setting
\* of them is the one in use.
WritesInv ==
  /\ Harness!Range(accepted) =
       {e \in Harness!Range(log) : e[1] \in Harness!WriteKinds} \cup Harness!Range(pending)
  /\ Harness!Range(accepted) \subseteq Harness!WriteKinds \X (1 .. calls)
  /\ Harness!Ascending(accepted, Harness!WriteKinds)
  /\ Harness!Ascending(pending, Harness!WriteKinds)
  /\ OnceInv
  /\ ~gaveUp => /\ Harness!Ascending(log, Harness!WriteKinds)
                /\ Before(Harness!Range(log), Harness!Range(pending), Harness!WriteKinds)
  /\ \A e \in Harness!Range(accepted) : e[1] = "model" => e[2] <= model
  /\ model = 0 \/ <<"model", model>> \in Harness!Range(accepted)

InHands(runs) == UNION {Harness!TextsIn(runs[r].hand) : r \in Runs}
Queued == UNION {Harness!Range(queue[k]) : k \in Harness!TextKinds}
Held == InHands(run) \cup Queued \cup Harness!TextsIn(log)

\* Every text is somewhere, and none that is gone is anywhere else.
PlacesInv ==
  /\ sent = gone \cup Held /\ gone \cap Held = {}
  /\ sent \subseteq Harness!TextKinds \X (1 .. calls)

\* The texts of a kind are in the session, then in hand, then queued.
Ordered(entries, hand, waiting, k) ==
  /\ Harness!Ascending(entries, {k}) /\ Harness!Ascending(hand, {k}) /\ Harness!Ascending(waiting, {k})
  /\ Before(Harness!Range(entries), Harness!Range(hand), {k})
  /\ Before(Harness!Range(entries), Harness!Range(waiting), {k})
  /\ Before(Harness!Range(hand), Harness!Range(waiting), {k})

OrderInv ==
  \A k \in Harness!TextKinds :
    queue[k] \in Seq({k} \X Nat) /\ \A r \in Runs : Ordered(log, run[r].hand, queue[k], k)

TextsInv == PlacesInv /\ OrderInv

\* abort() waits for the run that it found, or for one after it.
AbortInv ==
  /\ \A r \in Runs : Working(r) => runPromise = r
  /\ aborter.at = "announce" => \A r \in seen : run[r].at = "done" \/ Working(r)
  /\ aborter.at = "wait" => \A r \in seen : run[r].at = "done" \/ aborter.for = r

HarnessInv ==
  /\ Harness!TypeOK /\ SerialInv /\ (\A r \in Runs : RunInv(r))
  /\ PhaseInv /\ PendingInv /\ CallerInv /\ WritesInv /\ TextsInv /\ AbortInv

-----------------------------------------------------------------------------
(* The steps of a run *)

\* Run r goes on as described, and no other run does anything.
Moved(r, at, hand, context, writing, terminal) ==
  /\ run' \in [Runs -> Harness!RunType]
  /\ \A q \in Runs : q # r => run'[q] = run[q]
  /\ run'[r].at = at /\ run'[r].hand = hand /\ run'[r].context = context
  /\ run'[r].writing = writing /\ run'[r].terminal = terminal

\* What the fields of a run are.
LEMMA RunFields ==
  ASSUME Harness!TypeOK, NEW r \in Runs
  PROVE  /\ run[r] \in Harness!RunType
         /\ run[r].at \in Harness!Labels /\ run[r].hand \in Seq(Harness!Entry)
         /\ run[r].context \in Seq(Harness!Entry) /\ run[r].writing \in Harness!InFlight
         /\ run[r].terminal \in BOOLEAN /\ run[r].answered \in BOOLEAN
<1>1. run[r] \in Harness!RunType
  BY DEF Harness!TypeOK, Runs
<1> QED  BY <1>1 DEF Harness!RunType

\* An append in flight.
LEMMA Appending ==
  ASSUME Harness!TypeOK, NEW e \in Harness!Entry
  PROVE  /\ Harness!AppendOf(e) \in Harness!InFlight
         /\ Harness!AppendOf(e).entry = e /\ Harness!AppendOf(e).path = branch
         /\ \A w \in Harness!InFlight :
              w # Harness!NoAppend => w.entry \in Harness!Entry /\ w.path \in Seq(Harness!Entry)
<1>1. branch \in Seq(Harness!Entry)
  BY DEF Harness!TypeOK
<1> QED  BY <1>1 DEF Harness!AppendOf, Harness!InFlight

\* A run that goes on is as described, at its next label.
LEMMA GoesMoves ==
  ASSUME Harness!TypeOK, NEW r \in Runs, NEW s \in Harness!RunType, NEW next \in Harness!Labels,
         Harness!Goes(r, s, next)
  PROVE  Moved(r, next, s.hand, s.context, s.writing, s.terminal)
<1> DEFINE new == [s EXCEPT !.at = next]
<1>1. run' = [run EXCEPT ![r] = new]
  BY DEF Harness!Goes
<1>2. /\ new \in Harness!RunType /\ new.at = next /\ new.hand = s.hand /\ new.context = s.context
      /\ new.writing = s.writing /\ new.terminal = s.terminal
  BY DEF Harness!RunType
<1>3. run \in [Runs -> Harness!RunType]
  BY DEF Harness!TypeOK, Runs
<1> HIDE DEF new
<1>4. run'[r] = new /\ run' \in [Runs -> Harness!RunType] /\ \A q \in Runs : q # r => run'[q] = run[q]
  BY <1>1, <1>2, <1>3
<1> QED  BY <1>2, <1>4 DEF Moved

\* A run that throws reports the failure, or goes on when it was reporting one.
LEMMA ThrowsMoves ==
  ASSUME Harness!TypeOK, NEW r \in Runs, NEW s \in Harness!RunType, NEW next \in Harness!Labels,
         Harness!Throws(r, s, next)
  PROVE  Moved(r, IF s.terminal THEN next ELSE "failure", s.hand, s.context, s.writing, TRUE)
<1> DEFINE at == IF s.terminal THEN next ELSE "failure"
           new == [s EXCEPT !.at = at, !.terminal = TRUE]
<1>1. run' = [run EXCEPT ![r] = new]
  BY DEF Harness!Throws
<1>0. at \in Harness!Labels
  BY DEF Harness!Labels
<1> HIDE DEF at
<1>2. /\ new \in Harness!RunType /\ new.at = at /\ new.hand = s.hand /\ new.context = s.context
      /\ new.writing = s.writing /\ new.terminal = TRUE
  BY <1>0 DEF Harness!RunType
<1>3. run \in [Runs -> Harness!RunType]
  BY DEF Harness!TypeOK, Runs
<1> HIDE DEF new
<1>4. run'[r] = new /\ run' \in [Runs -> Harness!RunType] /\ \A q \in Runs : q # r => run'[q] = run[q]
  BY <1>1, <1>2, <1>3
<1> QED  BY <1>2, <1>4 DEF Moved, at

\* A failure is counted.
LEMMA FailureCounts ==
  ASSUME Harness!TypeOK, Harness!Failing
  PROVE  failures' \in Nat /\ failures' >= failures /\ failures' >= 1 /\ failures' = failures + 1
BY DEF Harness!TypeOK, Harness!Failing

\* An event is heard, or its listeners fail.
LEMMA EmitsMoves ==
  ASSUME Harness!TypeOK, NEW r \in Runs, NEW s \in Harness!RunType, NEW next \in Harness!Labels,
         Harness!Emits(r, s, next)
  PROVE  /\ failures' \in Nat /\ failures' >= failures
         /\ \E at \in Harness!Labels, terminal \in BOOLEAN :
              /\ Moved(r, at, s.hand, s.context, s.writing, terminal)
              /\ \/ at = next /\ terminal = s.terminal
                 \/ at = "failure" /\ terminal /\ ~s.terminal /\ failures' >= 1
                 \/ at = next /\ terminal /\ s.terminal /\ failures' = failures + 1
<1>0. s.terminal \in BOOLEAN /\ "failure" \in Harness!Labels
  BY DEF Harness!RunType, Harness!Labels
<1>1. CASE Harness!Goes(r, s, next) /\ UNCHANGED failures
  <2>1. Moved(r, next, s.hand, s.context, s.writing, s.terminal)
    BY <1>1, GoesMoves
  <2>2. failures' \in Nat /\ failures' >= failures
    BY <1>1 DEF Harness!TypeOK
  <2> QED  BY <1>0, <2>1, <2>2
<1>2. CASE Harness!Failing /\ Harness!Throws(r, s, next)
  <2>1. Moved(r, IF s.terminal THEN next ELSE "failure", s.hand, s.context, s.writing, TRUE)
    BY <1>2, ThrowsMoves
  <2>2. failures' \in Nat /\ failures' >= failures /\ failures' >= 1 /\ failures' = failures + 1
    BY <1>2, FailureCounts
  <2>3. CASE s.terminal
    BY <2>1, <2>2, <2>3
  <2>4. CASE ~s.terminal
    BY <1>0, <2>1, <2>2, <2>4
  <2> QED  BY <2>3, <2>4
<1> QED  BY <1>1, <1>2 DEF Harness!Emits

\* A run that reports no failure goes on, or to report this one.
LEMMA EmitsOrFails ==
  ASSUME Harness!TypeOK, NEW r \in Runs, NEW s \in Harness!RunType, NEW next \in Harness!Labels,
         Harness!Emits(r, s, next), ~s.terminal
  PROVE  /\ failures' \in Nat
         /\ \/ Moved(r, next, s.hand, s.context, s.writing, FALSE)
            \/ Moved(r, "failure", s.hand, s.context, s.writing, TRUE) /\ failures' >= 1
<1>0. s.terminal = FALSE
  BY DEF Harness!RunType
<1>1. CASE Harness!Goes(r, s, next) /\ UNCHANGED failures
  <2>1. Moved(r, next, s.hand, s.context, s.writing, s.terminal)
    BY <1>1, GoesMoves
  <2> QED  BY <1>0, <1>1, <2>1 DEF Harness!TypeOK
<1>2. CASE Harness!Failing /\ Harness!Throws(r, s, next)
  <2>1. Moved(r, IF s.terminal THEN next ELSE "failure", s.hand, s.context, s.writing, TRUE)
    BY <1>2, ThrowsMoves
  <2> QED  BY <1>0, <1>2, <2>1, FailureCounts
<1> QED  BY <1>1, <1>2 DEF Harness!Emits

-----------------------------------------------------------------------------
(* What the writes and the texts do *)

\* What the sequences of the session and the queued writes consist of.
LEMMA EntryTypes ==
  ASSUME Harness!TypeOK
  PROVE  /\ log \in Seq(Harness!Entry) /\ pending \in Seq(Harness!Entry) /\ accepted \in Seq(Harness!Entry)
         /\ pending \in Seq(Harness!WriteKinds \X Nat)
         /\ \A e \in Harness!Range(pending) : e[1] \in Harness!WriteKinds
<1>1. /\ log \in Seq(Harness!Entry) /\ accepted \in Seq(Harness!Entry)
      /\ pending \in Seq(Harness!WriteKinds \X Nat)
  BY DEF Harness!TypeOK
<1>2. Harness!WriteKinds \X Nat \subseteq Harness!Entry
  BY DEF Harness!Entry
<1>3. pending \in Seq(Harness!Entry)
  BY <1>1, <1>2, SeqMonotonic
<1>4. \A e \in Harness!Range(pending) : e[1] \in Harness!WriteKinds
  BY <1>1 DEF Harness!Range
<1> QED  BY <1>1, <1>3, <1>4

\* The writes are kept by a step that touches none of them.
LEMMA WritesStay ==
  ASSUME Harness!TypeOK, WritesInv, UNCHANGED <<log, pending, accepted, model>>,
         calls' \in Nat, calls' >= calls, gaveUp => gaveUp'
  PROVE  WritesInv'
<1>1. calls \in Nat
  BY DEF Harness!TypeOK
<1>2. 1 .. calls \subseteq 1 .. calls'
  BY <1>1
<1>3. Harness!Range(accepted) \subseteq Harness!WriteKinds \X (1 .. calls')
  BY <1>2 DEF WritesInv
<1> QED  BY <1>3 DEF WritesInv, OnceInv

\* An entry that is no write is added to the session.
LEMMA WritesBeside ==
  ASSUME Harness!TypeOK, WritesInv, NEW e \in Harness!Entry, e[1] \notin Harness!WriteKinds,
         log' = Append(log, e), UNCHANGED <<pending, accepted, model, calls, gaveUp>>
  PROVE  WritesInv'
<1> /\ log \in Seq(Harness!Entry) /\ pending \in Seq(Harness!Entry) /\ accepted \in Seq(Harness!Entry)
    /\ \A f \in Harness!Range(pending) : f[1] \in Harness!WriteKinds
  BY EntryTypes
<1>1. log' = Append(log, e)
  OBVIOUS
<1>2. Harness!Range(log') = Harness!Range(log) \cup {e}
  BY <1>1, Added
<1>3. {f \in Harness!Range(log') : f[1] \in Harness!WriteKinds} =
        {f \in Harness!Range(log) : f[1] \in Harness!WriteKinds}
  BY <1>2
<1>4. e \notin Harness!Range(pending)
  OBVIOUS
<1>5. OnceInv'
  <2>1. \A i, j \in DOMAIN log' :
          i # j /\ log'[i][1] \in Harness!WriteKinds => log'[i] # log'[j]
    <3> SUFFICES ASSUME NEW i \in DOMAIN log', NEW j \in DOMAIN log', i # j,
                        log'[i][1] \in Harness!WriteKinds
                 PROVE  log'[i] # log'[j]
      OBVIOUS
    <3>1. /\ DOMAIN log' = 1 .. Len(log) + 1 /\ DOMAIN log = 1 .. Len(log) /\ Len(log) \in Nat
          /\ log'[Len(log) + 1] = e /\ \A m \in 1 .. Len(log) : log'[m] = log[m]
      OBVIOUS
    <3>2. i \in DOMAIN log
      BY <3>1
    <3>3. CASE j \in DOMAIN log
      BY <3>1, <3>2, <3>3 DEF WritesInv, OnceInv
    <3>4. CASE j \notin DOMAIN log
      BY <3>1, <3>2, <3>4
    <3> QED  BY <3>3, <3>4
  <2>2. \A f \in Harness!Range(log') : f \notin Harness!Range(pending')
    BY <1>2, <1>4 DEF WritesInv, OnceInv
  <2> QED  BY <2>1, <2>2 DEF OnceInv
<1>6. ~gaveUp' => /\ Harness!Ascending(log', Harness!WriteKinds)
                 /\ Before(Harness!Range(log'), Harness!Range(pending'), Harness!WriteKinds)
  <2> SUFFICES ASSUME ~gaveUp' PROVE /\ Harness!Ascending(log', Harness!WriteKinds)
                 /\ Before(Harness!Range(log'), Harness!Range(pending'), Harness!WriteKinds)
    OBVIOUS
  <2>1. /\ Harness!Ascending(log, Harness!WriteKinds)
        /\ Before(Harness!Range(log), Harness!Range(pending), Harness!WriteKinds)
    BY DEF WritesInv
  <2>2. Before(Harness!Range(log), {e}, Harness!WriteKinds)
    BY DEF Before
  <2>3. Harness!Ascending(log', Harness!WriteKinds)
    <3>1. Harness!Ascending(Append(log, e), Harness!WriteKinds) <=>
            /\ Harness!Ascending(log, Harness!WriteKinds)
            /\ Before(Harness!Range(log), {e}, Harness!WriteKinds)
      BY Added
    <3> QED  BY <1>1, <2>1, <2>2, <3>1
  <2>4. Before(Harness!Range(log'), Harness!Range(pending'), Harness!WriteKinds)
    BY <1>2, <2>1 DEF Before
  <2> QED  BY <2>3, <2>4
<1> QED  BY <1>3, <1>5, <1>6 DEF WritesInv

\* The first of the queued writes is added to the session.
LEMMA WritesFlushed ==
  ASSUME Harness!TypeOK, WritesInv, pending # <<>>, log' = Append(log, Head(pending)),
         pending' = Tail(pending), UNCHANGED <<accepted, model, calls, gaveUp>>
  PROVE  WritesInv'
<1> /\ log \in Seq(Harness!Entry) /\ pending \in Seq(Harness!Entry) /\ accepted \in Seq(Harness!Entry)
    /\ \A f \in Harness!Range(pending) : f[1] \in Harness!WriteKinds
  BY EntryTypes
<1> DEFINE e == Head(pending)
           rest == Tail(pending)
           W == Harness!WriteKinds
<1>0. e \in Harness!Entry /\ rest \in Seq(Harness!Entry) /\ pending = <<e>> \o rest
  BY Parts
<1>1. log' = Append(log, e)
  OBVIOUS
<1> HIDE DEF e, rest, W
<1>2. /\ Harness!Range(log') = Harness!Range(log) \cup {e}
      /\ Harness!Range(pending) = {e} \cup Harness!Range(rest)
  BY <1>0, <1>1, Added
<1>3. e[1] \in W /\ \A f \in Harness!Range(rest) : f[1] \in W
  BY <1>2 DEF W
<1>4. /\ Harness!Ascending(rest, W) /\ Before({e}, Harness!Range(rest), W)
  <2>1. Harness!Ascending(<<e>> \o rest, W)
    BY <1>0 DEF WritesInv, W
  <2> QED  BY <1>0, <2>1, Added
<1>5. e \notin Harness!Range(rest) /\ e \notin Harness!Range(log)
  <2>1. e[2] \in Nat
    BY <1>0 DEF Harness!Entry
  <2>2. e \notin Harness!Range(rest)
    BY <1>3, <1>4, <2>1 DEF Before
  <2> QED  BY <1>2, <2>2 DEF WritesInv, OnceInv
<1>6. OnceInv'
  <2>1. \A i, j \in DOMAIN log' : i # j /\ log'[i][1] \in W => log'[i] # log'[j]
    <3> SUFFICES ASSUME NEW i \in DOMAIN log', NEW j \in DOMAIN log', i # j, log'[i][1] \in W
                 PROVE  log'[i] # log'[j]
      OBVIOUS
    <3>1. /\ DOMAIN log' = 1 .. Len(log) + 1 /\ DOMAIN log = 1 .. Len(log) /\ Len(log) \in Nat
          /\ log'[Len(log) + 1] = e /\ \A m \in 1 .. Len(log) : log'[m] = log[m]
      BY <1>0 DEF e
    <3>2. \A m \in DOMAIN log : log[m] # e
      BY <1>5, Elements
    <3>3. CASE i \in DOMAIN log /\ j \in DOMAIN log
      BY <3>1, <3>3 DEF WritesInv, OnceInv, W
    <3>4. CASE i \notin DOMAIN log
      <4>1. i = Len(log) + 1 /\ j \in DOMAIN log
        BY <3>1, <3>4
      <4> QED  BY <3>1, <3>2, <4>1
    <3>5. CASE j \notin DOMAIN log
      <4>1. j = Len(log) + 1 /\ i \in DOMAIN log
        BY <3>1, <3>5
      <4> QED  BY <3>1, <3>2, <4>1
    <3> QED  BY <3>3, <3>4, <3>5
  <2>2. \A f \in Harness!Range(log') : f \notin Harness!Range(rest)
    BY <1>2, <1>5 DEF WritesInv, OnceInv
  <2> QED  BY <2>1, <2>2 DEF OnceInv, W, rest
<1>7. ~gaveUp' => /\ Harness!Ascending(log', W) /\ Before(Harness!Range(log'), Harness!Range(rest), W)
  <2> SUFFICES ASSUME ~gaveUp'
               PROVE  /\ Harness!Ascending(log', W) /\ Before(Harness!Range(log'), Harness!Range(rest), W)
    OBVIOUS
  <2>1. Harness!Ascending(log, W) /\ Before(Harness!Range(log), Harness!Range(pending), W)
    BY DEF WritesInv, W
  <2>2. Before(Harness!Range(log), {e}, W)
    BY <1>0, <1>2, <2>1 DEF Before
  <2>3. Harness!Ascending(log', W)
    BY <1>0, <1>1, <2>1, <2>2, Added
  <2>4. Before(Harness!Range(log'), Harness!Range(rest), W)
    BY <1>2, <1>4, <2>1 DEF Before
  <2> QED  BY <2>3, <2>4
<1>8. {f \in Harness!Range(log') : f[1] \in W} \cup Harness!Range(rest) =
        {f \in Harness!Range(log) : f[1] \in W} \cup Harness!Range(pending)
  BY <1>2, <1>3
<1> QED  BY <1>4, <1>6, <1>7, <1>8 DEF WritesInv, rest, W

\* A busy harness queues a write and takes the setting.
LEMMA WritesQueued ==
  ASSUME Harness!TypeOK, WritesInv, NEW k \in Harness!WriteKinds, calls' = calls + 1,
         pending' = Append(pending, <<k, calls'>>), accepted' = Append(accepted, <<k, calls'>>),
         model' = IF k = "model" THEN calls' ELSE model, UNCHANGED <<log, gaveUp>>
  PROVE  WritesInv'
<1> /\ log \in Seq(Harness!Entry) /\ pending \in Seq(Harness!Entry) /\ accepted \in Seq(Harness!Entry)
    /\ \A f \in Harness!Range(pending) : f[1] \in Harness!WriteKinds
  BY EntryTypes
<1> DEFINE e == <<k, calls'>>
           W == Harness!WriteKinds
<1>0. /\ calls \in Nat /\ calls' \in Nat \ {0} /\ model \in Nat /\ e \in Harness!Entry
      /\ e[1] = k /\ e[2] = calls' /\ k \in W
  BY DEF Harness!TypeOK, Harness!Entry
<1>1. pending' = Append(pending, e) /\ accepted' = Append(accepted, e) /\ e = <<k, calls'>>
  OBVIOUS
<1> HIDE DEF e, W
<1>2. /\ Harness!Range(pending') = Harness!Range(pending) \cup {e}
      /\ Harness!Range(accepted') = Harness!Range(accepted) \cup {e}
  BY <1>0, <1>1, Added
<1>3. \A f \in Harness!Range(accepted) : f \in W \X (1 .. calls) /\ f[2] < calls' /\ f # e
  <2>1. \A f \in Harness!Range(accepted) : f \in W \X (1 .. calls)
    BY DEF WritesInv, W
  <2>2. \A f \in Harness!Range(accepted) : f[2] \in Nat /\ f[2] <= calls
    BY <1>0, <2>1
  <2> QED  BY <1>0, <2>1, <2>2
<1>4. /\ Harness!Range(accepted) =
           {f \in Harness!Range(log) : f[1] \in W} \cup Harness!Range(pending)
      /\ Harness!Ascending(accepted, W) /\ Harness!Ascending(pending, W) /\ OnceInv
  BY DEF WritesInv, W
<1>5. /\ Before(Harness!Range(accepted), {e}, W)
      /\ Before(Harness!Range(pending), {e}, W)
      /\ Before(Harness!Range(log), {e}, W)
  BY <1>0, <1>3, <1>4 DEF Before
<1>6. Harness!Ascending(accepted', W) /\ Harness!Ascending(pending', W)
  <2>1. /\ Harness!Ascending(Append(accepted, e), W) <=>
             Harness!Ascending(accepted, W) /\ Before(Harness!Range(accepted), {e}, W)
        /\ Harness!Ascending(Append(pending, e), W) <=>
             Harness!Ascending(pending, W) /\ Before(Harness!Range(pending), {e}, W)
    BY <1>0, Added
  <2> QED  BY <1>1, <1>4, <1>5, <2>1
<1>7. OnceInv'
  <2>1. \A f \in Harness!Range(log) : f # e
    BY <1>0, <1>3, <1>4
  <2> QED  BY <1>2, <1>4, <2>1 DEF OnceInv
<1>8. ~gaveUp' => /\ Harness!Ascending(log', W)
                 /\ Before(Harness!Range(log'), Harness!Range(pending'), W)
  BY <1>0, <1>2, <1>5 DEF WritesInv, Before, W
<1>9. Harness!Range(accepted') \subseteq W \X (1 .. calls')
  <2>1. 1 .. calls \subseteq 1 .. calls' /\ calls' \in 1 .. calls'
    BY <1>0
  <2>2. e \in W \X (1 .. calls')
    BY <1>0, <1>1, <2>1
  <2> QED  BY <1>2, <1>3, <2>1, <2>2
<1>10. /\ \A f \in Harness!Range(accepted') : f[1] = "model" => f[2] <= model'
       /\ model' = 0 \/ <<"model", model'>> \in Harness!Range(accepted')
  <2>1. CASE k = "model"
    <3>1. model' = calls' /\ e = <<"model", model'>>
      BY <1>1, <2>1
    <3>2. \A f \in Harness!Range(accepted) : f[2] \in Nat /\ f[2] < calls'
      BY <1>3, <1>0
    <3>3. \A f \in Harness!Range(accepted') : f[2] <= calls'
      <4> SUFFICES ASSUME NEW f \in Harness!Range(accepted') PROVE f[2] <= calls'
        OBVIOUS
      <4>1. CASE f \in Harness!Range(accepted)
        <5>1. f[2] \in Nat /\ f[2] < calls'
          BY <3>2, <4>1
        <5> QED  BY <1>0, <5>1
      <4>2. CASE f = e
        BY <1>0, <4>2
      <4> QED  BY <1>2, <4>1, <4>2
    <3>4. e \in Harness!Range(accepted')
      BY <1>2
    <3> QED  BY <3>1, <3>3, <3>4
  <2>2. CASE k # "model"
    BY <1>0, <1>2, <2>2 DEF WritesInv
  <2> QED  BY <2>1, <2>2
<1>11. Harness!Range(accepted') =
         {f \in Harness!Range(log') : f[1] \in W} \cup Harness!Range(pending')
  BY <1>2, <1>4
<1> QED  BY <1>6, <1>7, <1>8, <1>9, <1>10, <1>11 DEF WritesInv, W

\* The write of a caller that found the harness idle is done.
LEMMA WritesDone ==
  ASSUME Harness!TypeOK, WritesInv, NEW e \in Harness!WriteKinds \X (1 .. calls),
         \A f \in Harness!Range(accepted) : f[2] < e[2], ~gaveUp => pending = <<>>,
         log' = Append(log, e), accepted' = Append(accepted, e),
         model' = IF e[1] = "model" THEN e[2] ELSE model, UNCHANGED <<pending, calls, gaveUp>>
  PROVE  WritesInv'
<1> /\ log \in Seq(Harness!Entry) /\ pending \in Seq(Harness!Entry) /\ accepted \in Seq(Harness!Entry)
    /\ \A f \in Harness!Range(pending) : f[1] \in Harness!WriteKinds
  BY EntryTypes
<1> DEFINE W == Harness!WriteKinds
<1>0. /\ calls \in Nat /\ model \in Nat /\ e \in Harness!Entry /\ e[2] \in Nat /\ e = <<e[1], e[2]>>
      /\ e[1] \in W /\ e[2] \in 1 .. calls
  BY DEF Harness!TypeOK, Harness!Entry
<1>1. log' = Append(log, e) /\ accepted' = Append(accepted, e)
  OBVIOUS
<1> HIDE DEF W
<1>2. /\ Harness!Range(log') = Harness!Range(log) \cup {e}
      /\ Harness!Range(accepted') = Harness!Range(accepted) \cup {e}
  BY <1>0, <1>1, Added
<1>3. \A f \in Harness!Range(accepted) : f \in W \X (1 .. calls) /\ f[2] \in Nat /\ f[2] < e[2] /\ f # e
  <2>1. \A f \in Harness!Range(accepted) : f \in W \X (1 .. calls)
    BY DEF WritesInv, W
  <2> QED  BY <1>0, <2>1
<1>4. /\ Harness!Range(accepted) =
           {f \in Harness!Range(log) : f[1] \in W} \cup Harness!Range(pending)
      /\ Harness!Ascending(accepted, W) /\ Harness!Ascending(pending, W) /\ OnceInv
  BY DEF WritesInv, W
<1>5. /\ Before(Harness!Range(accepted), {e}, W)
      /\ Before(Harness!Range(log), {e}, W)
  BY <1>0, <1>3, <1>4 DEF Before
<1>6. Harness!Ascending(accepted', W)
  <2>1. Harness!Ascending(Append(accepted, e), W) <=>
          Harness!Ascending(accepted, W) /\ Before(Harness!Range(accepted), {e}, W)
    BY <1>0, Added
  <2> QED  BY <1>1, <1>4, <1>5, <2>1
<1>7. \A f \in Harness!Range(log) : f # e
  BY <1>0, <1>3, <1>4
<1>8. OnceInv'
  <2>1. \A i, j \in DOMAIN log' : i # j /\ log'[i][1] \in W => log'[i] # log'[j]
    <3> SUFFICES ASSUME NEW i \in DOMAIN log', NEW j \in DOMAIN log', i # j, log'[i][1] \in W
                 PROVE  log'[i] # log'[j]
      OBVIOUS
    <3>1. /\ DOMAIN log' = 1 .. Len(log) + 1 /\ DOMAIN log = 1 .. Len(log) /\ Len(log) \in Nat
          /\ log'[Len(log) + 1] = e /\ \A m \in 1 .. Len(log) : log'[m] = log[m]
      BY <1>0
    <3>2. \A m \in DOMAIN log : log[m] # e
      BY <1>7, Elements
    <3>3. CASE i \in DOMAIN log /\ j \in DOMAIN log
      BY <1>4, <3>1, <3>3 DEF OnceInv, W
    <3>4. CASE i \notin DOMAIN log
      <4>1. i = Len(log) + 1 /\ j \in DOMAIN log
        BY <3>1, <3>4
      <4> QED  BY <3>1, <3>2, <4>1
    <3>5. CASE j \notin DOMAIN log
      <4>1. j = Len(log) + 1 /\ i \in DOMAIN log
        BY <3>1, <3>5
      <4> QED  BY <3>1, <3>2, <4>1
    <3> QED  BY <3>3, <3>4, <3>5
  <2>2. \A f \in Harness!Range(log') : f \notin Harness!Range(pending')
    BY <1>2, <1>3, <1>4 DEF OnceInv
  <2> QED  BY <2>1, <2>2 DEF OnceInv, W
<1>9. ~gaveUp' => /\ Harness!Ascending(log', W)
                 /\ Before(Harness!Range(log'), Harness!Range(pending'), W)
  <2> SUFFICES ASSUME ~gaveUp' PROVE /\ Harness!Ascending(log', W)
                 /\ Before(Harness!Range(log'), Harness!Range(pending'), W)
    OBVIOUS
  <2>1. Harness!Ascending(log, W) /\ pending' = <<>>
    BY DEF WritesInv, W
  <2>2. Harness!Ascending(log', W)
    BY <1>0, <1>1, <1>5, <2>1, Added
  <2> QED  BY <2>1, <2>2, Empty DEF Before
<1>10. Harness!Range(accepted') \subseteq W \X (1 .. calls')
  BY <1>2, <1>3, <1>0 DEF W
<1>11. /\ \A f \in Harness!Range(accepted') : f[1] = "model" => f[2] <= model'
       /\ model' = 0 \/ <<"model", model'>> \in Harness!Range(accepted')
  <2>1. CASE e[1] = "model"
    <3>1. model' = e[2] /\ e = <<"model", model'>>
      BY <1>0, <2>1
    <3> QED  BY <1>0, <1>2, <1>3, <3>1
  <2>2. CASE e[1] # "model"
    BY <1>0, <1>2, <2>2 DEF WritesInv
  <2> QED  BY <2>1, <2>2
<1>12. Harness!Range(accepted') =
         {f \in Harness!Range(log') : f[1] \in W} \cup Harness!Range(pending')
  BY <1>0, <1>2, <1>4
<1> QED  BY <1>4, <1>6, <1>8, <1>9, <1>10, <1>11, <1>12 DEF WritesInv, W

\* Texts of one kind.
LEMMA OneKind ==
  ASSUME NEW k \in Harness!TextKinds, NEW x \in Seq({k} \X Nat)
  PROVE  /\ x \in Seq(Harness!Entry) /\ \A e \in Harness!Range(x) : e[1] = k /\ e[2] \in Nat
         /\ Harness!TextsIn(x) = Harness!Range(x)
<1>1. {k} \X Nat \subseteq Harness!Entry
  BY DEF Harness!Entry
<1>2. x \in Seq(Harness!Entry)
  BY <1>1, SeqMonotonic
<1>3. \A e \in Harness!Range(x) : e \in {k} \X Nat
  BY DEF Harness!Range
<1>4. \A e \in Harness!Range(x) : e[1] = k /\ e[2] \in Nat
  BY <1>3
<1>5. Harness!TextsIn(x) = Harness!Range(x)
  BY <1>4 DEF Harness!TextsIn
<1> QED  BY <1>2, <1>4, <1>5

\* A queue has messages of its kind only.
LEMMA QueueTypes ==
  ASSUME OrderInv, NEW k \in Harness!TextKinds
  PROVE  /\ queue[k] \in Seq({k} \X Nat) /\ queue[k] \in Seq(Harness!Entry)
         /\ \A e \in Harness!Range(queue[k]) : e[1] = k /\ e[2] \in Nat
<1>1. queue[k] \in Seq({k} \X Nat)
  BY DEF OrderInv
<1> QED  BY <1>1, OneKind

\* The queues hold what the three of them hold.
LEMMA QueuesAre ==
  /\ Queued = Harness!Range(queue["steer"]) \cup Harness!Range(queue["followUp"])
                \cup Harness!Range(queue["nextTurn"])
  /\ Queued' = Harness!Range(queue'["steer"]) \cup Harness!Range(queue'["followUp"])
                 \cup Harness!Range(queue'["nextTurn"])
  /\ "steer" \in Harness!TextKinds /\ "followUp" \in Harness!TextKinds /\ "nextTurn" \in Harness!TextKinds
BY DEF Queued, Harness!TextKinds

\* One run alone has texts in hand.
LEMMA HandsOfOne ==
  ASSUME NEW runs, NEW r \in Runs, \A q \in Runs : q # r => runs[q].hand = <<>>
  PROVE  InHands(runs) = Harness!TextsIn(runs[r].hand)
<1>1. Harness!TextsIn(<<>>) = {}
  BY DEF Harness!TextsIn, Harness!Range
<1>2. \A q \in Runs : q = r \/ Harness!TextsIn(runs[q].hand) = {}
  BY <1>1
<1> HIDE DEF Harness!TextsIn
<1> QED  BY <1>2 DEF InHands

\* Texts change places, those in forgotten are gone.
LEMMA PlacesMove ==
  ASSUME Harness!TypeOK, PlacesInv, NEW forgotten, gone' = gone \cup forgotten, sent' = sent, calls' = calls,
         forgotten \cup Held' = Held, forgotten \cap Held' = {}
  PROVE  PlacesInv'
BY DEF PlacesInv

\* With no texts in hand but those of r, the order is that of the texts of r.
LEMMA OrderOfOne ==
  ASSUME NEW r \in Runs, \A q \in Runs : q # r => run'[q].hand = <<>>,
         \A k \in Harness!TextKinds :
           queue'[k] \in Seq({k} \X Nat) /\ Ordered(log', run'[r].hand, queue'[k], k)
  PROVE  OrderInv'
<1> SUFFICES ASSUME NEW k \in Harness!TextKinds
             PROVE  queue'[k] \in Seq({k} \X Nat) /\ \A q \in Runs : Ordered(log', run'[q].hand, queue'[k], k)
  BY DEF OrderInv
<1>1. queue'[k] \in Seq({k} \X Nat) /\ Ordered(log', run'[r].hand, queue'[k], k)
  OBVIOUS
<1>2. ASSUME NEW q \in Runs, q # r PROVE Ordered(log', run'[q].hand, queue'[k], k)
  <2>1. run'[q].hand = <<>>
    BY <1>2
  <2> QED  BY <1>1, <2>1, Empty DEF Ordered, Before
<1> QED  BY <1>1, <1>2

\* The messages are kept by a step that moves none of them.
LEMMA TextsStay ==
  ASSUME Harness!TypeOK, TextsInv, UNCHANGED <<log, queue, sent, gone>>,
         \A q \in Runs : run'[q].hand = run[q].hand, calls' \in Nat, calls' >= calls
  PROVE  TextsInv'
<1>1. InHands(run') = InHands(run)
  BY DEF InHands
<1>2. Held' = Held
  BY <1>1 DEF Held, Queued
<1>3. 1 .. calls \subseteq 1 .. calls'
  BY DEF Harness!TypeOK
<1>4. PlacesInv'
  BY <1>2, <1>3 DEF TextsInv, PlacesInv
<1>5. OrderInv'
  BY DEF TextsInv, OrderInv
<1> QED  BY <1>4, <1>5 DEF TextsInv

\* An entry that is no text is added to the session.
LEMMA TextsBeside ==
  ASSUME Harness!TypeOK, TextsInv, NEW e \in Harness!Entry, e[1] \notin Harness!TextKinds,
         log' = Append(log, e), UNCHANGED <<queue, sent, gone, calls>>,
         \A q \in Runs : run'[q].hand = run[q].hand
  PROVE  TextsInv'
<1>0. log \in Seq(Harness!Entry)
  BY EntryTypes
<1>1. Harness!Range(log') = Harness!Range(log) \cup {e}
  BY <1>0, Added
<1>2. Harness!TextsIn(log') = Harness!TextsIn(log)
  BY <1>1 DEF Harness!TextsIn
<1>3. InHands(run') = InHands(run)
  BY DEF InHands
<1>4. Held' = Held
  BY <1>2, <1>3 DEF Held, Queued
<1>5. PlacesInv'
  BY <1>4 DEF TextsInv, PlacesInv
<1>6. OrderInv'
  <2> SUFFICES ASSUME NEW k \in Harness!TextKinds
               PROVE  queue'[k] \in Seq({k} \X Nat) /\ \A q \in Runs : Ordered(log', run'[q].hand, queue'[k], k)
    BY DEF OrderInv
  <2>1. queue'[k] \in Seq({k} \X Nat)
    BY DEF TextsInv, OrderInv
  <2>2. ASSUME NEW q \in Runs PROVE Ordered(log', run'[q].hand, queue'[k], k)
    <3>1. Ordered(log, run[q].hand, queue[k], k)
      BY DEF TextsInv, OrderInv
    <3>2. Before(Harness!Range(log), {e}, {k})
      BY DEF Before
    <3>3. Harness!Ascending(Append(log, e), {k}) <=>
            Harness!Ascending(log, {k}) /\ Before(Harness!Range(log), {e}, {k})
      BY <1>0, Added
    <3>4. Harness!Ascending(log', {k})
      BY <3>1, <3>2, <3>3 DEF Ordered
    <3> QED  BY <1>1, <3>1, <3>4 DEF Ordered, Before
  <2> QED  BY <2>1, <2>2
<1> QED  BY <1>5, <1>6 DEF TextsInv

\* The first of the messages in hand enters the session.
LEMMA TextsEnter ==
  ASSUME Harness!TypeOK, TextsInv, NEW r \in Runs, run[r].hand \in Seq(Harness!Entry), run[r].hand # <<>>,
         \A q \in Runs : q # r => run[q].hand = <<>> /\ run'[q].hand = <<>>,
         log' = Append(log, Head(run[r].hand)), run'[r].hand = Tail(run[r].hand),
         UNCHANGED <<queue, sent, gone, calls>>
  PROVE  TextsInv'
<1> DEFINE m == Head(run[r].hand)
           rest == Tail(run[r].hand)
<1>0. /\ log \in Seq(Harness!Entry) /\ m \in Harness!Entry /\ rest \in Seq(Harness!Entry)
      /\ run[r].hand = <<m>> \o rest /\ log' = Append(log, m) /\ run'[r].hand = rest
  BY EntryTypes, Parts
<1> HIDE DEF m, rest
<1>1. /\ Harness!Range(log') = Harness!Range(log) \cup {m}
      /\ Harness!Range(run[r].hand) = {m} \cup Harness!Range(rest)
  BY <1>0, Added
<1>2. /\ InHands(run) = Harness!TextsIn(run[r].hand) /\ InHands(run') = Harness!TextsIn(rest)
  BY <1>0, HandsOfOne
<1>3. Held' = Held
  <2>1. Harness!TextsIn(run[r].hand) \cup Harness!TextsIn(log) = Harness!TextsIn(rest) \cup Harness!TextsIn(log')
    BY <1>1 DEF Harness!TextsIn
  <2> QED  BY <1>2, <2>1 DEF Held, Queued
<1>4. PlacesInv'
  BY <1>3 DEF TextsInv, PlacesInv
<1>5. ASSUME NEW k \in Harness!TextKinds
      PROVE  queue'[k] \in Seq({k} \X Nat) /\ Ordered(log', run'[r].hand, queue'[k], k)
  <2>1. queue'[k] \in Seq({k} \X Nat) /\ Ordered(log, run[r].hand, queue[k], k)
    BY DEF TextsInv, OrderInv
  <2>2. Harness!Ascending(<<m>> \o rest, {k}) <=>
          Harness!Ascending(rest, {k}) /\ Before({m}, Harness!Range(rest), {k})
    BY <1>0, Added
  <2>3. Harness!Ascending(Append(log, m), {k}) <=>
          Harness!Ascending(log, {k}) /\ Before(Harness!Range(log), {m}, {k})
    BY <1>0, Added
  <2>4. Harness!Ascending(rest, {k}) /\ Before({m}, Harness!Range(rest), {k})
    BY <1>0, <2>1, <2>2 DEF Ordered
  <2>5. Before(Harness!Range(log), {m}, {k})
    BY <1>1, <2>1 DEF Ordered, Before
  <2>6. Harness!Ascending(log', {k})
    BY <1>0, <2>1, <2>3, <2>5 DEF Ordered
  <2> QED  BY <1>0, <1>1, <2>1, <2>4, <2>6 DEF Ordered, Before
<1>6. OrderInv'
  BY <1>5, OrderOfOne
<1> QED  BY <1>4, <1>6 DEF TextsInv

\* Messages in hand, with the prompt after them or without.
WithPrompt(hand, x, r) == hand = x \/ hand = Append(x, <<"prompt", r>>)

\* The prompt is no message of a queue: with it or without, the texts in hand are the same.
LEMMA SameTexts ==
  ASSUME NEW j \in Harness!TextKinds, NEW x \in Seq({j} \X Nat), NEW r \in Nat, NEW hand,
         WithPrompt(hand, x, r)
  PROVE  /\ hand \in Seq(Harness!Entry) /\ Harness!TextsIn(hand) = Harness!Range(x)
         /\ \A e \in Harness!Range(hand) : e[1] \in Harness!TextKinds => e \in Harness!Range(x)
         /\ Harness!Range(x) \subseteq Harness!Range(hand)
         /\ \A k \in Harness!TextKinds : Harness!Ascending(hand, {k}) <=> Harness!Ascending(x, {k})
<1>0. /\ x \in Seq(Harness!Entry) /\ Harness!TextsIn(x) = Harness!Range(x)
  BY OneKind
<1>1. CASE hand = x
  BY <1>0, <1>1
<1>2. CASE hand = Append(x, <<"prompt", r>>)
  <2> DEFINE p == <<"prompt", r>>
  <2>1. p \in Harness!Entry /\ p[1] \notin Harness!TextKinds
    BY DEF Harness!Entry, Harness!TextKinds
  <2> HIDE DEF p
  <2>2. hand = Append(x, p)
    BY <1>2 DEF p
  <2>3. hand \in Seq(Harness!Entry) /\ Harness!Range(hand) = Harness!Range(x) \cup {p}
    BY <1>0, <2>1, <2>2, Added
  <2>4. ASSUME NEW k \in Harness!TextKinds
        PROVE  Harness!Ascending(hand, {k}) <=> Harness!Ascending(x, {k})
    <3>1. Harness!Ascending(Append(x, p), {k}) <=>
            Harness!Ascending(x, {k}) /\ Before(Harness!Range(x), {p}, {k})
      BY <1>0, <2>1, Added
    <3>2. Before(Harness!Range(x), {p}, {k})
      BY <2>1 DEF Before
    <3> QED  BY <2>2, <3>1, <3>2
  <2>5. Harness!TextsIn(hand) = Harness!TextsIn(x)
    BY <2>1, <2>3 DEF Harness!TextsIn
  <2> QED  BY <1>0, <2>1, <2>3, <2>4, <2>5
<1> QED  BY <1>1, <1>2 DEF WithPrompt

\* In hand there is nothing of another kind.
LEMMA OtherKinds ==
  ASSUME NEW j \in Harness!TextKinds, NEW x \in Seq({j} \X Nat), NEW r \in Nat, NEW hand,
         WithPrompt(hand, x, r), NEW k \in Harness!TextKinds, k # j, NEW S
  PROVE  /\ Harness!Ascending(hand, {k})
         /\ Before(S, Harness!Range(hand), {k}) /\ Before(Harness!Range(hand), S, {k})
<1>1. /\ \A e \in Harness!Range(hand) : e[1] \in Harness!TextKinds => e \in Harness!Range(x)
      /\ Harness!Ascending(hand, {k}) <=> Harness!Ascending(x, {k})
  BY SameTexts
<1>2. \A e \in Harness!Range(x) : e[1] = j
  BY OneKind
<1>3. \A e \in Harness!Range(hand) : e[1] # k
  BY <1>1, <1>2
<1>4. x \in Seq(Harness!Entry)
  BY OneKind
<1>5. Harness!Ascending(x, {k})
  BY <1>2, <1>4, Elements DEF Harness!Ascending
<1> QED  BY <1>1, <1>3, <1>5 DEF Before

\* Run r takes the messages at the front of a queue.
LEMMA TextsTaken ==
  ASSUME Harness!TypeOK, TextsInv, NEW r \in Runs, r \in Nat, NEW j \in Harness!TextKinds,
         NEW x \in Seq({j} \X Nat), NEW y \in Seq({j} \X Nat), queue[j] = x \o y,
         run[r].hand = <<>>, WithPrompt(run'[r].hand, x, r),
         \A q \in Runs : q # r => run[q].hand = <<>> /\ run'[q].hand = <<>>,
         queue' = [queue EXCEPT ![j] = y], UNCHANGED <<log, sent, gone, calls>>
  PROVE  TextsInv'
<1> DEFINE hand == run'[r].hand
<1>0. /\ log \in Seq(Harness!Entry) /\ x \in Seq(Harness!Entry) /\ y \in Seq(Harness!Entry)
      /\ hand \in Seq(Harness!Entry)
  <2>1. log \in Seq(Harness!Entry)
    BY EntryTypes
  <2>2. x \in Seq(Harness!Entry) /\ y \in Seq(Harness!Entry)
    BY OneKind
  <2>3. hand \in Seq(Harness!Entry)
    BY SameTexts
  <2> QED  BY <2>1, <2>2, <2>3
<1>1. queue'[j] = y /\ \A k \in Harness!TextKinds : k # j => queue'[k] = queue[k]
  BY DEF Harness!TypeOK
<1>2. Harness!Range(queue[j]) = Harness!Range(x) \cup Harness!Range(y)
  BY <1>0, ElementsOfConcat
<1>3. /\ Harness!TextsIn(hand) = Harness!Range(x)
      /\ \A e \in Harness!Range(hand) : e[1] \in Harness!TextKinds => e \in Harness!Range(x)
  BY SameTexts
<1>4. InHands(run) = {} /\ InHands(run') = Harness!Range(x)
  <2>1. InHands(run) = Harness!TextsIn(run[r].hand)
    BY HandsOfOne
  <2>2. InHands(run') = Harness!TextsIn(run'[r].hand)
    BY HandsOfOne
  <2> QED  BY <1>3, <2>1, <2>2, Empty DEF Harness!TextsIn
<1> HIDE DEF hand
<1>5. Held' = Held
  <2>1. Harness!Range(x) \cup Queued' = Queued
    <3>1. ASSUME NEW e \in Queued PROVE e \in Harness!Range(x) \cup Queued'
      <4>1. PICK k \in Harness!TextKinds : e \in Harness!Range(queue[k])
        BY DEF Queued
      <4> QED  BY <1>1, <1>2, <4>1 DEF Queued
    <3>2. ASSUME NEW e \in Queued' PROVE e \in Queued
      <4>1. PICK k \in Harness!TextKinds : e \in Harness!Range(queue'[k])
        BY DEF Queued
      <4>2. e \in Harness!Range(queue[k])
        BY <1>1, <1>2, <4>1
      <4> QED  BY <4>2 DEF Queued
    <3>3. Harness!Range(x) \subseteq Queued
      BY <1>2 DEF Queued
    <3> QED  BY <3>1, <3>2, <3>3
  <2> QED  BY <1>4, <2>1 DEF Held
<1>6. PlacesInv'
  BY <1>5 DEF TextsInv, PlacesInv
<1>7. ASSUME NEW k \in Harness!TextKinds
      PROVE  queue'[k] \in Seq({k} \X Nat) /\ Ordered(log', hand, queue'[k], k)
  <2>1. queue[k] \in Seq({k} \X Nat) /\ Ordered(log, run[r].hand, queue[k], k)
    BY DEF TextsInv, OrderInv
  <2>2. CASE k = j
    <3>1. Harness!Ascending(x \o y, {k}) <=>
            /\ Harness!Ascending(x, {k}) /\ Harness!Ascending(y, {k})
            /\ Before(Harness!Range(x), Harness!Range(y), {k})
      BY <1>0, AscendingConcat
    <3>2. /\ Harness!Ascending(x, {k}) /\ Harness!Ascending(y, {k})
          /\ Before(Harness!Range(x), Harness!Range(y), {k})
      BY <2>1, <2>2, <3>1 DEF Ordered
    <3>3. Harness!Ascending(hand, {k}) <=> Harness!Ascending(x, {k})
      BY SameTexts DEF hand
    <3>4. Before(Harness!Range(log), Harness!Range(x) \cup Harness!Range(y), {k})
      BY <1>2, <2>1, <2>2 DEF Ordered
    <3>5. /\ Before(Harness!Range(log), Harness!Range(hand), {k})
          /\ Before(Harness!Range(hand), Harness!Range(y), {k})
          /\ Before(Harness!Range(log), Harness!Range(y), {k})
      BY <1>3, <3>2, <3>4 DEF Before
    <3>6. Harness!Ascending(log', {k}) /\ log' = log
      BY <2>1 DEF Ordered
    <3> QED  BY <1>1, <2>2, <3>2, <3>3, <3>5, <3>6 DEF Ordered
  <2>3. CASE k # j
    <3>1. \A S : /\ Harness!Ascending(hand, {k}) /\ Before(S, Harness!Range(hand), {k})
                 /\ Before(Harness!Range(hand), S, {k})
      BY <2>3, OtherKinds DEF hand
    <3> QED  BY <1>1, <2>1, <2>3, <3>1 DEF Ordered
  <2> QED  BY <2>2, <2>3
<1>8. OrderInv'
  BY <1>7, OrderOfOne DEF hand
<1> QED  BY <1>6, <1>8 DEF TextsInv

\* Run r puts its messages back at the front of their queue.
LEMMA TextsReturned ==
  ASSUME Harness!TypeOK, TextsInv, NEW r \in Runs, r \in Nat, NEW j \in Harness!TextKinds,
         NEW x \in Seq({j} \X Nat), WithPrompt(run[r].hand, x, r), run'[r].hand = <<>>,
         \A q \in Runs : q # r => run[q].hand = <<>> /\ run'[q].hand = <<>>,
         queue' = [queue EXCEPT ![j] = x \o queue[j]], UNCHANGED <<log, sent, gone, calls>>
  PROVE  TextsInv' /\ queue'[j] \in Seq({j} \X Nat)
<1> DEFINE hand == run[r].hand
           y == queue[j]
<1>0. /\ log \in Seq(Harness!Entry) /\ x \in Seq(Harness!Entry) /\ y \in Seq(Harness!Entry)
      /\ hand \in Seq(Harness!Entry) /\ y \in Seq({j} \X Nat)
  BY EntryTypes, OneKind, SameTexts, QueueTypes DEF TextsInv
<1>1. queue'[j] = x \o y /\ \A k \in Harness!TextKinds : k # j => queue'[k] = queue[k]
  BY DEF Harness!TypeOK
<1>2. /\ Harness!Range(queue'[j]) = Harness!Range(x) \cup Harness!Range(y)
      /\ queue'[j] \in Seq({j} \X Nat)
  <2>1. x \o y \in Seq({j} \X Nat)
    BY <1>0, ConcatProperties
  <2>2. Harness!Range(x \o y) = Harness!Range(x) \cup Harness!Range(y)
    BY <1>0, ElementsOfConcat
  <2> QED  BY <1>1, <2>1, <2>2
<1>3. /\ Harness!TextsIn(hand) = Harness!Range(x)
      /\ Harness!Range(x) \subseteq Harness!Range(hand)
  BY SameTexts
<1>4. InHands(run) = Harness!Range(x) /\ InHands(run') = {}
  <2>1. InHands(run) = Harness!TextsIn(run[r].hand)
    BY HandsOfOne
  <2>2. InHands(run') = Harness!TextsIn(run'[r].hand)
    BY HandsOfOne
  <2> QED  BY <1>3, <2>1, <2>2, Empty DEF Harness!TextsIn
<1> HIDE DEF hand, y
<1>5. Held' = Held
  <2>1. Harness!Range(x) \cup Queued = Queued'
    <3>1. ASSUME NEW e \in Queued PROVE e \in Queued'
      <4>1. PICK k \in Harness!TextKinds : e \in Harness!Range(queue[k])
        BY DEF Queued
      <4>2. e \in Harness!Range(queue'[k])
        BY <1>1, <1>2, <4>1 DEF y
      <4> QED  BY <4>2 DEF Queued
    <3>2. ASSUME NEW e \in Queued' PROVE e \in Harness!Range(x) \cup Queued
      <4>1. PICK k \in Harness!TextKinds : e \in Harness!Range(queue'[k])
        BY DEF Queued
      <4>2. e \in Harness!Range(x) \/ e \in Harness!Range(queue[k])
        BY <1>1, <1>2, <4>1 DEF y
      <4> QED  BY <4>2 DEF Queued
    <3>3. Harness!Range(x) \subseteq Queued'
      BY <1>2 DEF Queued
    <3> QED  BY <3>1, <3>2, <3>3
  <2> QED  BY <1>4, <2>1 DEF Held
<1>6. PlacesInv'
  BY <1>5 DEF TextsInv, PlacesInv
<1>7. ASSUME NEW k \in Harness!TextKinds
      PROVE  queue'[k] \in Seq({k} \X Nat) /\ Ordered(log', run'[r].hand, queue'[k], k)
  <2>1. queue[k] \in Seq({k} \X Nat) /\ Ordered(log, hand, queue[k], k)
    BY DEF TextsInv, OrderInv, hand
  <2>2. CASE k = j
    <3>1. Harness!Ascending(x \o y, {k}) <=>
            /\ Harness!Ascending(x, {k}) /\ Harness!Ascending(y, {k})
            /\ Before(Harness!Range(x), Harness!Range(y), {k})
      BY <1>0, AscendingConcat
    <3>2. Harness!Ascending(hand, {k}) <=> Harness!Ascending(x, {k})
      BY SameTexts DEF hand
    <3>3. /\ Before(Harness!Range(x), Harness!Range(y), {k})
          /\ Before(Harness!Range(log), Harness!Range(queue'[k]), {k})
      BY <1>2, <1>3, <2>1, <2>2 DEF Ordered, Before, y
    <3>4. Harness!Ascending(queue'[k], {k})
      BY <1>1, <2>1, <2>2, <3>1, <3>2, <3>3 DEF Ordered, y
    <3>5. Harness!Ascending(log', {k}) /\ log' = log
      BY <2>1 DEF Ordered
    <3> QED  BY <1>2, <2>2, <3>3, <3>4, <3>5, Empty DEF Ordered, Before
  <2>3. CASE k # j
    <3>1. queue'[k] = queue[k]
      BY <1>1, <2>3
    <3> QED  BY <2>1, <3>1, Empty DEF Ordered, Before
  <2> QED  BY <2>2, <2>3
<1>8. OrderInv'
  BY <1>7, OrderOfOne
<1> QED  BY <1>2, <1>6, <1>8 DEF TextsInv

\* What is in one place is in no other.
LEMMA PlacesApart ==
  ASSUME Harness!TypeOK, OrderInv, NEW r \in Runs
  PROVE  /\ Harness!TextsIn(run[r].hand) \cap Queued = {}
         /\ Harness!TextsIn(run[r].hand) \cap Harness!TextsIn(log) = {}
         /\ Queued \cap Harness!TextsIn(log) = {}
<1>0. log \in Seq(Harness!Entry) /\ run[r].hand \in Seq(Harness!Entry)
  BY EntryTypes, RunFields
<1>1. /\ \A e \in Harness!Range(log) : e[2] \in Nat
      /\ \A e \in Harness!Range(run[r].hand) : e[2] \in Nat
  BY <1>0, Elements
<1>2. ASSUME NEW e \in Queued, e \in Harness!Range(run[r].hand) \/ e \in Harness!Range(log) PROVE FALSE
  <2>1. PICK k \in Harness!TextKinds : e \in Harness!Range(queue[k])
    BY DEF Queued
  <2>2. e[1] = k /\ e[2] \in Nat
    BY <2>1, QueueTypes
  <2>3. Ordered(log, run[r].hand, queue[k], k)
    BY DEF OrderInv
  <2>4. e[2] < e[2]
    BY <1>2, <2>1, <2>2, <2>3 DEF Ordered, Before
  <2> QED  BY <2>2, <2>4
<1>3. ASSUME NEW e \in Harness!Range(run[r].hand), e \in Harness!Range(log), e[1] \in Harness!TextKinds
      PROVE  FALSE
  <2>1. Ordered(log, run[r].hand, queue[e[1]], e[1])
    BY <1>3 DEF OrderInv
  <2>2. e[2] < e[2]
    BY <1>3, <2>1 DEF Ordered, Before
  <2> QED  BY <1>1, <2>2
<1> QED  BY <1>2, <1>3 DEF Harness!TextsIn

\* Run r drops what it has in hand.
LEMMA TextsDropped ==
  ASSUME Harness!TypeOK, TextsInv, NEW r \in Runs, run'[r].hand = <<>>,
         \A q \in Runs : q # r => run[q].hand = <<>> /\ run'[q].hand = <<>>,
         gone' = gone \cup Harness!TextsIn(run[r].hand), UNCHANGED <<log, queue, sent, calls>>
  PROVE  TextsInv'
<1> DEFINE forgotten == Harness!TextsIn(run[r].hand)
<1>1. InHands(run) = forgotten
  BY HandsOfOne
<1>2. InHands(run') = {}
  <2>1. InHands(run') = Harness!TextsIn(run'[r].hand)
    BY HandsOfOne
  <2> QED  BY <2>1, Empty DEF Harness!TextsIn
<1>3. Held = forgotten \cup Held' /\ Held' = Queued \cup Harness!TextsIn(log)
  BY <1>1, <1>2 DEF Held, Queued
<1>4. forgotten \cap Held' = {}
  BY <1>3, PlacesApart DEF TextsInv
<1> HIDE DEF forgotten
<1>5. PlacesInv'
  BY <1>3, <1>4, PlacesMove DEF TextsInv, forgotten
<1>6. ASSUME NEW k \in Harness!TextKinds
      PROVE  queue'[k] \in Seq({k} \X Nat) /\ Ordered(log', run'[r].hand, queue'[k], k)
  <2>1. queue[k] \in Seq({k} \X Nat) /\ Ordered(log, run[r].hand, queue[k], k)
    BY DEF TextsInv, OrderInv
  <2> QED  BY <2>1, Empty DEF Ordered, Before
<1>7. OrderInv'
  BY <1>6, OrderOfOne
<1> QED  BY <1>5, <1>7 DEF TextsInv

\* A text is sent: it is the last one so far.
LEMMA TextsSent ==
  ASSUME Harness!TypeOK, TextsInv, NEW j \in Harness!TextKinds, calls' = calls + 1,
         queue' = [queue EXCEPT ![j] = Append(@, <<j, calls'>>)], sent' = sent \cup {<<j, calls'>>},
         UNCHANGED <<log, gone>>, \A q \in Runs : run'[q].hand = run[q].hand
  PROVE  TextsInv' /\ queue'[j] \in Seq({j} \X Nat)
<1> DEFINE e == <<j, calls'>>
<1>0. calls \in Nat /\ calls' \in Nat /\ e \in Harness!Entry /\ e[1] = j /\ e[2] = calls' /\ e \in {j} \X Nat
  BY DEF Harness!TypeOK, Harness!Entry
<1>1. /\ queue[j] \in Seq({j} \X Nat) /\ queue[j] \in Seq(Harness!Entry) /\ log \in Seq(Harness!Entry)
  BY EntryTypes, QueueTypes DEF TextsInv
<1>2. queue'[j] = Append(queue[j], e) /\ \A k \in Harness!TextKinds : k # j => queue'[k] = queue[k]
  BY DEF Harness!TypeOK
<1>3. queue'[j] \in Seq({j} \X Nat)
  BY <1>0, <1>1, <1>2
<1>4. sent' = sent \cup {e}
  OBVIOUS
<1> HIDE DEF e
<1>5. Harness!Range(queue'[j]) = Harness!Range(queue[j]) \cup {e}
  BY <1>0, <1>1, <1>2, Added
<1>6. \A f \in sent : f \in Harness!TextKinds \X (1 .. calls) /\ f[2] \in Nat /\ f[2] < calls' /\ f # e
  <2>1. \A f \in sent : f \in Harness!TextKinds \X (1 .. calls)
    BY DEF TextsInv, PlacesInv
  <2> QED  BY <1>0, <2>1
<1>7. Held' = Held \cup {e}
  <2>1. Queued' = Queued \cup {e}
    <3>1. ASSUME NEW f \in Queued PROVE f \in Queued'
      <4>1. PICK k \in Harness!TextKinds : f \in Harness!Range(queue[k])
        BY DEF Queued
      <4>2. f \in Harness!Range(queue'[k])
        BY <1>2, <1>5, <4>1
      <4> QED  BY <4>2 DEF Queued
    <3>2. ASSUME NEW f \in Queued' PROVE f \in Queued \cup {e}
      <4>1. PICK k \in Harness!TextKinds : f \in Harness!Range(queue'[k])
        BY DEF Queued
      <4>2. f = e \/ f \in Harness!Range(queue[k])
        BY <1>2, <1>5, <4>1
      <4> QED  BY <4>2 DEF Queued
    <3>3. e \in Queued'
      BY <1>5 DEF Queued
    <3> QED  BY <3>1, <3>2, <3>3
  <2>2. InHands(run') = InHands(run)
    BY DEF InHands
  <2> QED  BY <2>1, <2>2 DEF Held
<1>8. PlacesInv'
  <2>1. sent' \subseteq Harness!TextKinds \X (1 .. calls')
    <3>1. e \in Harness!TextKinds \X (1 .. calls')
      BY <1>0 DEF e
    <3>2. 1 .. calls \subseteq 1 .. calls'
      BY <1>0
    <3> QED  BY <1>4, <1>6, <3>1, <3>2
  <2>2. gone \subseteq sent
    BY DEF TextsInv, PlacesInv
  <2>3. e \notin gone
    BY <1>6, <2>2
  <2> QED  BY <1>4, <1>7, <2>1, <2>3 DEF TextsInv, PlacesInv
<1>9. ASSUME NEW k \in Harness!TextKinds, NEW r \in Runs
      PROVE  queue'[k] \in Seq({k} \X Nat) /\ Ordered(log', run'[r].hand, queue'[k], k)
  <2>1. queue[k] \in Seq({k} \X Nat) /\ Ordered(log, run[r].hand, queue[k], k)
    BY DEF TextsInv, OrderInv
  <2>2. CASE k = j
    <3>1. /\ \A f \in Harness!Range(log) : f[1] = k => f \in sent
          /\ \A f \in Harness!Range(run[r].hand) : f[1] = k => f \in sent
          /\ \A f \in Harness!Range(queue[k]) : f \in sent
      BY DEF TextsInv, PlacesInv, Held, Queued, InHands, Harness!TextsIn
    <3>2. /\ Before(Harness!Range(log), {e}, {k}) /\ Before(Harness!Range(run[r].hand), {e}, {k})
          /\ Before(Harness!Range(queue[k]), {e}, {k})
      BY <1>0, <1>6, <3>1 DEF Before
    <3>3. Harness!Ascending(Append(queue[k], e), {k}) <=>
            Harness!Ascending(queue[k], {k}) /\ Before(Harness!Range(queue[k]), {e}, {k})
      BY <1>0, <1>1, <2>2, Added
    <3>4. Harness!Ascending(queue'[k], {k})
      BY <1>2, <2>1, <2>2, <3>2, <3>3 DEF Ordered
    <3>5. /\ Before(Harness!Range(log), Harness!Range(queue'[k]), {k})
          /\ Before(Harness!Range(run[r].hand), Harness!Range(queue'[k]), {k})
      BY <1>5, <2>1, <2>2, <3>2 DEF Ordered, Before
    <3>6. run'[r].hand = run[r].hand /\ log' = log /\ queue'[k] \in Seq({k} \X Nat)
      BY <1>3, <2>2
    <3> QED  BY <2>1, <3>4, <3>5, <3>6 DEF Ordered
  <2>3. CASE k # j
    BY <1>2, <2>1, <2>3 DEF Ordered
  <2> QED  BY <2>2, <2>3
<1>10. OrderInv'
  <2>1. 1 \in Runs
    BY RunsAssumption DEF Runs, Harness!Runs
  <2> QED  BY <1>9, <2>1 DEF OrderInv
<1> QED  BY <1>3, <1>8, <1>10 DEF TextsInv

\* abort() gives back what waits to be steered or followed up.
LEMMA TextsGivenBack ==
  ASSUME Harness!TypeOK, TextsInv, calls' = calls + 1,
         queue' = [queue EXCEPT !["steer"] = <<>>, !["followUp"] = <<>>],
         gone' = gone \cup Harness!TextsIn(queue["steer"] \o queue["followUp"]),
         UNCHANGED <<log, sent>>, \A q \in Runs : run'[q].hand = run[q].hand
  PROVE  TextsInv'
<1> DEFINE forgotten == Harness!Range(queue["steer"]) \cup Harness!Range(queue["followUp"])
<1>0. /\ "steer" \in Harness!TextKinds /\ "followUp" \in Harness!TextKinds /\ "nextTurn" \in Harness!TextKinds
      /\ Harness!TextKinds = {"steer", "followUp", "nextTurn"}
  BY DEF Harness!TextKinds
<1>1. \A k \in Harness!TextKinds :
        /\ queue[k] \in Seq({k} \X Nat) /\ queue[k] \in Seq(Harness!Entry)
        /\ \A e \in Harness!Range(queue[k]) : e[1] = k /\ e[2] \in Nat
  BY QueueTypes DEF TextsInv
<1>2. queue' = [k \in Harness!TextKinds |-> IF k = "nextTurn" THEN queue[k] ELSE <<>>]
  BY <1>0 DEF Harness!TypeOK
<1>3. Harness!TextsIn(queue["steer"] \o queue["followUp"]) = forgotten
  <2>1. Harness!Range(queue["steer"] \o queue["followUp"]) = forgotten
    BY <1>0, <1>1, ElementsOfConcat
  <2> QED  BY <1>0, <1>1, <2>1 DEF Harness!TextsIn
<1> HIDE DEF forgotten
<1>4. /\ Queued' = Harness!Range(queue["nextTurn"]) /\ Queued = forgotten \cup Queued'
  <2>1. /\ Queued = Harness!Range(queue["steer"]) \cup Harness!Range(queue["followUp"])
                      \cup Harness!Range(queue["nextTurn"])
        /\ Queued' = Harness!Range(queue'["steer"]) \cup Harness!Range(queue'["followUp"])
                       \cup Harness!Range(queue'["nextTurn"])
    BY QueuesAre
  <2>2. queue'["steer"] = <<>> /\ queue'["followUp"] = <<>> /\ queue'["nextTurn"] = queue["nextTurn"]
    BY <1>0, <1>2
  <2> QED  BY <2>1, <2>2, Empty DEF forgotten
<1>5. Held = forgotten \cup Held' /\ Held' = InHands(run) \cup Harness!Range(queue["nextTurn"]) \cup Harness!TextsIn(log)
  BY <1>4 DEF Held, InHands
<1>6. forgotten \cap Held' = {}
  <2>1. forgotten \cap Harness!Range(queue["nextTurn"]) = {}
    BY <1>0, <1>1 DEF forgotten
  <2>2. \A r \in Runs : /\ Harness!TextsIn(run[r].hand) \cap Queued = {}
                        /\ Queued \cap Harness!TextsIn(log) = {}
    BY PlacesApart DEF TextsInv
  <2>3. 1 \in Runs
    BY RunsAssumption DEF Runs, Harness!Runs
  <2>4. forgotten \cap InHands(run) = {} /\ forgotten \cap Harness!TextsIn(log) = {}
    BY <1>4, <2>2, <2>3 DEF InHands
  <2> QED  BY <1>5, <2>1, <2>4
<1>7. PlacesInv'
  <2>1. 1 .. calls \subseteq 1 .. calls'
    BY DEF Harness!TypeOK
  <2>2. gone' = gone \cup forgotten
    BY <1>3
  <2> QED  BY <1>5, <1>6, <2>1, <2>2 DEF TextsInv, PlacesInv
<1>8. OrderInv'
  <2> SUFFICES ASSUME NEW k \in Harness!TextKinds
               PROVE  queue'[k] \in Seq({k} \X Nat) /\ \A q \in Runs : Ordered(log', run'[q].hand, queue'[k], k)
    BY DEF OrderInv
  <2>1. queue[k] \in Seq({k} \X Nat) /\ \A q \in Runs : Ordered(log, run[q].hand, queue[k], k)
    BY DEF TextsInv, OrderInv
  <2>2. CASE k = "nextTurn"
    BY <1>2, <2>1, <2>2 DEF Ordered
  <2>3. CASE k # "nextTurn"
    <3>1. queue'[k] = <<>>
      BY <1>2, <2>3
    <3>2. queue'[k] \in Seq({k} \X Nat)
      BY <3>1, EmptySeq
    <3> QED  BY <2>1, <3>1, <3>2, Empty DEF Ordered, Before
  <2> QED  BY <2>2, <2>3
<1> QED  BY <1>7, <1>8 DEF TextsInv

-----------------------------------------------------------------------------
(* What a step of a run leaves as it is *)

\* While a run is in progress nothing else is.
LEMMA Alone ==
  ASSUME HarnessInv, NEW r \in Runs, Working(r)
  PROVE  /\ Harness!TypeOK /\ RunInv(r) /\ call = Harness!NoAppend /\ op.at = "none"
         /\ \A q \in Runs : q # r =>
              ~Working(q) /\ run[q].at \in {"ready", "done"} /\ run[q].hand = <<>>
                /\ run[q].writing = Harness!NoAppend /\ ~run[q].terminal
<1>1. Harness!TypeOK /\ SerialInv /\ \A q \in Runs : RunInv(q)
  BY DEF HarnessInv
<1>2. \A q \in Runs : q # r => ~Working(q)
  BY <1>1 DEF SerialInv
<1>3. \A q \in Runs : ~Working(q) => run[q].at \in {"ready", "done"}
  BY DEF Working, Harness!InProgress
<1>4. \A q \in Runs : ~Working(q) => run[q].hand = <<>> /\ run[q].writing = Harness!NoAppend
  BY <1>1 DEF RunInv
<1>5. \A q \in Runs : ~Working(q) => ~run[q].terminal
  BY <1>1, <1>3 DEF RunInv, FailureInv
<1>6. call = Harness!NoAppend /\ op.at = "none"
  BY <1>1 DEF SerialInv
<1> QED  BY <1>1, <1>2, <1>3, <1>4, <1>5, <1>6

\* The other runs rest as they did.
LEMMA OthersRest ==
  ASSUME HarnessInv, NEW r \in Runs, Working(r), \A q \in Runs : q # r => run'[q] = run[q]
  PROVE  \A q \in Runs : q # r => RunInv(q)' /\ ~Working(q)' /\ run'[q].hand = <<>>
<1> SUFFICES ASSUME NEW q \in Runs, q # r PROVE RunInv(q)' /\ ~Working(q)' /\ run'[q].hand = <<>>
  OBVIOUS
<1>1. /\ ~Working(q) /\ run[q].at \in {"ready", "done"} /\ run[q].hand = <<>>
      /\ run[q].writing = Harness!NoAppend /\ ~run[q].terminal
  BY Alone
<1>2. run'[q] = run[q]
  OBVIOUS
<1>3. HandInv(q)'
  BY <1>1, <1>2, Empty DEF HandInv, Taking
<1>4. WritingInv(q)' /\ ContextInv(q)' /\ FailureInv(q)'
  BY <1>1, <1>2 DEF WritingInv, ContextInv, FailureInv, Taking
<1>5. ~Working(q)'
  BY <1>1, <1>2 DEF Working, Harness!InProgress
<1> QED  BY <1>1, <1>2, <1>3, <1>4, <1>5 DEF RunInv

\* A step of run r that does not end it.
LEMMA Proceeds ==
  ASSUME HarnessInv, NEW r \in Runs, Working(r), \A q \in Runs : q # r => run'[q] = run[q],
         run'[r].at \notin {"ready", "done"}, UNCHANGED <<call, op, aborter, runPromise, seen>>,
         phase' \in {phase, "idle"}, run'[r].at \in Leaving /\ phase' = "turn" => failures' >= 2,
         Harness!TypeOK', RunInv(r)', WritesInv', TextsInv'
  PROVE  HarnessInv'
<1>1. /\ SerialInv /\ AbortInv /\ call = Harness!NoAppend /\ op.at = "none"
  BY Alone DEF HarnessInv
<1>2. Working(r)' /\ \A q \in Runs : q # r => RunInv(q)' /\ ~Working(q)' /\ ~Working(q)
  BY OthersRest, Alone DEF Working, Harness!InProgress
<1>3. SerialInv'
  BY <1>1, <1>2 DEF SerialInv
<1>4. \A q \in Runs : RunInv(q)'
  BY <1>2
<1>5. PhaseInv'
  BY <1>2 DEF PhaseInv
<1>6. PendingInv'
  BY <1>2 DEF PendingInv
<1>7. CallerInv'
  BY <1>1 DEF CallerInv
<1>8. AbortInv'
  <2>1. \A q \in Runs : Working(q)' <=> Working(q)
    BY <1>2
  <2>2. \A q \in Runs : q # r => run'[q].at = run[q].at
    OBVIOUS
  <2>3. run[r].at # "done" /\ seen \subseteq Runs
    BY DEF Working, Harness!InProgress, HarnessInv, Harness!TypeOK, Runs
  <2>4. (\A q \in Runs : Working(q) => runPromise = q)'
    BY <1>1, <2>1 DEF AbortInv
  <2>5. (aborter.at = "announce" => \A q \in seen : run[q].at = "done" \/ Working(q))'
    BY <1>1, <2>1, <2>2, <2>3, <1>2 DEF AbortInv
  <2>6. (aborter.at = "wait" => \A q \in seen : run[q].at = "done" \/ aborter.for = q)'
    BY <1>1, <2>2, <2>3 DEF AbortInv
  <2> QED  BY <2>4, <2>5, <2>6 DEF AbortInv
<1> QED  BY <1>3, <1>4, <1>5, <1>6, <1>7, <1>8 DEF HarnessInv

\* The step of run r that ends it.
LEMMA Finishes ==
  ASSUME HarnessInv, NEW r \in Runs, Working(r),
         Moved(r, "done", <<>>, <<>>, Harness!NoAppend, FALSE),
         UNCHANGED <<call, op, aborter, seen>>, phase' \in {phase, "idle"},
         phase' = "turn" => failures' >= 2, gaveUp' \/ pending' = <<>>,
         Harness!TypeOK', WritesInv', TextsInv'
  PROVE  HarnessInv'
<1>0. \A q \in Runs : q # r => run'[q] = run[q]
  BY DEF Moved
<1>1. /\ SerialInv /\ AbortInv /\ call = Harness!NoAppend /\ op.at = "none"
  BY Alone DEF HarnessInv
<1>2. /\ ~Working(r)' /\ run'[r].at = "done"
      /\ \A q \in Runs : q # r => RunInv(q)' /\ ~Working(q)' /\ ~Working(q)
  BY <1>0, OthersRest, Alone DEF Working, Harness!InProgress, Moved
<1>3. SerialInv'
  BY <1>1, <1>2 DEF SerialInv
<1>4. RunInv(r)'
  <2>1. HandInv(r)'
    BY <1>2, Empty DEF HandInv, Taking, Moved
  <2>2. WritingInv(r)' /\ ContextInv(r)' /\ FailureInv(r)'
    BY <1>2 DEF WritingInv, ContextInv, FailureInv, Taking, Moved
  <2> QED  BY <2>1, <2>2 DEF RunInv, Moved
<1>5. PhaseInv' /\ PendingInv'
  BY DEF PhaseInv, PendingInv
<1>6. CallerInv'
  BY <1>1 DEF CallerInv
<1>7. AbortInv'
  <2>1. \A q \in Runs : ~Working(q)'
    BY <1>2
  <2>2. \A q \in Runs : q # r => run'[q].at = run[q].at /\ ~Working(q)
    BY <1>0, <1>2
  <2>3. seen \subseteq Runs
    BY DEF HarnessInv, Harness!TypeOK, Runs
  <2>4. (aborter.at = "announce" => \A q \in seen : run[q].at = "done" \/ Working(q))'
    BY <1>1, <1>2, <2>2, <2>3 DEF AbortInv
  <2>5. (aborter.at = "wait" => \A q \in seen : run[q].at = "done" \/ aborter.for = q)'
    BY <1>1, <1>2, <2>2, <2>3 DEF AbortInv
  <2> QED  BY <2>1, <2>4, <2>5 DEF AbortInv
<1> QED  BY <1>2, <1>3, <1>4, <1>5, <1>6, <1>7 DEF HarnessInv

\* A step of run r after which no append is in flight and the session is as before.
LEMMA QuietStep ==
  ASSUME HarnessInv, NEW r \in Runs, Working(r), NEW at \in Harness!Labels, NEW context,
         NEW terminal \in BOOLEAN, Moved(r, at, run[r].hand, context, Harness!NoAppend, terminal),
         failures' \in Nat, controller' \in Runs \cup {0}, phase' \in {phase, "idle"},
         UNCHANGED <<runPromise, pending, model, queue, log, branch, call, op, aborter, calls,
                     sent, seen, gone, accepted, gaveUp>>,
         at \notin {"ready", "done"}, HandInv(r)', FailureInv(r)',
         at \in Leaving /\ phase' = "turn" => failures' >= 2,
         at \in Taking \cup {"poll", "follow", "stream"} => context = branch
  PROVE  HarnessInv'
<1>1. /\ run' \in [Runs -> Harness!RunType] /\ \A q \in Runs : q # r => run'[q] = run[q]
      /\ run'[r].at = at /\ run'[r].hand = run[r].hand /\ run'[r].context = context
      /\ run'[r].writing = Harness!NoAppend
  BY DEF Moved
<1>2. Harness!TypeOK /\ WritesInv /\ TextsInv
  BY DEF HarnessInv
<1>3. Harness!TypeOK'
  BY <1>1, <1>2 DEF Harness!TypeOK, Runs
<1>4. calls' \in Nat /\ calls' >= calls
  BY <1>2 DEF Harness!TypeOK
<1>5. WritesInv'
  BY <1>2, <1>4, WritesStay
<1>6. TextsInv'
  <2>1. \A q \in Runs : run'[q].hand = run[q].hand
    BY <1>1
  <2> QED  BY <1>2, <1>4, <2>1, TextsStay
<1>7. RunInv(r)'
  <2>1. WritingInv(r)' /\ ContextInv(r)'
    BY <1>1 DEF WritingInv, ContextInv
  <2>2. Working(r)'
    BY <1>1 DEF Working, Harness!InProgress
  <2> QED  BY <2>1, <2>2 DEF RunInv
<1> QED  BY <1>1, <1>3, <1>5, <1>6, <1>7, Proceeds

\* A step of run r with which an append begins.
LEMMA BeginsStep ==
  ASSUME HarnessInv, NEW r \in Runs, Working(r), NEW e \in Harness!Entry,
         NEW at \in {"prompts", "inject", "stream"} \cup Harness!Flushing, at = run[r].at,
         Moved(r, at, run[r].hand, run[r].context, Harness!AppendOf(e), run[r].terminal),
         at \in {"prompts", "inject"} => e = Head(run[r].hand), at = "stream" => e = <<"assistant", r>>,
         at \in Harness!Flushing => pending # <<>> /\ e = Head(pending),
         UNCHANGED <<phase, controller, runPromise, pending, model, queue, log, branch, call, op,
                     aborter, calls, failures, sent, seen, gone, accepted, gaveUp>>
  PROVE  HarnessInv'
<1>1. /\ run' \in [Runs -> Harness!RunType] /\ \A q \in Runs : q # r => run'[q] = run[q]
      /\ run'[r].at = run[r].at /\ run'[r].hand = run[r].hand /\ run'[r].context = run[r].context
      /\ run'[r].writing = Harness!AppendOf(e) /\ run'[r].terminal = run[r].terminal
  BY DEF Moved
<1>2. Harness!TypeOK /\ WritesInv /\ TextsInv /\ PhaseInv /\ RunInv(r)
  BY DEF HarnessInv
<1>3. Harness!TypeOK'
  BY <1>1, <1>2 DEF Harness!TypeOK, Runs
<1>4. calls' \in Nat /\ calls' >= calls
  BY <1>2 DEF Harness!TypeOK
<1>5. WritesInv'
  BY <1>2, <1>4, WritesStay
<1>6. TextsInv'
  <2>1. \A q \in Runs : run'[q].hand = run[q].hand
    BY <1>1
  <2> QED  BY <1>2, <1>4, <2>1, TextsStay
<1>7. RunInv(r)'
  <2>1. Harness!AppendOf(e).entry = e /\ Harness!AppendOf(e).path = branch
    BY DEF Harness!AppendOf
  <2>2. WritingInv(r)'
    BY <1>1, <2>1 DEF WritingInv
  <2>3. ContextInv(r)' /\ FailureInv(r)'
    BY <1>1, <1>2 DEF RunInv, ContextInv, FailureInv
  <2>4. HandInv(r)'
    <3>1. at # "failure"
      BY DEF Harness!Flushing
    <3> QED  BY <1>1, <1>2, <3>1 DEF RunInv, HandInv
  <2>5. Working(r)'
    BY <1>1 DEF Working, Harness!InProgress
  <2> QED  BY <2>2, <2>3, <2>4, <2>5 DEF RunInv
<1>8. run'[r].at \in Leaving /\ phase' = "turn" => failures' >= 2
  <2>1. \A q \in Runs : Working(q) => q = r
    BY Alone
  <2> QED  BY <1>1, <1>2, <2>1 DEF PhaseInv
<1>9. run'[r].at \notin {"ready", "done"}
  BY <1>1 DEF Working, Harness!InProgress
<1> QED  BY <1>1, <1>3, <1>5, <1>6, <1>7, <1>8, <1>9, Proceeds

\* A step of run r with which the append in flight, of no write and no text, is done.
LEMMA EndsStep ==
  ASSUME HarnessInv, NEW r \in Runs, Working(r), run[r].at \in {"stream", "failure"},
         run[r].writing # Harness!NoAppend, Harness!Appended(run[r].writing),
         NEW at \in {"turnEnd", "failure"}, NEW context, NEW terminal \in BOOLEAN,
         Moved(r, at, <<>>, context, Harness!NoAppend, terminal), run[r].hand = <<>>,
         failures' \in Nat, FailureInv(r)',
         UNCHANGED <<phase, controller, runPromise, pending, model, queue, call, op, aborter, calls,
                     sent, seen, gone, accepted, gaveUp>>
  PROVE  HarnessInv'
<1>1. /\ run' \in [Runs -> Harness!RunType] /\ \A q \in Runs : q # r => run'[q] = run[q]
      /\ run'[r].at = at /\ run'[r].hand = <<>> /\ run'[r].writing = Harness!NoAppend
  BY DEF Moved
<1>2. Harness!TypeOK /\ WritesInv /\ TextsInv /\ RunInv(r)
  BY DEF HarnessInv
<1> DEFINE e == <<"assistant", r>>
<1>3. run[r].writing.entry = e /\ run[r].writing.path = branch
  <2>1. run[r].at \notin Harness!Flushing \cup {"prompts", "inject"}
    BY DEF Harness!Flushing
  <2> QED  BY <1>2, <2>1 DEF RunInv, WritingInv
<1>4. e \in Harness!Entry /\ e[1] \notin Harness!WriteKinds /\ e[1] \notin Harness!TextKinds
  BY RunsAssumption DEF Harness!Entry, Harness!WriteKinds, Harness!TextKinds, Runs, Harness!Runs
<1> HIDE DEF e
<1>5. log' = Append(log, e) /\ branch' = Append(branch, e)
  BY <1>3 DEF Harness!Appended
<1>6. Harness!TypeOK'
  BY <1>1, <1>2, <1>4, <1>5 DEF Harness!TypeOK, Runs
<1>7. WritesInv'
  BY <1>2, <1>4, <1>5, WritesBeside
<1>8. TextsInv'
  <2>1. \A q \in Runs : run'[q].hand = run[q].hand
    BY <1>1
  <2> QED  BY <1>2, <1>4, <1>5, <2>1, TextsBeside
<1>9. RunInv(r)'
  <2>1. WritingInv(r)' /\ ContextInv(r)'
    BY <1>1 DEF WritingInv, ContextInv, Taking
  <2>2. HandInv(r)'
    BY <1>1, Empty DEF HandInv, Taking
  <2>3. Working(r)'
    BY <1>1 DEF Working, Harness!InProgress
  <2> QED  BY <2>1, <2>2, <2>3 DEF RunInv
<1>10. run'[r].at \notin {"ready", "done"} /\ run'[r].at \notin Leaving
  BY <1>1 DEF Leaving
<1> QED  BY <1>1, <1>6, <1>7, <1>8, <1>9, <1>10, Proceeds

\* The promise of prompt() settles.
LEMMA SettlesMoves ==
  ASSUME Harness!TypeOK, NEW r \in Runs, NEW ok \in BOOLEAN, Harness!Settles(r, ok)
  PROVE  /\ Moved(r, "done", <<>>, <<>>, Harness!NoAppend, FALSE)
         /\ runPromise' = 0 /\ phase' = IF ok THEN phase ELSE "idle"
<1>1. /\ Harness!NewRun \in Harness!RunType /\ Harness!NewRun.hand = <<>> /\ Harness!NewRun.context = <<>>
      /\ Harness!NewRun.writing = Harness!NoAppend /\ Harness!NewRun.terminal = FALSE
      /\ "done" \in Harness!Labels
  BY Empty DEF Harness!NewRun, Harness!RunType, Harness!Labels, Harness!InFlight
<1>2. Harness!Goes(r, Harness!NewRun, "done")
  BY DEF Harness!Settles
<1>3. Moved(r, "done", Harness!NewRun.hand, Harness!NewRun.context, Harness!NewRun.writing,
            Harness!NewRun.terminal)
  BY <1>1, <1>2, GoesMoves
<1> QED  BY <1>1, <1>3 DEF Harness!Settles

-----------------------------------------------------------------------------
(* The steps of a prompt before its loop *)

\* A run that is at a step of its own is in progress, and writes only where it says so.
LEMMA AtStep ==
  ASSUME HarnessInv, NEW r \in Runs, run[r].at \notin {"ready", "done"}
  PROVE  /\ Working(r) /\ Harness!TypeOK /\ RunInv(r) /\ r \in Nat
         /\ run[r] \in Harness!RunType /\ run[r].terminal \in BOOLEAN
         /\ run[r].at \notin {"prompts", "inject", "stream", "failure"} \cup Harness!Flushing =>
              run[r].writing = Harness!NoAppend
<1>1. Working(r) /\ Harness!TypeOK /\ RunInv(r)
  BY DEF Working, Harness!InProgress, HarnessInv
<1>2. run[r] \in Harness!RunType /\ run[r].terminal \in BOOLEAN
  BY <1>1, RunFields
<1>3. r \in Nat
  BY RunsAssumption DEF Runs, Harness!Runs
<1> QED  BY <1>1, <1>2, <1>3 DEF RunInv, WritingInv

\* A prompt begins a run of an idle harness.
LEMMA PromptStep ==
  ASSUME HarnessInv, NEW r \in Runs, Harness!Prompt(r)
  PROVE  HarnessInv'
<1>1. /\ run[r].at = "ready" /\ phase = "idle" /\ Harness!Quiet /\ phase' = "turn" /\ runPromise' = r
      /\ Harness!Goes(r, run[r], "snapshot")
      /\ UNCHANGED <<controller, pending, model, queue, log, branch, call, op, aborter, calls, failures,
                     sent, seen, gone, accepted, gaveUp>>
  BY DEF Harness!Prompt, Harness!MayUseIdle, Harness!session, Harness!callers, Harness!history
<1>2. /\ Harness!TypeOK /\ SerialInv /\ (\A q \in Runs : RunInv(q)) /\ WritesInv /\ TextsInv /\ AbortInv
  BY DEF HarnessInv
<1>3. /\ call = Harness!NoAppend /\ op.at = "none" /\ \A q \in Runs : ~Working(q)
  BY <1>1 DEF Harness!Quiet, Working, Runs
<1>4. Moved(r, "snapshot", run[r].hand, run[r].context, run[r].writing, run[r].terminal)
  <2>1. run[r] \in Harness!RunType /\ "snapshot" \in Harness!Labels
    BY <1>2, RunFields DEF Harness!Labels
  <2> QED  BY <1>1, <1>2, <2>1, GoesMoves
<1>5. run[r].hand = <<>> /\ run[r].writing = Harness!NoAppend /\ ~run[r].terminal
  BY <1>1, <1>2, <1>3 DEF RunInv, FailureInv
<1>6. /\ run' \in [Runs -> Harness!RunType] /\ \A q \in Runs : q # r => run'[q] = run[q]
      /\ run'[r].at = "snapshot" /\ run'[r].hand = <<>> /\ run'[r].writing = Harness!NoAppend
      /\ ~run'[r].terminal
  BY <1>4, <1>5 DEF Moved
<1>7. Harness!TypeOK'
  BY <1>1, <1>2, <1>6 DEF Harness!TypeOK, Runs
<1>8. calls' \in Nat /\ calls' >= calls
  BY <1>1, <1>2 DEF Harness!TypeOK
<1>9. WritesInv'
  BY <1>1, <1>2, <1>8, WritesStay
<1>10. TextsInv'
  <2>1. \A q \in Runs : run'[q].hand = run[q].hand
    BY <1>5, <1>6
  <2> QED  BY <1>1, <1>2, <1>8, <2>1, TextsStay
<1>11. \A q \in Runs : q # r => RunInv(q)' /\ ~Working(q)'
  <2> SUFFICES ASSUME NEW q \in Runs, q # r PROVE RunInv(q)' /\ ~Working(q)'
    OBVIOUS
  <2>1. run'[q] = run[q] /\ RunInv(q) /\ ~Working(q)
    BY <1>2, <1>3, <1>6
  <2>2. ~Working(q)'
    BY <2>1 DEF Working, Harness!InProgress
  <2> QED  BY <1>1, <2>1, <2>2 DEF RunInv, HandInv, WritingInv, ContextInv, FailureInv
<1>12. Working(r)' /\ RunInv(r)'
  <2>1. Working(r)'
    BY <1>6 DEF Working, Harness!InProgress
  <2>2. HandInv(r)'
    BY <1>6, Empty DEF HandInv, Taking
  <2> QED  BY <1>6, <2>1, <2>2 DEF RunInv, WritingInv, ContextInv, FailureInv, Taking
<1>13. SerialInv'
  BY <1>1, <1>3, <1>11 DEF SerialInv
<1>14. PhaseInv' /\ PendingInv' /\ CallerInv'
  BY <1>1, <1>3, <1>6, <1>12 DEF PhaseInv, PendingInv, CallerInv, Leaving
<1>15. AbortInv'
  <2>1. seen \subseteq Runs
    BY <1>2 DEF Harness!TypeOK, Runs
  <2>2. (\A q \in Runs : Working(q) => runPromise = q)'
    BY <1>1, <1>11
  <2>3. (aborter.at = "announce" => \A q \in seen : run[q].at = "done" \/ Working(q))'
    BY <1>1, <1>2, <1>3, <1>6, <2>1 DEF AbortInv
  <2>4. (aborter.at = "wait" => \A q \in seen : run[q].at = "done" \/ aborter.for = q)'
    BY <1>1, <1>2, <1>6, <2>1 DEF AbortInv
  <2> QED  BY <2>2, <2>3, <2>4 DEF AbortInv
<1> QED  BY <1>7, <1>9, <1>10, <1>11, <1>12, <1>13, <1>14, <1>15 DEF HarnessInv

\* A run starts from the path of the session, with the messages for the next turn in hand.
LEMMA TakeSnapshotStep ==
  ASSUME HarnessInv, NEW r \in Runs, Harness!TakeSnapshot(r)
  PROVE  HarnessInv'
<1> DEFINE x == queue["nextTurn"]
           hand == Append(x, <<"prompt", r>>)
           s == [run[r] EXCEPT !.context = branch, !.hand = hand]
           next == IF x = <<>> THEN "hook" ELSE "announce"
<1>1. /\ run[r].at = "snapshot" /\ Harness!Goes(r, s, next)
      /\ queue' = [queue EXCEPT !["nextTurn"] = <<>>]
      /\ UNCHANGED <<phase, controller, runPromise, pending, model, log, branch, call, op, aborter, calls,
                     failures, sent, seen, gone, accepted, gaveUp>>
  BY DEF Harness!TakeSnapshot, Harness!session, Harness!callers, Harness!history
<1>2. /\ Working(r) /\ Harness!TypeOK /\ RunInv(r) /\ r \in Nat /\ run[r] \in Harness!RunType
      /\ run[r].writing = Harness!NoAppend
  BY <1>1, AtStep DEF Harness!Flushing
<1>3. WritesInv /\ TextsInv
  BY DEF HarnessInv
<1>4. /\ "nextTurn" \in Harness!TextKinds /\ x \in Seq({"nextTurn"} \X Nat) /\ x \in Seq(Harness!Entry)
  BY <1>3, QueueTypes DEF TextsInv, Harness!TextKinds
<1> HIDE DEF x
<1>5. WithPrompt(hand, x, r) /\ hand \in Seq(Harness!Entry) /\ hand # <<>>
  <2>1. WithPrompt(hand, x, r)
    BY DEF WithPrompt
  <2>2. hand \in Seq(Harness!Entry)
    BY <1>2, <1>4, <2>1, SameTexts
  <2>3. hand # <<>>
    BY <1>4
  <2> QED  BY <2>1, <2>2, <2>3
<1>6. \A e \in Harness!Range(hand) : e[1] \in Harness!TextKinds \cup {"prompt"}
  <2>1. <<"prompt", r>> \in Harness!Entry
    BY <1>2 DEF Harness!Entry
  <2>2. Harness!Range(hand) = Harness!Range(x) \cup {<<"prompt", r>>}
    BY <1>4, <2>1, Added
  <2>3. \A e \in Harness!Range(x) : e[1] = "nextTurn"
    BY <1>4, OneKind
  <2> QED  BY <1>4, <2>2, <2>3
<1>7. (next = "announce" => \E q \in Seq({"nextTurn"} \X Nat) : hand = Append(q, <<"prompt", r>>))
  BY <1>4
<1> HIDE DEF hand
<1>8. Moved(r, next, hand, branch, Harness!NoAppend, run[r].terminal)
  <2>1. /\ s \in Harness!RunType /\ s.hand = hand /\ s.context = branch /\ s.writing = run[r].writing
        /\ s.terminal = run[r].terminal
    BY <1>2, <1>5 DEF Harness!RunType, Harness!TypeOK
  <2>2. next \in Harness!Labels
    BY DEF Harness!Labels
  <2> HIDE DEF s, next
  <2>3. Moved(r, next, s.hand, s.context, s.writing, s.terminal)
    BY <1>1, <1>2, <2>1, <2>2, GoesMoves
  <2> QED  BY <1>2, <2>1, <2>3
<1>9. next \in {"hook", "announce"}
  OBVIOUS
<1> HIDE DEF s, next
<1>10. /\ run' \in [Runs -> Harness!RunType] /\ \A q \in Runs : q # r => run'[q] = run[q]
       /\ run'[r].at = next /\ run'[r].hand = hand /\ run'[r].context = branch
       /\ run'[r].writing = Harness!NoAppend /\ run'[r].terminal = run[r].terminal
  BY <1>8 DEF Moved
<1>11. Harness!TypeOK'
  <2>1. queue' \in [Harness!TextKinds -> Seq(Harness!TextKinds \X Nat)]
    BY <1>1, <1>2, EmptySeq DEF Harness!TypeOK
  <2> QED  BY <1>1, <1>2, <1>10, <2>1 DEF Harness!TypeOK, Runs
<1>12. WritesInv'
  <2>1. calls' \in Nat /\ calls' >= calls
    BY <1>1, <1>2 DEF Harness!TypeOK
  <2> QED  BY <1>1, <1>2, <1>3, <2>1, WritesStay
<1>13. TextsInv'
  <2>1. \A q \in Runs : q # r => run[q].hand = <<>> /\ run'[q].hand = <<>>
    BY <1>2, <1>10, Alone
  <2>2. run[r].hand = <<>>
    BY <1>1, <1>2 DEF RunInv, HandInv, Taking
  <2>3. queue["nextTurn"] = x \o <<>> /\ <<>> \in Seq({"nextTurn"} \X Nat)
    BY <1>4, Empty, EmptySeq DEF x
  <2>4. WithPrompt(run'[r].hand, x, r)
    BY <1>5, <1>10
  <2> QED  BY <1>1, <1>2, <1>3, <1>4, <2>1, <2>2, <2>3, <2>4, TextsTaken
<1>14. RunInv(r)'
  <2>1. Working(r)'
    BY <1>9, <1>10 DEF Working, Harness!InProgress
  <2>2. HandInv(r)'
    BY <1>5, <1>6, <1>7, <1>9, <1>10 DEF HandInv, Taking
  <2>3. ~run[r].terminal
    BY <1>1, <1>2 DEF RunInv, FailureInv
  <2> QED  BY <1>1, <1>9, <1>10, <2>1, <2>2, <2>3 DEF RunInv, WritingInv, ContextInv, FailureInv
<1> QED  BY <1>1, <1>2, <1>9, <1>10, <1>11, <1>12, <1>13, <1>14, Proceeds DEF Leaving

\* A prompt whose snapshot fails rejects before it has taken a message.
LEMMA SnapshotFailsStep ==
  ASSUME HarnessInv, NEW r \in Runs, Harness!SnapshotFails(r)
  PROVE  HarnessInv'
<1>1. /\ run[r].at = "snapshot" /\ Harness!Failing /\ Harness!Settles(r, FALSE) /\ gaveUp' = TRUE
      /\ UNCHANGED <<controller, pending, model, queue, log, branch, call, op, aborter, calls,
                     sent, seen, gone, accepted>>
  BY DEF Harness!SnapshotFails, Harness!session, Harness!callers
<1>2. /\ Working(r) /\ Harness!TypeOK /\ RunInv(r) /\ run[r].hand = <<>>
  BY <1>1, AtStep DEF RunInv, HandInv, Taking
<1>3. WritesInv /\ TextsInv
  BY DEF HarnessInv
<1>4. /\ Moved(r, "done", <<>>, <<>>, Harness!NoAppend, FALSE) /\ runPromise' = 0 /\ phase' = "idle"
  BY <1>1, <1>2, SettlesMoves
<1>5. failures' \in Nat
  BY <1>1, <1>2, FailureCounts
<1>6. Harness!TypeOK'
  BY <1>1, <1>2, <1>4, <1>5 DEF Harness!TypeOK, Runs, Moved
<1>7. calls' \in Nat /\ calls' >= calls
  BY <1>1, <1>2 DEF Harness!TypeOK
<1>8. WritesInv'
  BY <1>1, <1>2, <1>3, <1>7, WritesStay
<1>9. TextsInv'
  <2>1. \A q \in Runs : run'[q].hand = run[q].hand
    BY <1>2, <1>4 DEF Moved
  <2> QED  BY <1>1, <1>2, <1>3, <1>7, <2>1, TextsStay
<1> QED  BY <1>1, <1>2, <1>4, <1>6, <1>8, <1>9, Finishes

\* The messages for the next turn stay in hand, or go back to the front of their queue.
LEMMA AnnounceNextTurnStep ==
  ASSUME HarnessInv, NEW r \in Runs, Harness!AnnounceNextTurn(r)
  PROVE  HarnessInv'
<1>1. /\ run[r].at = "announce"
      /\ UNCHANGED <<controller, pending, model, log, branch, call, op, aborter, calls, sent, seen, gone,
                     accepted>>
  BY DEF Harness!AnnounceNextTurn, Harness!session, Harness!callers
<1>2. /\ Working(r) /\ Harness!TypeOK /\ RunInv(r) /\ r \in Nat /\ run[r] \in Harness!RunType
      /\ run[r].writing = Harness!NoAppend /\ run[r].terminal \in BOOLEAN
  BY <1>1, AtStep DEF Harness!Flushing
<1>3. HandInv(r) /\ ContextInv(r) /\ FailureInv(r) /\ run[r].context = branch /\ ~run[r].terminal
  BY <1>1, <1>2 DEF RunInv, ContextInv, FailureInv, Taking
<1>4. CASE Harness!Goes(r, run[r], "hook") /\ UNCHANGED <<phase, runPromise, queue, failures, gaveUp>>
  <2>1. "hook" \in Harness!Labels
    BY DEF Harness!Labels
  <2>2. Moved(r, "hook", run[r].hand, run[r].context, Harness!NoAppend, run[r].terminal)
    BY <1>2, <1>4, <2>1, GoesMoves
  <2>3. HandInv(r)' /\ FailureInv(r)'
    BY <1>1, <1>3, <2>2 DEF HandInv, FailureInv, Moved, Taking
  <2>4. failures' \in Nat /\ controller' \in Runs \cup {0}
    BY <1>1, <1>2, <1>4 DEF Harness!TypeOK, Runs
  <2> QED  BY <1>1, <1>2, <1>3, <1>4, <2>1, <2>2, <2>3, <2>4, QuietStep DEF Leaving
<1>5. CASE /\ Harness!Failing /\ gaveUp' = TRUE /\ Harness!Settles(r, FALSE)
           /\ queue' = [queue EXCEPT !["nextTurn"] = Harness!Front(run[r].hand) \o @]
  <2>1. PICK x \in Seq({"nextTurn"} \X Nat) : run[r].hand = Append(x, <<"prompt", r>>)
    BY <1>1, <1>3 DEF HandInv
  <2>2. Harness!Front(run[r].hand) = x
    BY <2>1 DEF Harness!Front
  <2>3. /\ Moved(r, "done", <<>>, <<>>, Harness!NoAppend, FALSE) /\ runPromise' = 0 /\ phase' = "idle"
    BY <1>2, <1>5, SettlesMoves
  <2>4. failures' \in Nat
    BY <1>2, <1>5, FailureCounts
  <2>5. WritesInv /\ TextsInv /\ "nextTurn" \in Harness!TextKinds
    BY DEF HarnessInv, Harness!TextKinds
  <2>6. queue' = [queue EXCEPT !["nextTurn"] = x \o queue["nextTurn"]]
    BY <1>5, <2>2
  <2>7. TextsInv' /\ queue'["nextTurn"] \in Seq({"nextTurn"} \X Nat)
    <3>1. \A q \in Runs : q # r => run[q].hand = <<>> /\ run'[q].hand = <<>>
      BY <1>2, <2>3, Alone DEF Moved
    <3>2. WithPrompt(run[r].hand, x, r) /\ run'[r].hand = <<>>
      BY <2>1, <2>3 DEF WithPrompt, Moved
    <3> QED  BY <1>1, <1>2, <2>5, <2>6, <3>1, <3>2, TextsReturned
  <2>8. queue' \in [Harness!TextKinds -> Seq(Harness!TextKinds \X Nat)]
    <3>1. queue'["nextTurn"] \in Seq(Harness!TextKinds \X Nat)
      <4>1. {"nextTurn"} \X Nat \subseteq Harness!TextKinds \X Nat
        BY <2>5
      <4> QED  BY <2>7, <4>1, SeqMonotonic
    <3>2. queue' = [queue EXCEPT !["nextTurn"] = queue'["nextTurn"]]
      BY <1>2, <2>5, <2>6 DEF Harness!TypeOK
    <3> QED  BY <1>2, <3>1, <3>2 DEF Harness!TypeOK
  <2>9. Harness!TypeOK'
    BY <1>1, <1>2, <1>5, <2>3, <2>4, <2>8 DEF Harness!TypeOK, Runs, Moved
  <2>10. calls' \in Nat /\ calls' >= calls
    BY <1>1, <1>2 DEF Harness!TypeOK
  <2>11. WritesInv'
    BY <1>1, <1>2, <1>5, <2>5, <2>10, WritesStay
  <2> QED  BY <1>1, <1>2, <1>5, <2>3, <2>7, <2>9, <2>11, Finishes
<1> QED  BY <1>4, <1>5 DEF Harness!AnnounceNextTurn

\* The loop begins, or its hook fails and the messages in hand are gone.
LEMMA BeforeStartStep ==
  ASSUME HarnessInv, NEW r \in Runs, Harness!BeforeStart(r)
  PROVE  HarnessInv'
<1>1. /\ run[r].at = "hook"
      /\ UNCHANGED <<pending, model, queue, log, branch, call, op, aborter, calls, sent, seen, accepted>>
  BY DEF Harness!BeforeStart, Harness!session, Harness!callers
<1>2. /\ Working(r) /\ Harness!TypeOK /\ RunInv(r) /\ run[r] \in Harness!RunType
      /\ run[r].writing = Harness!NoAppend /\ run[r].terminal \in BOOLEAN
  BY <1>1, AtStep DEF Harness!Flushing
<1>3. HandInv(r) /\ FailureInv(r) /\ run[r].context = branch /\ ~run[r].terminal
  BY <1>1, <1>2 DEF RunInv, ContextInv, FailureInv, Taking
<1>4. CASE controller' = r /\ Harness!Goes(r, run[r], "prompts")
           /\ UNCHANGED <<phase, runPromise, gone, failures, gaveUp>>
  <2>1. "prompts" \in Harness!Labels
    BY DEF Harness!Labels
  <2>2. Moved(r, "prompts", run[r].hand, run[r].context, Harness!NoAppend, run[r].terminal)
    BY <1>2, <1>4, <2>1, GoesMoves
  <2>3. HandInv(r)' /\ FailureInv(r)'
    BY <1>1, <1>3, <2>2 DEF HandInv, FailureInv, Moved, Taking
  <2>4. failures' \in Nat /\ controller' \in Runs \cup {0}
    BY <1>1, <1>2, <1>4 DEF Harness!TypeOK, Runs
  <2> QED  BY <1>1, <1>2, <1>3, <1>4, <2>1, <2>2, <2>3, <2>4, QuietStep DEF Leaving
<1>5. CASE /\ Harness!Failing /\ gaveUp' = TRUE /\ gone' = gone \cup Harness!TextsIn(run[r].hand)
           /\ Harness!Settles(r, FALSE) /\ UNCHANGED controller
  <2>1. /\ Moved(r, "done", <<>>, <<>>, Harness!NoAppend, FALSE) /\ runPromise' = 0 /\ phase' = "idle"
    BY <1>2, <1>5, SettlesMoves
  <2>2. failures' \in Nat
    BY <1>2, <1>5, FailureCounts
  <2>3. WritesInv /\ TextsInv
    BY DEF HarnessInv
  <2>4. TextsInv'
    <3>1. \A q \in Runs : q # r => run[q].hand = <<>> /\ run'[q].hand = <<>>
      BY <1>2, <2>1, Alone DEF Moved
    <3>2. run'[r].hand = <<>>
      BY <2>1 DEF Moved
    <3> QED  BY <1>1, <1>2, <1>5, <2>3, <3>1, <3>2, TextsDropped
  <2>5. Harness!TypeOK'
    <3>1. Harness!TextsIn(run[r].hand) \subseteq Harness!Entry
      BY <1>2, RunFields, Elements DEF Harness!TextsIn
    <3> QED  BY <1>1, <1>2, <1>5, <2>1, <2>2, <3>1 DEF Harness!TypeOK, Runs, Moved
  <2>6. calls' \in Nat /\ calls' >= calls
    BY <1>1, <1>2 DEF Harness!TypeOK
  <2>7. WritesInv'
    BY <1>1, <1>2, <1>5, <2>3, <2>6, WritesStay
  <2> QED  BY <1>1, <1>2, <1>5, <2>1, <2>4, <2>5, <2>7, Finishes
<1> QED  BY <1>4, <1>5 DEF Harness!BeforeStart

-----------------------------------------------------------------------------
(* The steps of the loop *)

\* The step of run r fails, and the run goes on to report it.
LEMMA FailsStep ==
  ASSUME HarnessInv, NEW r \in Runs, Working(r), NEW context,
         Moved(r, "failure", run[r].hand, context, Harness!NoAppend, TRUE),
         failures' \in Nat, failures' >= 1,
         UNCHANGED <<phase, controller, runPromise, pending, model, queue, log, branch, call, op,
                     aborter, calls, sent, seen, gone, accepted, gaveUp>>
  PROVE  HarnessInv'
<1>1. Harness!TypeOK /\ RunInv(r)
  BY DEF HarnessInv
<1>2. /\ "failure" \in Harness!Labels /\ "failure" \notin {"ready", "done"} \cup Leaving
      /\ "failure" \notin Taking \cup {"poll", "follow", "stream"}
  BY DEF Harness!Labels, Taking, Leaving
<1>3. controller' \in Runs \cup {0}
  BY <1>1 DEF Harness!TypeOK, Runs
<1>4. HandInv(r)'
  BY <1>1, <1>2 DEF RunInv, HandInv, Moved
<1>5. FailureInv(r)'
  BY DEF FailureInv, Moved
<1> QED  BY <1>2, <1>3, <1>4, <1>5, QuietStep

\* A message in hand is announced, and its append begins.
LEMMA InjectBeginsStep ==
  ASSUME HarnessInv, NEW r \in Runs, Harness!InjectBegins(r)
  PROVE  HarnessInv'
<1> DEFINE e == Head(run[r].hand)
           s == [run[r] EXCEPT !.writing = Harness!AppendOf(e)]
<1>1. /\ run[r].at \in {"prompts", "inject"} /\ run[r].writing = Harness!NoAppend
      /\ \/ Harness!Goes(r, s, run[r].at) /\ UNCHANGED failures
         \/ Harness!Failing /\ Harness!Throws(r, run[r], run[r].at)
      /\ UNCHANGED <<phase, controller, runPromise, pending, model, queue, log, branch, call, op,
                     aborter, calls, sent, seen, gone, accepted, gaveUp>>
  BY DEF Harness!InjectBegins, Harness!session, Harness!callers, Harness!history
<1>2. /\ Working(r) /\ Harness!TypeOK /\ RunInv(r) /\ run[r] \in Harness!RunType
  BY <1>1, AtStep
<1>3. /\ run[r].hand # <<>> /\ run[r].hand \in Seq(Harness!Entry) /\ run[r].at \in Harness!Labels
      /\ ~run[r].terminal
  BY <1>1, <1>2, RunFields DEF RunInv, HandInv, FailureInv, Taking
<1>4. e \in Harness!Entry
  BY <1>3, Parts
<1> HIDE DEF e
<1>5. CASE Harness!Goes(r, s, run[r].at) /\ UNCHANGED failures
  <2>1. Harness!AppendOf(e) \in Harness!InFlight
    BY <1>2, <1>4, Appending
  <2>2. /\ s \in Harness!RunType /\ s.hand = run[r].hand /\ s.context = run[r].context
        /\ s.writing = Harness!AppendOf(e) /\ s.terminal = run[r].terminal
    BY <1>2, <2>1 DEF Harness!RunType
  <2> HIDE DEF s
  <2>3. Moved(r, run[r].at, s.hand, s.context, s.writing, s.terminal)
    BY <1>2, <1>3, <1>5, <2>2, GoesMoves
  <2>4. Moved(r, run[r].at, run[r].hand, run[r].context, Harness!AppendOf(e), run[r].terminal)
    BY <2>2, <2>3
  <2>5. run[r].at \in {"prompts", "inject", "stream"} \cup Harness!Flushing
        /\ run[r].at \notin {"stream"} \cup Harness!Flushing
    BY <1>1 DEF Harness!Flushing
  <2> QED  BY <1>1, <1>2, <1>4, <1>5, <2>4, <2>5, BeginsStep DEF e
<1>6. CASE Harness!Failing /\ Harness!Throws(r, run[r], run[r].at)
  <2>1. Moved(r, "failure", run[r].hand, run[r].context, Harness!NoAppend, TRUE)
    <3>1. Moved(r, IF run[r].terminal THEN run[r].at ELSE "failure", run[r].hand, run[r].context,
                run[r].writing, TRUE)
      BY <1>2, <1>3, <1>6, ThrowsMoves
    <3> QED  BY <1>1, <1>3, <3>1
  <2>2. failures' \in Nat /\ failures' >= 1
    BY <1>2, <1>6, FailureCounts
  <2> QED  BY <1>1, <1>2, <2>1, <2>2, FailsStep
<1> QED  BY <1>1, <1>5, <1>6

\* The message is in the session, and the loop goes on with it, or the append has failed.
LEMMA InjectEndsStep ==
  ASSUME HarnessInv, NEW r \in Runs, Harness!InjectEnds(r)
  PROVE  HarnessInv'
<1> DEFINE m == Head(run[r].hand)
           tail == Tail(run[r].hand)
           rest == [run[r] EXCEPT !.hand = Tail(@), !.writing = Harness!NoAppend,
                                  !.context = Append(@, m)]
           next == IF rest.hand # <<>> THEN run[r].at
                   ELSE IF run[r].at = "prompts" THEN "poll" ELSE "stream"
           failed == [run[r] EXCEPT !.writing = Harness!NoAppend]
<1>1. /\ run[r].at \in {"prompts", "inject"} /\ run[r].writing # Harness!NoAppend
      /\ \/ Harness!Appended(run[r].writing) /\ Harness!Emits(r, rest, next)
         \/ Harness!Failing /\ Harness!Throws(r, failed, next) /\ UNCHANGED <<log, branch>>
      /\ UNCHANGED <<phase, controller, runPromise, pending, model, queue, call, op, aborter, calls,
                     sent, seen, gone, accepted, gaveUp>>
  BY DEF Harness!InjectEnds, Harness!session, Harness!callers, Harness!history
<1>2. /\ Working(r) /\ Harness!TypeOK /\ RunInv(r) /\ run[r] \in Harness!RunType
  BY <1>1, AtStep
<1>3. /\ run[r].hand # <<>> /\ run[r].hand \in Seq(Harness!Entry) /\ run[r].at \in Harness!Labels
      /\ ~run[r].terminal /\ run[r].context = branch /\ run[r].context \in Seq(Harness!Entry)
      /\ \A e \in Harness!Range(run[r].hand) : e[1] \in Harness!TextKinds \cup {"prompt"}
  BY <1>1, <1>2, RunFields DEF RunInv, HandInv, FailureInv, ContextInv, Taking
<1>4. /\ m \in Harness!Entry /\ tail \in Seq(Harness!Entry) /\ m \in Harness!Range(run[r].hand)
      /\ Harness!Range(tail) \subseteq Harness!Range(run[r].hand)
  <2>1. /\ m \in Harness!Entry /\ tail \in Seq(Harness!Entry) /\ m \in Harness!Range(run[r].hand)
        /\ run[r].hand = <<m>> \o tail
    BY <1>3, Parts
  <2> HIDE DEF m, tail
  <2>2. Harness!Range(<<m>> \o tail) = {m} \cup Harness!Range(tail)
    BY <2>1, Added
  <2> QED  BY <2>1, <2>2
<1>5. run[r].writing.entry = m /\ run[r].writing.path = branch
  <2>1. run[r].at \notin Harness!Flushing
    BY <1>1 DEF Harness!Flushing
  <2> QED  BY <1>1, <1>2, <2>1 DEF RunInv, WritingInv
<1>6. /\ rest \in Harness!RunType /\ rest.hand = tail /\ rest.context = Append(branch, m)
      /\ rest.writing = Harness!NoAppend /\ rest.terminal = FALSE
  <2>1. Append(run[r].context, m) \in Seq(Harness!Entry) /\ Append(run[r].context, m) = Append(branch, m)
    BY <1>3, <1>4, Added
  <2>2. Harness!NoAppend \in Harness!InFlight
    BY DEF Harness!InFlight
  <2> HIDE DEF m
  <2> QED  BY <1>2, <1>3, <1>4, <2>1, <2>2 DEF Harness!RunType
<1>7. /\ failed \in Harness!RunType /\ failed.hand = run[r].hand /\ failed.context = run[r].context
      /\ failed.writing = Harness!NoAppend /\ failed.terminal = FALSE
  BY <1>2, <1>3 DEF Harness!RunType, Harness!InFlight
<1>8. /\ next = (IF tail # <<>> THEN run[r].at ELSE IF run[r].at = "prompts" THEN "poll" ELSE "stream")
      /\ next \in Harness!Labels
  BY <1>3, <1>6 DEF Harness!Labels
<1>9. m = Head(run[r].hand) /\ tail = Tail(run[r].hand)
  OBVIOUS
<1> HIDE DEF m, tail, rest, failed, next
<1>10. CASE Harness!Appended(run[r].writing) /\ Harness!Emits(r, rest, next)
  <2>1. log' = Append(log, m) /\ branch' = Append(branch, m)
    BY <1>5, <1>10 DEF Harness!Appended
  <2>2. /\ failures' \in Nat
        /\ \/ Moved(r, next, rest.hand, rest.context, rest.writing, FALSE)
           \/ Moved(r, "failure", rest.hand, rest.context, rest.writing, TRUE) /\ failures' >= 1
    BY <1>2, <1>6, <1>8, <1>10, EmitsOrFails
  <2>3. \E at \in {next, "failure"}, terminal \in BOOLEAN :
          /\ Moved(r, at, tail, Append(branch, m), Harness!NoAppend, terminal)
          /\ \/ at = next /\ terminal = FALSE
             \/ at = "failure" /\ terminal /\ failures' >= 1
    <3>1. CASE Moved(r, next, rest.hand, rest.context, rest.writing, FALSE)
      <4>1. Moved(r, next, tail, Append(branch, m), Harness!NoAppend, FALSE)
        BY <1>6, <3>1
      <4> QED  BY <4>1
    <3>2. CASE Moved(r, "failure", rest.hand, rest.context, rest.writing, TRUE) /\ failures' >= 1
      <4>1. Moved(r, "failure", tail, Append(branch, m), Harness!NoAppend, TRUE)
        BY <1>6, <3>2
      <4> QED  BY <3>2, <4>1
    <3> QED  BY <2>2, <3>1, <3>2
  <2>33. PICK at \in {next, "failure"}, terminal \in BOOLEAN :
          /\ Moved(r, at, tail, Append(branch, m), Harness!NoAppend, terminal)
          /\ \/ at = next /\ terminal = FALSE
             \/ at = "failure" /\ terminal /\ failures' >= 1
    BY <2>3
  <2>4. /\ run' \in [Runs -> Harness!RunType] /\ \A q \in Runs : q # r => run'[q] = run[q]
        /\ run'[r].at = at /\ run'[r].hand = tail /\ run'[r].context = Append(branch, m)
        /\ run'[r].writing = Harness!NoAppend /\ run'[r].terminal = terminal
    BY <2>33 DEF Moved
  <2>5. Harness!TypeOK'
    BY <1>1, <1>2, <1>4, <2>1, <2>2, <2>4 DEF Harness!TypeOK, Runs
  <2>6. WritesInv /\ TextsInv
    BY DEF HarnessInv
  <2>7. WritesInv'
    <3>1. m[1] \notin Harness!WriteKinds
      BY <1>3, <1>4 DEF Harness!WriteKinds, Harness!TextKinds
    <3> QED  BY <1>1, <1>2, <1>4, <2>1, <2>6, <3>1, WritesBeside
  <2>8. TextsInv'
    <3>1. \A q \in Runs : q # r => run[q].hand = <<>> /\ run'[q].hand = <<>>
      BY <1>2, <2>4, Alone
    <3> QED  BY <1>1, <1>2, <1>3, <1>9, <2>1, <2>4, <2>6, <3>1, TextsEnter
  <2>9. at \notin {"ready", "done"} \cup Leaving /\ (at # "failure" => at = next /\ ~terminal)
        /\ (at = "failure" => terminal /\ failures' >= 1)
    BY <1>1, <1>8, <2>33 DEF Leaving
  <2>10. RunInv(r)'
    <3>1. Working(r)'
      BY <2>4, <2>9 DEF Working, Harness!InProgress
    <3>2. HandInv(r)'
      BY <1>1, <1>3, <1>4, <1>8, <2>4, <2>9 DEF HandInv, Taking
    <3>3. WritingInv(r)' /\ ContextInv(r)'
      BY <2>1, <2>4 DEF WritingInv, ContextInv
    <3>4. FailureInv(r)'
      BY <2>4, <2>9 DEF FailureInv
    <3> QED  BY <3>1, <3>2, <3>3, <3>4 DEF RunInv
  <2> QED  BY <1>1, <1>2, <2>4, <2>5, <2>7, <2>8, <2>9, <2>10, Proceeds
<1>11. CASE Harness!Failing /\ Harness!Throws(r, failed, next) /\ UNCHANGED <<log, branch>>
  <2>1. Moved(r, "failure", run[r].hand, run[r].context, Harness!NoAppend, TRUE)
    BY <1>2, <1>7, <1>8, <1>11, ThrowsMoves
  <2>2. failures' \in Nat /\ failures' >= 1
    BY <1>2, <1>11, FailureCounts
  <2> QED  BY <1>1, <1>2, <1>11, <2>1, <2>2, FailsStep
<1> QED  BY <1>1, <1>10, <1>11

\* With nothing in hand and no append in flight, an event is heard or its listeners fail.
LEMMA EmitsQuiet ==
  ASSUME HarnessInv, NEW r \in Runs, Working(r), run[r].hand = <<>>, NEW s \in Harness!RunType,
         s.hand = <<>>, s.writing = Harness!NoAppend, s.terminal = run[r].terminal,
         NEW next \in Harness!Labels \ (Taking \cup {"ready", "done"}),
         \/ Harness!Goes(r, s, next) /\ failures' \in Nat /\ failures' >= failures
         \/ Harness!Throws(r, s, next) /\ failures' \in Nat /\ failures' >= 1,
         next = "failure" => run[r].terminal,
         run[r].terminal => next \in {"failure", "turnEnd", "flushTurn", "flushEnd", "ended", "flushFinal"},
         next \in {"poll", "follow", "stream"} => s.context = branch,
         next \in Leaving /\ phase' = "turn" => failures' >= 2, phase' \in {phase, "idle"},
         UNCHANGED <<controller, runPromise, pending, model, queue, log, branch, call, op, aborter,
                     calls, sent, seen, gone, accepted, gaveUp>>
  PROVE  HarnessInv'
<1>1. /\ Harness!TypeOK /\ RunInv(r) /\ run[r].terminal \in BOOLEAN /\ controller' \in Runs \cup {0}
      /\ failures \in Nat
  BY RunFields DEF HarnessInv, Harness!TypeOK, Runs
<1>2. \A at : run'[r].hand = <<>> /\ run'[r].at = at /\ at \notin Taking => HandInv(r)'
  BY Empty DEF HandInv, Taking
<1>3. CASE Harness!Goes(r, s, next) /\ failures' \in Nat /\ failures' >= failures
  <2>1. Moved(r, next, s.hand, s.context, s.writing, s.terminal)
    BY <1>1, <1>3, GoesMoves
  <2>2. Moved(r, next, run[r].hand, s.context, Harness!NoAppend, run[r].terminal)
    BY <2>1
  <2>3. HandInv(r)'
    BY <1>2, <2>2 DEF Moved
  <2>4. FailureInv(r)'
    BY <1>1, <1>3, <2>2 DEF RunInv, FailureInv, Moved
  <2>5. failures' \in Nat
    BY <1>1, <1>3
  <2>6. next \notin {"ready", "done"} /\ (next \in Taking \cup {"poll", "follow", "stream"} => s.context = branch)
    OBVIOUS
  <2> QED  BY <1>1, <2>2, <2>3, <2>4, <2>5, <2>6, QuietStep
<1>4. CASE Harness!Throws(r, s, next) /\ failures' \in Nat /\ failures' >= 1
  <2>1. Moved(r, IF s.terminal THEN next ELSE "failure", s.hand, s.context, s.writing, TRUE)
    BY <1>1, <1>4, ThrowsMoves
  <2> DEFINE at == IF run[r].terminal THEN next ELSE "failure"
  <2>2. at \in Harness!Labels /\ at \notin Taking \cup {"ready", "done"}
    BY DEF Harness!Labels, Taking
  <2>3. Moved(r, at, run[r].hand, s.context, Harness!NoAppend, TRUE)
    BY <2>1
  <2>4. at \in Leaving => run[r].terminal /\ at = next
    BY DEF Leaving
  <2>5. at \in {"failure", "turnEnd", "flushTurn", "flushEnd", "ended", "flushFinal"}
    OBVIOUS
  <2>6. at \in {"poll", "follow", "stream"} => s.context = branch
    BY <2>5
  <2> HIDE DEF at
  <2>7. HandInv(r)'
    BY <1>2, <2>2, <2>3 DEF Moved
  <2>8. FailureInv(r)'
    BY <1>4, <2>3, <2>5 DEF FailureInv, Moved
  <2>9. at \in Leaving /\ phase' = "turn" => failures' >= 2
    BY <2>4
  <2>10. at \notin {"ready", "done"} /\ (at \in Taking \cup {"poll", "follow", "stream"} => s.context = branch)
    BY <2>2, <2>6
  <2> QED  BY <1>1, <1>4, <2>2, <2>3, <2>7, <2>8, <2>9, <2>10, QuietStep
<1> QED  BY <1>3, <1>4

\* The loop polls a queue, and takes from it.
LEMMA DrainStep ==
  ASSUME HarnessInv, NEW r \in Runs, Harness!Drain(r)
  PROVE  HarnessInv'
<1> DEFINE k == Harness!Polls[run[r].at]
           n == IF Harness!Mode[k] = "all" THEN Len(queue[k]) ELSE 1
           x == SubSeq(queue[k], 1, n)
           y == SubSeq(queue[k], n + 1, Len(queue[k]))
           taken == [run[r] EXCEPT !.hand = x]
           none == IF run[r].at = "poll" THEN Harness!LoopHead(run[r]) ELSE "flushEnd"
           next == IF run[r].at = "poll" THEN "polled" ELSE "followed"
<1>1. /\ run[r].at \in {"poll", "follow"} /\ k = IF run[r].at = "poll" THEN "steer" ELSE "followUp"
      /\ UNCHANGED <<phase, controller, runPromise, pending, model, log, branch, call, op, aborter, calls,
                     failures, sent, seen, gone, accepted, gaveUp>>
  BY DEF Harness!Drain, Harness!Polls, Harness!session, Harness!callers, Harness!history
<1>2. \/ queue[k] = <<>> /\ Harness!Goes(r, run[r], none) /\ UNCHANGED queue
      \/ /\ queue[k] # <<>> /\ Harness!Goes(r, taken, next)
         /\ queue' = [queue EXCEPT ![k] = SubSeq(@, n + 1, Len(@))]
  BY DEF Harness!Drain
<1>3. /\ Working(r) /\ Harness!TypeOK /\ RunInv(r) /\ r \in Nat /\ run[r] \in Harness!RunType
      /\ run[r].writing = Harness!NoAppend /\ run[r].hand = <<>> /\ ~run[r].terminal
      /\ run[r].context = branch
  BY <1>1, AtStep DEF Harness!Flushing, RunInv, HandInv, ContextInv, FailureInv, Taking
<1>4. WritesInv /\ TextsInv
  BY DEF HarnessInv
<1>5. k \in Harness!TextKinds /\ queue[k] \in Seq({k} \X Nat) /\ queue[k] \in Seq(Harness!Entry)
  <2>1. k \in Harness!TextKinds
    BY <1>1 DEF Harness!TextKinds
  <2> HIDE DEF k
  <2> QED  BY <1>4, <2>1, QueueTypes DEF TextsInv
<1> HIDE DEF k
<1>6. CASE queue[k] = <<>> /\ Harness!Goes(r, run[r], none) /\ UNCHANGED queue
  <2>1. none \in {"follow", "flushEnd", "stream"}
    BY <1>1, <1>3 DEF Harness!LoopHead
  <2>2. none \in Harness!Labels \ (Taking \cup {"ready", "done"}) /\ none \notin Leaving /\ none # "failure"
    BY <2>1 DEF Harness!Labels, Harness!Flushing, Taking, Leaving
  <2> HIDE DEF none
  <2>3. failures' \in Nat /\ failures' >= failures
    BY <1>1, <1>3 DEF Harness!TypeOK
  <2> QED  BY <1>1, <1>3, <1>6, <2>2, <2>3, EmitsQuiet
<1>7. CASE /\ queue[k] # <<>> /\ Harness!Goes(r, taken, next)
           /\ queue' = [queue EXCEPT ![k] = SubSeq(@, n + 1, Len(@))]
  <2>1. n \in 1 .. Len(queue[k])
    BY <1>5, <1>7
  <2>2. queue' = [queue EXCEPT ![k] = y]
    BY <1>7
  <2> HIDE DEF n
  <2>3. /\ x \in Seq(Harness!Entry) /\ y \in Seq(Harness!Entry) /\ x # <<>> /\ queue[k] = x \o y
    BY <1>5, <1>7, <2>1, Parts
  <2>4. x \in Seq({k} \X Nat) /\ y \in Seq({k} \X Nat)
    <3>1. n \in Int /\ n >= 1 /\ n <= Len(queue[k]) /\ n + 1 \in Int /\ Len(queue[k]) \in Nat
      BY <1>5, <2>1
    <3>2. /\ \A i \in 1 .. n : queue[k][i] \in {k} \X Nat
          /\ \A i \in n + 1 .. Len(queue[k]) : queue[k][i] \in {k} \X Nat
      BY <1>5, <3>1
    <3> QED  BY <1>5, <3>1, <3>2, SubSeqProperties
  <2>5. next \in Harness!Labels /\ next = IF run[r].at = "poll" THEN "polled" ELSE "followed"
    BY DEF Harness!Labels
  <2> HIDE DEF x, y, next
  <2>6. /\ taken \in Harness!RunType /\ taken.hand = x /\ taken.context = branch
        /\ taken.writing = Harness!NoAppend /\ taken.terminal = run[r].terminal
    BY <1>3, <2>3 DEF Harness!RunType
  <2> HIDE DEF taken
  <2>7. Moved(r, next, x, branch, Harness!NoAppend, run[r].terminal)
    <3>1. Moved(r, next, taken.hand, taken.context, taken.writing, taken.terminal)
      BY <1>3, <1>7, <2>5, <2>6, GoesMoves
    <3> QED  BY <2>6, <3>1
  <2>8. /\ run' \in [Runs -> Harness!RunType] /\ \A q \in Runs : q # r => run'[q] = run[q]
        /\ run'[r].at = next /\ run'[r].hand = x /\ run'[r].context = branch
        /\ run'[r].writing = Harness!NoAppend /\ run'[r].terminal = run[r].terminal
    BY <2>7 DEF Moved
  <2>9. TextsInv'
    <3>1. \A q \in Runs : q # r => run[q].hand = <<>> /\ run'[q].hand = <<>>
      BY <1>3, <2>8, Alone
    <3>2. WithPrompt(run'[r].hand, x, r)
      BY <2>8 DEF WithPrompt
    <3> QED  BY <1>1, <1>3, <1>4, <1>5, <2>2, <2>3, <2>4, <3>1, <3>2, TextsTaken
  <2>10. Harness!TypeOK'
    <3>1. y \in Seq(Harness!TextKinds \X Nat)
      <4>1. {k} \X Nat \subseteq Harness!TextKinds \X Nat
        BY <1>5
      <4> QED  BY <2>4, <4>1, SeqMonotonic
    <3>2. queue' \in [Harness!TextKinds -> Seq(Harness!TextKinds \X Nat)]
      BY <1>3, <2>2, <3>1 DEF Harness!TypeOK
    <3> QED  BY <1>1, <1>3, <2>8, <3>2 DEF Harness!TypeOK, Runs
  <2>11. WritesInv'
    <3>1. calls' \in Nat /\ calls' >= calls
      BY <1>1, <1>3 DEF Harness!TypeOK
    <3> QED  BY <1>1, <1>3, <1>4, <3>1, WritesStay
  <2>12. RunInv(r)'
    <3>1. Working(r)'
      BY <2>5, <2>8 DEF Working, Harness!InProgress
    <3>2. \A e \in Harness!Range(x) : e[1] \in Harness!TextKinds
      BY <1>5, <2>4, OneKind
    <3>3. HandInv(r)'
      BY <1>1, <2>3, <2>4, <2>5, <2>8, <3>2 DEF HandInv, Taking
    <3> QED  BY <1>1, <1>3, <2>5, <2>8, <3>1, <3>3 DEF RunInv, WritingInv, ContextInv, FailureInv
  <2>13. run'[r].at \notin {"ready", "done"} \cup Leaving
    BY <2>5, <2>8 DEF Leaving
  <2> QED  BY <1>1, <1>3, <2>8, <2>9, <2>10, <2>11, <2>12, <2>13, Proceeds
<1> QED  BY <1>2, <1>6, <1>7

\* What was taken is announced, or goes back to where it came from, if that is still there.
LEMMA DrainedStep ==
  ASSUME HarnessInv, NEW r \in Runs, Harness!Drained(r)
  PROVE  HarnessInv'
<1> DEFINE k == IF run[r].at = "polled" THEN "steer" ELSE "followUp"
           kept == [run[r] EXCEPT !.orphaned = FALSE]
           back == [run[r] EXCEPT !.hand = <<>>, !.orphaned = FALSE]
           x == run[r].hand
<1>1. /\ run[r].at \in {"polled", "followed"}
      /\ UNCHANGED <<phase, controller, runPromise, pending, model, log, branch, call, op, aborter, calls,
                     sent, seen, accepted, gaveUp>>
  BY DEF Harness!Drained, Harness!session, Harness!callers, Harness!history
<1>2. \/ Harness!Goes(r, kept, "inject") /\ UNCHANGED <<queue, gone, failures>>
      \/ /\ Harness!Failing /\ Harness!Throws(r, back, "inject")
         /\ \/ run[r].orphaned /\ gone' = gone \cup Harness!TextsIn(x) /\ UNCHANGED queue
            \/ queue' = [queue EXCEPT ![k] = x \o queue[k]] /\ UNCHANGED gone
  BY DEF Harness!Drained
<1>3. /\ Working(r) /\ Harness!TypeOK /\ RunInv(r) /\ HandInv(r) /\ r \in Nat /\ run[r] \in Harness!RunType
      /\ run[r].writing = Harness!NoAppend /\ x # <<>> /\ x \in Seq(Harness!Entry) /\ ~run[r].terminal
      /\ run[r].context = branch
  BY <1>1, AtStep, RunFields DEF Harness!Flushing, RunInv, HandInv, ContextInv, FailureInv, Taking
<1>4. WritesInv /\ TextsInv
  BY DEF HarnessInv
<1>5. k \in Harness!TextKinds /\ x \in Seq({k} \X Nat) /\ "inject" \in Harness!Labels
  BY <1>1, <1>3 DEF Harness!TextKinds, HandInv, Harness!Labels
<1> HIDE DEF k
<1>6. CASE Harness!Goes(r, kept, "inject") /\ UNCHANGED <<queue, gone, failures>>
  <2>1. /\ kept \in Harness!RunType /\ kept.hand = x /\ kept.context = branch
        /\ kept.writing = Harness!NoAppend /\ kept.terminal = run[r].terminal
    BY <1>3 DEF Harness!RunType
  <2> HIDE DEF kept
  <2>2. Moved(r, "inject", kept.hand, kept.context, kept.writing, kept.terminal)
    BY <1>3, <1>5, <1>6, <2>1, GoesMoves
  <2>3. Moved(r, "inject", run[r].hand, branch, Harness!NoAppend, run[r].terminal)
    BY <2>1, <2>2
  <2>4. HandInv(r)' /\ FailureInv(r)'
    BY <1>3, <2>3 DEF HandInv, FailureInv, Moved, Taking
  <2>5. failures' \in Nat /\ controller' \in Runs \cup {0} /\ run[r].terminal \in BOOLEAN
    BY <1>1, <1>3, <1>6, RunFields DEF Harness!TypeOK, Runs
  <2>6. "inject" \notin {"ready", "done"} \cup Leaving
    BY DEF Leaving
  <2> QED  BY <1>1, <1>3, <1>5, <1>6, <2>3, <2>4, <2>5, <2>6, QuietStep
<1>7. CASE /\ Harness!Failing /\ Harness!Throws(r, back, "inject")
           /\ \/ run[r].orphaned /\ gone' = gone \cup Harness!TextsIn(x) /\ UNCHANGED queue
              \/ queue' = [queue EXCEPT ![k] = x \o queue[k]] /\ UNCHANGED gone
  <2>1. /\ back \in Harness!RunType /\ back.hand = <<>> /\ back.context = branch
        /\ back.writing = Harness!NoAppend /\ back.terminal = FALSE
    BY <1>3, Empty DEF Harness!RunType
  <2> HIDE DEF back
  <2>2. Moved(r, "failure", <<>>, branch, Harness!NoAppend, TRUE)
    <3>1. Moved(r, IF back.terminal THEN "inject" ELSE "failure", back.hand, back.context, back.writing, TRUE)
      BY <1>3, <1>5, <1>7, <2>1, ThrowsMoves
    <3> QED  BY <2>1, <3>1
  <2>3. failures' \in Nat /\ failures' >= 1
    BY <1>3, <1>7, FailureCounts
  <2>4. /\ run' \in [Runs -> Harness!RunType] /\ \A q \in Runs : q # r => run'[q] = run[q]
        /\ run'[r].at = "failure" /\ run'[r].hand = <<>> /\ run'[r].context = branch
        /\ run'[r].writing = Harness!NoAppend /\ run'[r].terminal = TRUE
    BY <2>2 DEF Moved
  <2>5. \A q \in Runs : q # r => run[q].hand = <<>> /\ run'[q].hand = <<>>
    BY <1>3, <2>4, Alone
  <2>6. /\ TextsInv' /\ gone' \subseteq Harness!Entry
        /\ queue' \in [Harness!TextKinds -> Seq(Harness!TextKinds \X Nat)]
    <3>1. CASE gone' = gone \cup Harness!TextsIn(x) /\ UNCHANGED queue
      <4>1. TextsInv'
        BY <1>1, <1>3, <1>4, <2>4, <2>5, <3>1, TextsDropped
      <4>2. Harness!TextsIn(x) \subseteq Harness!Entry
        BY <1>3, Elements DEF Harness!TextsIn
      <4> QED  BY <1>3, <3>1, <4>1, <4>2 DEF Harness!TypeOK
    <3>2. CASE queue' = [queue EXCEPT ![k] = x \o queue[k]] /\ UNCHANGED gone
      <4>1. WithPrompt(run[r].hand, x, r)
        BY DEF WithPrompt
      <4> HIDE DEF x
      <4>2. TextsInv' /\ queue'[k] \in Seq({k} \X Nat)
        BY <1>1, <1>3, <1>4, <1>5, <2>4, <2>5, <3>2, <4>1, TextsReturned
      <4>3. queue'[k] \in Seq(Harness!TextKinds \X Nat)
        <5>1. {k} \X Nat \subseteq Harness!TextKinds \X Nat
          BY <1>5
        <5> QED  BY <4>2, <5>1, SeqMonotonic
      <4>4. queue' = [queue EXCEPT ![k] = queue'[k]]
        BY <1>3, <1>5, <3>2 DEF Harness!TypeOK
      <4> QED  BY <1>3, <3>2, <4>2, <4>3, <4>4 DEF Harness!TypeOK
    <3> QED  BY <1>7, <3>1, <3>2
  <2>7. Harness!TypeOK'
    BY <1>1, <1>3, <2>3, <2>4, <2>6 DEF Harness!TypeOK, Runs
  <2>8. WritesInv'
    <3>1. calls' \in Nat /\ calls' >= calls
      BY <1>1, <1>3 DEF Harness!TypeOK
    <3> QED  BY <1>1, <1>3, <1>4, <3>1, WritesStay
  <2>9. RunInv(r)'
    <3>1. Working(r)'
      BY <2>4 DEF Working, Harness!InProgress
    <3>2. HandInv(r)'
      BY <2>4, Empty DEF HandInv, Taking
    <3> QED  BY <2>3, <2>4, <3>1, <3>2 DEF RunInv, WritingInv, ContextInv, FailureInv, Taking
  <2>10. run'[r].at \notin {"ready", "done"} \cup Leaving
    BY <2>4 DEF Leaving
  <2> QED  BY <1>1, <1>3, <2>4, <2>6, <2>7, <2>8, <2>9, <2>10, Proceeds
<1> QED  BY <1>2, <1>6, <1>7

\* The model answers, and the append of the answer begins, or the request fails.
LEMMA AnswerStep ==
  ASSUME HarnessInv, NEW r \in Runs, Harness!Answer(r)
  PROVE  HarnessInv'
<1> DEFINE e == <<"assistant", r>>
           s(o) == [run[r] EXCEPT !.writing = Harness!AppendOf(e), !.outcome = o,
                                  !.turns = IF o = "tools" THEN @ + 1 ELSE @]
<1>1. /\ run[r].at = "stream" /\ run[r].writing = Harness!NoAppend
      /\ \/ \E o \in {"tools", "stop", "error"} : Harness!Goes(r, s(o), "stream") /\ UNCHANGED failures
         \/ Harness!Failing /\ Harness!Throws(r, run[r], "stream")
      /\ UNCHANGED <<phase, controller, runPromise, pending, model, queue, log, branch, call, op,
                     aborter, calls, sent, seen, gone, accepted, gaveUp>>
  BY DEF Harness!Answer, Harness!session, Harness!callers, Harness!history
<1>2. /\ Working(r) /\ Harness!TypeOK /\ RunInv(r) /\ run[r] \in Harness!RunType /\ ~run[r].terminal
      /\ r \in Nat /\ "stream" \in Harness!Labels
  BY <1>1, AtStep DEF RunInv, FailureInv, Harness!Labels
<1>3. e \in Harness!Entry
  BY <1>2 DEF Harness!Entry
<1> HIDE DEF e
<1>4. CASE \E o \in {"tools", "stop", "error"} : Harness!Goes(r, s(o), "stream") /\ UNCHANGED failures
  <2>1. PICK o \in {"tools", "stop", "error"} : Harness!Goes(r, s(o), "stream") /\ UNCHANGED failures
    BY <1>4
  <2> DEFINE new == s(o)
  <2>2. Harness!AppendOf(e) \in Harness!InFlight
    BY <1>2, <1>3, Appending
  <2>3. /\ new \in Harness!RunType /\ new.hand = run[r].hand /\ new.context = run[r].context
        /\ new.writing = Harness!AppendOf(e) /\ new.terminal = run[r].terminal
    <3> DEFINE turns == IF o = "tools" THEN run[r].turns + 1 ELSE run[r].turns
    <3>1. turns \in Nat
      <4>1. run[r].turns \in Nat
        BY <1>2 DEF Harness!RunType
      <4> QED  BY <4>1
    <3>2. new = [run[r] EXCEPT !.writing = Harness!AppendOf(e), !.outcome = o, !.turns = turns]
      BY <1>2 DEF Harness!RunType
    <3> HIDE DEF turns, new
    <3> QED  BY <1>2, <2>2, <3>1, <3>2 DEF Harness!RunType
  <2>4. Harness!Goes(r, new, "stream")
    BY <2>1
  <2> HIDE DEF new
  <2>5. Moved(r, "stream", new.hand, new.context, new.writing, new.terminal)
    BY <1>2, <2>3, <2>4, GoesMoves
  <2>6. Moved(r, "stream", run[r].hand, run[r].context, Harness!AppendOf(e), run[r].terminal)
    BY <2>3, <2>5
  <2>7. "stream" \notin {"prompts", "inject"} \cup Harness!Flushing
    BY DEF Harness!Flushing
  <2> QED  BY <1>1, <1>2, <1>3, <2>1, <2>6, <2>7, BeginsStep DEF e
<1>5. CASE Harness!Failing /\ Harness!Throws(r, run[r], "stream")
  <2>1. Moved(r, "failure", run[r].hand, run[r].context, Harness!NoAppend, TRUE)
    <3>1. Moved(r, IF run[r].terminal THEN "stream" ELSE "failure", run[r].hand, run[r].context,
                run[r].writing, TRUE)
      BY <1>2, <1>5, ThrowsMoves
    <3> QED  BY <1>1, <1>2, <3>1
  <2>2. failures' \in Nat /\ failures' >= 1
    BY <1>2, <1>5, FailureCounts
  <2> QED  BY <1>1, <1>2, <2>1, <2>2, FailsStep
<1> QED  BY <1>1, <1>4, <1>5

\* The answer is in the session and the turn ends, or the run has failed.
LEMMA AnswerEndsStep ==
  ASSUME HarnessInv, NEW r \in Runs, Harness!AnswerEnds(r)
  PROVE  HarnessInv'
<1> DEFINE e == <<"assistant", r>>
           s == [run[r] EXCEPT !.writing = Harness!NoAppend, !.answered = TRUE, !.context = Append(@, e)]
<1>1. /\ run[r].at = "stream" /\ run[r].writing # Harness!NoAppend
      /\ \/ Harness!Appended(run[r].writing) /\ Harness!Emits(r, s, "turnEnd")
         \/ Harness!Failing /\ Harness!Throws(r, s, "turnEnd") /\ UNCHANGED <<log, branch>>
      /\ UNCHANGED <<phase, controller, runPromise, pending, model, queue, call, op, aborter, calls,
                     sent, seen, gone, accepted, gaveUp>>
  BY DEF Harness!AnswerEnds, Harness!session, Harness!callers, Harness!history
<1>2. /\ Working(r) /\ Harness!TypeOK /\ RunInv(r) /\ run[r] \in Harness!RunType /\ ~run[r].terminal
      /\ r \in Nat /\ "turnEnd" \in Harness!Labels /\ run[r].hand = <<>>
  BY <1>1, AtStep DEF RunInv, FailureInv, HandInv, Taking, Harness!Labels
<1>3. /\ s \in Harness!RunType /\ s.hand = run[r].hand /\ s.writing = Harness!NoAppend /\ ~s.terminal
  <2>1. e \in Harness!Entry
    BY <1>2 DEF Harness!Entry
  <2> HIDE DEF e
  <2>2. Append(run[r].context, e) \in Seq(Harness!Entry)
    BY <1>2, <2>1, RunFields
  <2>3. Harness!NoAppend \in Harness!InFlight
    BY DEF Harness!InFlight
  <2> QED  BY <1>2, <2>2, <2>3 DEF Harness!RunType
<1> HIDE DEF s
<1>4. CASE Harness!Appended(run[r].writing) /\ Harness!Emits(r, s, "turnEnd")
  <2>1. /\ failures' \in Nat
        /\ \/ Moved(r, "turnEnd", s.hand, s.context, s.writing, FALSE)
           \/ Moved(r, "failure", s.hand, s.context, s.writing, TRUE) /\ failures' >= 1
    BY <1>2, <1>3, <1>4, EmitsOrFails
  <2>2. CASE Moved(r, "turnEnd", s.hand, s.context, s.writing, FALSE)
    <3>1. Moved(r, "turnEnd", <<>>, s.context, Harness!NoAppend, FALSE)
      BY <1>2, <1>3, <2>2
    <3>2. FailureInv(r)'
      BY <3>1 DEF FailureInv, Moved
    <3> QED  BY <1>1, <1>2, <1>4, <2>1, <3>1, <3>2, EndsStep
  <2>3. CASE Moved(r, "failure", s.hand, s.context, s.writing, TRUE) /\ failures' >= 1
    <3>1. Moved(r, "failure", <<>>, s.context, Harness!NoAppend, TRUE)
      BY <1>2, <1>3, <2>3
    <3>2. FailureInv(r)'
      BY <2>3, <3>1 DEF FailureInv, Moved
    <3> QED  BY <1>1, <1>2, <1>4, <2>1, <3>1, <3>2, EndsStep
  <2> QED  BY <2>1, <2>2, <2>3
<1>5. CASE Harness!Failing /\ Harness!Throws(r, s, "turnEnd") /\ UNCHANGED <<log, branch>>
  <2>1. Moved(r, IF s.terminal THEN "turnEnd" ELSE "failure", s.hand, s.context, s.writing, TRUE)
    BY <1>2, <1>3, <1>5, ThrowsMoves
  <2>2. Moved(r, "failure", run[r].hand, s.context, Harness!NoAppend, TRUE)
    BY <1>3, <2>1
  <2>3. failures' \in Nat /\ failures' >= 1
    BY <1>2, <1>5, FailureCounts
  <2> QED  BY <1>1, <1>2, <1>5, <2>2, <2>3, FailsStep
<1> QED  BY <1>1, <1>4, <1>5

\* The run drops what it has in hand and begins to append the message that reports the failure.
LEMMA ReportStep ==
  ASSUME HarnessInv, NEW r \in Runs, Harness!Report(r)
  PROVE  HarnessInv'
<1> DEFINE e == <<"assistant", r>>
           s == [run[r] EXCEPT !.writing = Harness!AppendOf(e), !.hand = <<>>, !.outcome = "error",
                               !.answered = TRUE]
<1>1. /\ run[r].at = "failure" /\ Harness!Goes(r, s, "failure")
      /\ gone' = gone \cup Harness!TextsIn(run[r].hand)
      /\ UNCHANGED <<phase, controller, runPromise, pending, model, queue, log, branch, call, op,
                     aborter, calls, failures, sent, seen, accepted, gaveUp>>
  BY DEF Harness!Report, Harness!session, Harness!callers
<1>2. /\ Working(r) /\ Harness!TypeOK /\ RunInv(r) /\ run[r] \in Harness!RunType /\ run[r].terminal
      /\ r \in Nat /\ "failure" \in Harness!Labels /\ failures >= 1
  BY <1>1, AtStep DEF RunInv, FailureInv, Harness!Labels
<1>3. e \in Harness!Entry
  BY <1>2 DEF Harness!Entry
<1> HIDE DEF e
<1>4. Harness!AppendOf(e) \in Harness!InFlight /\ Harness!AppendOf(e).entry = e /\ Harness!AppendOf(e).path = branch
  BY <1>2, <1>3, Appending
<1>5. /\ s \in Harness!RunType /\ s.hand = <<>> /\ s.writing = Harness!AppendOf(e) /\ s.terminal
  BY <1>2, <1>4, Empty DEF Harness!RunType
<1> HIDE DEF s
<1>6. Moved(r, "failure", s.hand, s.context, s.writing, s.terminal)
  BY <1>1, <1>2, <1>5, GoesMoves
<1>7. /\ run' \in [Runs -> Harness!RunType] /\ \A q \in Runs : q # r => run'[q] = run[q]
      /\ run'[r].at = "failure" /\ run'[r].hand = <<>> /\ run'[r].writing = Harness!AppendOf(e)
      /\ run'[r].terminal
  BY <1>5, <1>6 DEF Moved
<1>8. WritesInv /\ TextsInv
  BY DEF HarnessInv
<1>9. TextsInv'
  <2>1. \A q \in Runs : q # r => run[q].hand = <<>> /\ run'[q].hand = <<>>
    BY <1>2, <1>7, Alone
  <2> QED  BY <1>1, <1>2, <1>7, <1>8, <2>1, TextsDropped
<1>10. Harness!TypeOK'
  <2>1. Harness!TextsIn(run[r].hand) \subseteq Harness!Entry
    BY <1>2, RunFields, Elements DEF Harness!TextsIn
  <2> QED  BY <1>1, <1>2, <1>7, <2>1 DEF Harness!TypeOK, Runs
<1>11. WritesInv'
  <2>1. calls' \in Nat /\ calls' >= calls
    BY <1>1, <1>2 DEF Harness!TypeOK
  <2> QED  BY <1>1, <1>2, <1>8, <2>1, WritesStay
<1>12. RunInv(r)'
  <2>1. Working(r)'
    BY <1>7 DEF Working, Harness!InProgress
  <2>2. HandInv(r)'
    BY <1>7, Empty DEF HandInv, Taking
  <2>3. WritingInv(r)'
    BY <1>1, <1>4, <1>7 DEF WritingInv, e
  <2> QED  BY <1>1, <1>2, <1>7, <2>1, <2>2, <2>3 DEF RunInv, ContextInv, FailureInv, Taking
<1>13. run'[r].at \notin {"ready", "done"} \cup Leaving
  BY <1>7 DEF Leaving
<1> QED  BY <1>1, <1>2, <1>7, <1>9, <1>10, <1>11, <1>12, <1>13, Proceeds

\* The report is in the session, or is lost.
LEMMA ReportedStep ==
  ASSUME HarnessInv, NEW r \in Runs, Harness!Reported(r)
  PROVE  HarnessInv'
<1> DEFINE s == [run[r] EXCEPT !.writing = Harness!NoAppend]
<1>1. /\ run[r].at = "failure" /\ run[r].writing # Harness!NoAppend /\ Harness!Goes(r, s, "turnEnd")
      /\ \/ Harness!Appended(run[r].writing) /\ UNCHANGED failures
         \/ Harness!Failing /\ UNCHANGED <<log, branch>>
      /\ UNCHANGED <<phase, controller, runPromise, pending, model, queue, call, op, aborter, calls,
                     sent, seen, gone, accepted, gaveUp>>
  BY DEF Harness!Reported, Harness!session, Harness!callers, Harness!history
<1>2. /\ Working(r) /\ Harness!TypeOK /\ RunInv(r) /\ run[r] \in Harness!RunType /\ run[r].terminal
      /\ run[r].terminal = TRUE /\ "turnEnd" \in Harness!Labels /\ run[r].hand = <<>> /\ failures >= 1
      /\ failures \in Nat
  BY <1>1, AtStep DEF RunInv, FailureInv, HandInv, Harness!Labels, Harness!TypeOK
<1>3. /\ s \in Harness!RunType /\ s.hand = <<>> /\ s.writing = Harness!NoAppend /\ s.terminal = TRUE
  BY <1>2 DEF Harness!RunType, Harness!InFlight
<1> HIDE DEF s
<1>4. CASE Harness!Appended(run[r].writing) /\ UNCHANGED failures
  <2>1. Moved(r, "turnEnd", s.hand, s.context, s.writing, s.terminal)
    BY <1>1, <1>2, <1>3, GoesMoves
  <2>2. Moved(r, "turnEnd", <<>>, s.context, Harness!NoAppend, TRUE)
    BY <1>3, <2>1
  <2>3. FailureInv(r)'
    BY <1>2, <1>4, <2>2 DEF FailureInv, Moved
  <2> QED  BY <1>1, <1>2, <1>4, <2>2, <2>3, EndsStep
<1>5. CASE Harness!Failing /\ UNCHANGED <<log, branch>>
  <2>1. failures' \in Nat /\ failures' >= failures
    BY <1>2, <1>5, FailureCounts
  <2>2. "turnEnd" \in Harness!Labels \ (Taking \cup {"ready", "done"}) /\ "turnEnd" \notin Leaving
    BY <1>2 DEF Taking, Leaving
  <2> QED  BY <1>1, <1>2, <1>3, <1>5, <2>1, <2>2, EmitsQuiet
<1> QED  BY <1>1, <1>4, <1>5

-----------------------------------------------------------------------------
(* The steps of the end of a turn, and of the flush *)

\* A run that is past its loop has nothing in hand, and when it leaves the harness busy there
\* have been two failures.
LEMMA PastLoop ==
  ASSUME HarnessInv, NEW r \in Runs, run[r].at \in {"turnEnd", "ended"} \cup Harness!Flushing
  PROVE  /\ Working(r) /\ Harness!TypeOK /\ RunInv(r) /\ run[r] \in Harness!RunType /\ run[r].hand = <<>>
         /\ run[r].terminal \in BOOLEAN /\ failures \in Nat /\ (run[r].terminal => failures >= 1)
         /\ run[r].at = "flushNext" => ~run[r].terminal
         /\ run[r].at \in Leaving /\ phase = "turn" => failures >= 2
<1>1. run[r].at \notin {"ready", "done", "failure"} \cup Taking
  BY DEF Harness!Flushing, Taking
<1>2. /\ Working(r) /\ Harness!TypeOK /\ RunInv(r) /\ run[r] \in Harness!RunType /\ run[r].terminal \in BOOLEAN
  BY <1>1, AtStep
<1>3. run[r].hand = <<>> /\ (run[r].terminal => failures >= 1) /\ (run[r].at = "flushNext" => ~run[r].terminal)
  BY <1>1, <1>2 DEF RunInv, HandInv, FailureInv
<1>4. \A q \in Runs : Working(q) => q = r
  BY <1>2, Alone
<1>5. PhaseInv /\ failures \in Nat
  BY DEF HarnessInv, Harness!TypeOK
<1> QED  BY <1>2, <1>3, <1>4, <1>5 DEF PhaseInv

\* The steps at which a run may be after its loop.
LEMMA PastLabels ==
  /\ {"turnEnd", "flushTurn", "flushNext", "flushEnd", "flushFinal", "ended"} \subseteq
       Harness!Labels \ (Taking \cup {"ready", "done", "failure"})
  /\ Harness!Flushing = {"flushTurn", "flushNext", "flushEnd", "flushFinal"}
  /\ "poll" \in Harness!Labels \ (Taking \cup {"ready", "done", "failure"}) /\ "poll" \notin Leaving
  /\ {"turnEnd", "flushTurn", "flushNext", "flushEnd"} \cap Leaving = {}
BY DEF Harness!Labels, Harness!Flushing, Taking, Leaving

\* The listeners of turn_end, whose failure waits.
LEMMA TurnEndStep ==
  ASSUME HarnessInv, NEW r \in Runs, Harness!TurnEnd(r)
  PROVE  HarnessInv'
<1> DEFINE broken == [run[r] EXCEPT !.broken = TRUE]
<1>1. /\ run[r].at = "turnEnd"
      /\ \/ Harness!Goes(r, run[r], "flushTurn") /\ UNCHANGED failures
         \/ Harness!Failing /\ Harness!Goes(r, broken, "flushTurn")
      /\ UNCHANGED <<phase, controller, runPromise, pending, model, queue, log, branch, call, op, aborter,
                     calls, sent, seen, gone, accepted, gaveUp>>
  BY DEF Harness!TurnEnd, Harness!session, Harness!callers, Harness!history
<1>2. /\ Working(r) /\ Harness!TypeOK /\ RunInv(r) /\ run[r] \in Harness!RunType /\ run[r].hand = <<>>
      /\ failures \in Nat /\ run[r].writing = Harness!NoAppend
  BY <1>1, PastLoop, PastLabels, AtStep
<1>3. /\ broken \in Harness!RunType /\ broken.hand = <<>> /\ broken.writing = Harness!NoAppend
      /\ broken.terminal = run[r].terminal
  BY <1>2 DEF Harness!RunType
<1> HIDE DEF broken
<1>4. "flushTurn" \in Harness!Labels \ (Taking \cup {"ready", "done"}) /\ "flushTurn" \notin Leaving
  BY PastLabels
<1>5. CASE Harness!Goes(r, run[r], "flushTurn") /\ UNCHANGED failures
  <2>1. failures' \in Nat /\ failures' >= failures
    BY <1>2, <1>5
  <2> QED  BY <1>1, <1>2, <1>4, <1>5, <2>1, EmitsQuiet
<1>6. CASE Harness!Failing /\ Harness!Goes(r, broken, "flushTurn")
  <2>1. failures' \in Nat /\ failures' >= failures
    BY <1>2, <1>6, FailureCounts
  <2> QED  BY <1>1, <1>2, <1>3, <1>4, <1>6, <2>1, EmitsQuiet
<1> QED  BY <1>1, <1>5, <1>6

\* The append of the first write in the queue begins.
LEMMA FlushBeginsStep ==
  ASSUME HarnessInv, NEW r \in Runs, Harness!FlushBegins(r)
  PROVE  HarnessInv'
<1> DEFINE e == Head(pending)
           s == [run[r] EXCEPT !.writing = Harness!AppendOf(e)]
<1>1. /\ run[r].at \in Harness!Flushing /\ run[r].writing = Harness!NoAppend /\ pending # <<>>
      /\ Harness!Goes(r, s, run[r].at)
      /\ UNCHANGED <<phase, controller, runPromise, pending, model, queue, log, branch, call, op, aborter,
                     calls, failures, sent, seen, gone, accepted, gaveUp>>
  BY DEF Harness!FlushBegins, Harness!session, Harness!callers, Harness!history
<1>2. /\ Working(r) /\ Harness!TypeOK /\ RunInv(r) /\ run[r] \in Harness!RunType /\ run[r].at \in Harness!Labels
  BY <1>1, PastLoop, RunFields
<1>3. e \in Harness!Entry
  BY <1>1, <1>2, EntryTypes, Parts
<1>4. e = Head(pending)
  OBVIOUS
<1> HIDE DEF e
<1>5. Harness!AppendOf(e) \in Harness!InFlight
  BY <1>2, <1>3, Appending
<1>6. /\ s \in Harness!RunType /\ s.hand = run[r].hand /\ s.context = run[r].context
      /\ s.writing = Harness!AppendOf(e) /\ s.terminal = run[r].terminal
  BY <1>2, <1>5 DEF Harness!RunType
<1> HIDE DEF s
<1>7. Moved(r, run[r].at, s.hand, s.context, s.writing, s.terminal)
  BY <1>1, <1>2, <1>6, GoesMoves
<1>8. Moved(r, run[r].at, run[r].hand, run[r].context, Harness!AppendOf(e), run[r].terminal)
  BY <1>6, <1>7
<1>9. run[r].at \notin {"prompts", "inject", "stream"}
  BY <1>1, PastLabels
<1> QED  BY <1>1, <1>2, <1>3, <1>4, <1>8, <1>9, BeginsStep

\* The write is in the session, and in the queue no more.
LEMMA FlushEndsStep ==
  ASSUME HarnessInv, NEW r \in Runs, Harness!FlushEnds(r)
  PROVE  HarnessInv'
<1> DEFINE e == Head(pending)
           s == [run[r] EXCEPT !.writing = Harness!NoAppend]
<1>1. /\ run[r].at \in Harness!Flushing /\ run[r].writing # Harness!NoAppend
      /\ Harness!Appended(run[r].writing) /\ Harness!Goes(r, s, run[r].at)
      /\ pending' = (IF pending = <<>> THEN pending ELSE Tail(pending))
      /\ UNCHANGED <<phase, controller, runPromise, model, queue, call, op, aborter, calls, failures, sent,
                     seen, gone, accepted, gaveUp>>
  BY DEF Harness!FlushEnds, Harness!callers, Harness!history
<1>2. /\ Working(r) /\ Harness!TypeOK /\ RunInv(r) /\ run[r] \in Harness!RunType /\ run[r].hand = <<>>
      /\ run[r].at \in Harness!Labels /\ failures \in Nat
      /\ run[r].at \in Leaving /\ phase = "turn" => failures >= 2
  BY <1>1, PastLoop, RunFields
<1>3. pending # <<>> /\ run[r].writing.entry = e /\ run[r].writing.path = branch
  <2>1. run[r].at \notin {"prompts", "inject", "stream", "failure"}
    BY <1>1, PastLabels
  <2> QED  BY <1>1, <1>2, <2>1 DEF RunInv, WritingInv
<1>4. /\ e \in Harness!Entry /\ e[1] \in Harness!WriteKinds /\ Tail(pending) \in Seq(Harness!WriteKinds \X Nat)
  <2>1. pending \in Seq(Harness!WriteKinds \X Nat) /\ pending \in Seq(Harness!Entry)
    BY <1>2, EntryTypes
  <2>2. e \in Harness!Entry /\ e \in Harness!Range(pending)
    BY <1>3, <2>1, Parts
  <2>3. \A f \in Harness!Range(pending) : f[1] \in Harness!WriteKinds
    BY <1>2, EntryTypes
  <2> HIDE DEF e
  <2> QED  BY <1>3, <2>1, <2>2, <2>3
<1>5. /\ s \in Harness!RunType /\ s.hand = <<>> /\ s.writing = Harness!NoAppend /\ s.terminal = run[r].terminal
  BY <1>2 DEF Harness!RunType, Harness!InFlight
<1>6. e = Head(pending) /\ pending' = Tail(pending)
  BY <1>1, <1>3
<1> HIDE DEF s, e
<1>7. Moved(r, run[r].at, s.hand, s.context, s.writing, s.terminal)
  BY <1>1, <1>2, <1>5, GoesMoves
<1>8. /\ run' \in [Runs -> Harness!RunType] /\ \A q \in Runs : q # r => run'[q] = run[q]
      /\ run'[r].at = run[r].at /\ run'[r].hand = <<>> /\ run'[r].writing = Harness!NoAppend
      /\ run'[r].terminal = run[r].terminal
  BY <1>5, <1>7 DEF Moved
<1>9. log' = Append(log, e) /\ branch' = Append(branch, e)
  BY <1>1, <1>3 DEF Harness!Appended
<1>10. WritesInv /\ TextsInv
  BY DEF HarnessInv
<1>11. Harness!TypeOK'
  BY <1>1, <1>2, <1>4, <1>6, <1>8, <1>9 DEF Harness!TypeOK, Runs
<1>12. WritesInv'
  BY <1>1, <1>2, <1>3, <1>6, <1>9, <1>10, WritesFlushed
<1>13. TextsInv'
  <2>1. \A q \in Runs : run'[q].hand = run[q].hand
    BY <1>2, <1>8
  <2>2. e[1] \notin Harness!TextKinds
    BY <1>4 DEF Harness!TextKinds, Harness!WriteKinds
  <2> QED  BY <1>1, <1>2, <1>4, <1>9, <1>10, <2>1, <2>2, TextsBeside
<1>14. RunInv(r)'
  <2>1. Working(r)'
    BY <1>2, <1>8 DEF Working, Harness!InProgress
  <2>2. run[r].at \notin Taking \cup {"failure", "poll", "follow", "stream"}
    BY <1>1 DEF Harness!Flushing, Taking
  <2>3. HandInv(r)'
    BY <1>8, <2>2, Empty DEF HandInv, Taking
  <2> QED  BY <1>1, <1>2, <1>8, <2>1, <2>2, <2>3 DEF RunInv, WritingInv, ContextInv, FailureInv
<1>15. run'[r].at \notin {"ready", "done"}
  BY <1>2, <1>8 DEF Working, Harness!InProgress
<1> QED  BY <1>1, <1>2, <1>8, <1>11, <1>12, <1>13, <1>14, <1>15, Proceeds

\* The append fails, and the write stays in the queue.
LEMMA FlushFailsStep ==
  ASSUME HarnessInv, NEW r \in Runs, Harness!FlushFails(r)
  PROVE  HarnessInv'
<1> DEFINE s == [run[r] EXCEPT !.writing = Harness!NoAppend, !.broken = FALSE]
           next == IF run[r].at = "flushEnd" THEN "flushFinal" ELSE "flushEnd"
<1>1. /\ run[r].at \in Harness!Flushing /\ Harness!Failing
      /\ \/ /\ run[r].at # "flushFinal" /\ Harness!Throws(r, s, next)
            /\ UNCHANGED <<phase, controller, runPromise, gaveUp>>
         \/ run[r].at = "flushFinal" /\ controller' = 0 /\ gaveUp' = TRUE /\ Harness!Settles(r, FALSE)
      /\ UNCHANGED <<pending, model, queue, log, branch, call, op, aborter, calls, sent, seen, gone,
                     accepted>>
  BY DEF Harness!FlushFails, Harness!session, Harness!callers
<1>2. /\ Working(r) /\ Harness!TypeOK /\ RunInv(r) /\ run[r] \in Harness!RunType /\ run[r].hand = <<>>
      /\ failures \in Nat /\ run[r].terminal \in BOOLEAN /\ (run[r].terminal => failures >= 1)
      /\ run[r].at = "flushNext" => ~run[r].terminal
  BY <1>1, PastLoop
<1>3. failures' \in Nat /\ failures' >= 1 /\ failures' = failures + 1
  BY <1>1, <1>2, FailureCounts
<1>4. CASE /\ run[r].at # "flushFinal" /\ Harness!Throws(r, s, next)
           /\ UNCHANGED <<phase, controller, runPromise, gaveUp>>
  <2>1. /\ s \in Harness!RunType /\ s.hand = <<>> /\ s.writing = Harness!NoAppend
        /\ s.terminal = run[r].terminal
    BY <1>2 DEF Harness!RunType, Harness!InFlight
  <2> HIDE DEF s
  <2>2. next \in Harness!Labels \ (Taking \cup {"ready", "done"}) /\ next \in {"flushEnd", "flushFinal"}
    BY PastLabels
  <2> HIDE DEF next
  <2>3. CASE run[r].terminal
    <3>1. failures' >= 2
      BY <1>2, <1>3, <2>3
    <3> QED  BY <1>1, <1>2, <1>3, <1>4, <2>1, <2>2, <2>3, <3>1, EmitsQuiet
  <2>4. CASE ~run[r].terminal
    <3>1. Moved(r, IF s.terminal THEN next ELSE "failure", s.hand, s.context, s.writing, TRUE)
      BY <1>2, <1>4, <2>1, <2>2, ThrowsMoves
    <3>2. Moved(r, "failure", run[r].hand, s.context, Harness!NoAppend, TRUE)
      BY <1>2, <2>1, <2>4, <3>1
    <3> QED  BY <1>1, <1>2, <1>3, <1>4, <3>2, FailsStep
  <2> QED  BY <2>3, <2>4
<1>5. CASE run[r].at = "flushFinal" /\ controller' = 0 /\ gaveUp' = TRUE /\ Harness!Settles(r, FALSE)
  <2>1. /\ Moved(r, "done", <<>>, <<>>, Harness!NoAppend, FALSE) /\ runPromise' = 0 /\ phase' = "idle"
    BY <1>2, <1>5, SettlesMoves
  <2>2. WritesInv /\ TextsInv
    BY DEF HarnessInv
  <2>3. Harness!TypeOK'
    BY <1>1, <1>2, <1>3, <1>5, <2>1 DEF Harness!TypeOK, Runs, Moved
  <2>4. calls' \in Nat /\ calls' >= calls
    BY <1>1, <1>2 DEF Harness!TypeOK
  <2>5. WritesInv'
    BY <1>1, <1>2, <1>5, <2>2, <2>4, WritesStay
  <2>6. TextsInv'
    <3>1. \A q \in Runs : run'[q].hand = run[q].hand
      BY <1>2, <2>1 DEF Moved
    <3> QED  BY <1>1, <1>2, <2>2, <2>4, <3>1, TextsStay
  <2> QED  BY <1>1, <1>2, <1>5, <2>1, <2>3, <2>5, <2>6, Finishes
<1> QED  BY <1>1, <1>4, <1>5

\* An event is heard, or a failure is counted.
LEMMA EmitsCounts ==
  ASSUME Harness!TypeOK, NEW r \in Runs, NEW s, NEW next, Harness!Emits(r, s, next)
  PROVE  \/ Harness!Goes(r, s, next) /\ failures' \in Nat /\ failures' >= failures
         \/ Harness!Throws(r, s, next) /\ failures' \in Nat /\ failures' >= 1 /\ failures' = failures + 1
<1>1. CASE Harness!Goes(r, s, next) /\ UNCHANGED failures
  BY <1>1 DEF Harness!TypeOK
<1>2. CASE Harness!Failing /\ Harness!Throws(r, s, next)
  BY <1>2, FailureCounts
<1> QED  BY <1>1, <1>2 DEF Harness!Emits

\* A turn_end listener that has failed has been counted.
BrokenInv == \A r \in Runs : run[r].broken => failures >= 1

\* After the flush at turn_end the loop goes on, or ends.
LEMMA AfterTurnStep ==
  ASSUME HarnessInv, BrokenInv, NEW r \in Runs, Harness!AfterTurn(r)
  PROVE  HarnessInv'
<1> DEFINE s == [run[r] EXCEPT !.broken = FALSE]
           next == IF s.terminal \/ s.outcome = "error" THEN "flushEnd" ELSE "flushNext"
<1>1. /\ run[r].at = "flushTurn" /\ run[r].writing = Harness!NoAppend
      /\ IF run[r].broken THEN Harness!Throws(r, s, next) /\ UNCHANGED failures
                          ELSE Harness!Emits(r, s, next)
      /\ UNCHANGED <<phase, controller, runPromise, pending, model, queue, log, branch, call, op, aborter,
                     calls, sent, seen, gone, accepted, gaveUp>>
  BY DEF Harness!AfterTurn, Harness!Flushed, Harness!session, Harness!callers, Harness!history
<1>2. /\ Working(r) /\ Harness!TypeOK /\ RunInv(r) /\ run[r] \in Harness!RunType /\ run[r].hand = <<>>
      /\ failures \in Nat
  BY <1>1, PastLoop, PastLabels
<1>3. /\ s \in Harness!RunType /\ s.hand = <<>> /\ s.writing = Harness!NoAppend
      /\ s.terminal = run[r].terminal
  BY <1>1, <1>2 DEF Harness!RunType
<1>4. next \in {"flushEnd", "flushNext"} /\ (run[r].terminal => next = "flushEnd")
  BY <1>3
<1>5. next \in Harness!Labels \ (Taking \cup {"ready", "done"}) /\ next \notin Leaving
  BY <1>4, PastLabels
<1> HIDE DEF s, next
<1>6. \/ Harness!Goes(r, s, next) /\ failures' \in Nat /\ failures' >= failures
      \/ Harness!Throws(r, s, next) /\ failures' \in Nat /\ failures' >= 1
  <2>1. CASE run[r].broken
    <3>1. failures >= 1
      BY <2>1 DEF BrokenInv
    <3> QED  BY <1>1, <1>2, <2>1, <3>1
  <2>2. CASE ~run[r].broken
    BY <1>1, <1>2, <2>2, EmitsCounts
  <2> QED  BY <2>1, <2>2
<1> QED  BY <1>1, <1>2, <1>3, <1>4, <1>5, <1>6, EmitsQuiet

\* The loop goes on with a new snapshot.
LEMMA PrepareNextTurnStep ==
  ASSUME HarnessInv, NEW r \in Runs, Harness!PrepareNextTurn(r)
  PROVE  HarnessInv'
<1> DEFINE s == [run[r] EXCEPT !.context = branch]
<1>1. /\ run[r].at = "flushNext" /\ run[r].writing = Harness!NoAppend /\ Harness!Emits(r, s, "poll")
      /\ UNCHANGED <<phase, controller, runPromise, pending, model, queue, log, branch, call, op, aborter,
                     calls, sent, seen, gone, accepted, gaveUp>>
  BY DEF Harness!PrepareNextTurn, Harness!Flushed, Harness!session, Harness!callers, Harness!history
<1>2. /\ Working(r) /\ Harness!TypeOK /\ RunInv(r) /\ run[r] \in Harness!RunType /\ run[r].hand = <<>>
      /\ failures \in Nat /\ ~run[r].terminal
  BY <1>1, PastLoop, PastLabels
<1>3. /\ s \in Harness!RunType /\ s.hand = <<>> /\ s.writing = Harness!NoAppend
      /\ s.terminal = run[r].terminal /\ s.context = branch
  BY <1>1, <1>2 DEF Harness!RunType, Harness!TypeOK
<1> HIDE DEF s
<1>4. \/ Harness!Goes(r, s, "poll") /\ failures' \in Nat /\ failures' >= failures
      \/ Harness!Throws(r, s, "poll") /\ failures' \in Nat /\ failures' >= 1
  BY <1>1, <1>2, EmitsCounts
<1>5. "poll" \in Harness!Labels \ (Taking \cup {"ready", "done"}) /\ "poll" \notin Leaving
  BY PastLabels
<1> QED  BY <1>1, <1>2, <1>3, <1>4, <1>5, EmitsQuiet

\* The phase is idle when agent_end is emitted.
LEMMA AgentEndStep ==
  ASSUME HarnessInv, NEW r \in Runs, Harness!AgentEnd(r)
  PROVE  HarnessInv'
<1>1. /\ run[r].at = "flushEnd" /\ run[r].writing = Harness!NoAppend /\ phase' = "idle"
      /\ Harness!Goes(r, run[r], "ended")
      /\ UNCHANGED <<controller, runPromise, pending, model, queue, log, branch, call, op, aborter,
                     calls, failures, sent, seen, gone, accepted, gaveUp>>
  BY DEF Harness!AgentEnd, Harness!Flushed, Harness!session, Harness!callers, Harness!history
<1>2. /\ Working(r) /\ Harness!TypeOK /\ RunInv(r) /\ run[r] \in Harness!RunType /\ run[r].hand = <<>>
      /\ failures \in Nat
  BY <1>1, PastLoop, PastLabels
<1>3. failures' \in Nat /\ failures' >= failures
  BY <1>1, <1>2
<1>4. "ended" \in Harness!Labels \ (Taking \cup {"ready", "done"})
  BY PastLabels
<1> QED  BY <1>1, <1>2, <1>3, <1>4, EmitsQuiet

\* The listeners of agent_end and settled.
LEMMA EndedStep ==
  ASSUME HarnessInv, NEW r \in Runs, Harness!Ended(r)
  PROVE  HarnessInv'
<1>1. /\ run[r].at = "ended" /\ Harness!Emits(r, run[r], "flushFinal")
      /\ UNCHANGED <<phase, controller, runPromise, pending, model, queue, log, branch, call, op, aborter,
                     calls, sent, seen, gone, accepted, gaveUp>>
  BY DEF Harness!Ended, Harness!session, Harness!callers, Harness!history
<1>2. /\ Working(r) /\ Harness!TypeOK /\ RunInv(r) /\ run[r] \in Harness!RunType /\ run[r].hand = <<>>
      /\ failures \in Nat /\ run[r].writing = Harness!NoAppend
  BY <1>1, PastLoop, PastLabels, AtStep
<1>3. /\ \/ Harness!Goes(r, run[r], "flushFinal") /\ failures' \in Nat /\ failures' >= failures
         \/ Harness!Throws(r, run[r], "flushFinal") /\ failures' \in Nat /\ failures' >= 1
      /\ failures' \in Nat /\ failures' >= failures
  BY <1>1, <1>2, EmitsCounts
<1>4. "flushFinal" \in Harness!Labels \ (Taking \cup {"ready", "done"})
  BY PastLabels
<1>5. phase' = "turn" => failures' >= 2
  <2>1. run[r].at \in {"turnEnd", "ended"} \cup Harness!Flushing /\ run[r].at \in Leaving
    BY <1>1 DEF Leaving
  <2>2. phase = "turn" => failures >= 2
    BY <2>1, PastLoop
  <2> QED  BY <1>1, <1>2, <1>3, <2>2
<1> QED  BY <1>1, <1>2, <1>3, <1>4, <1>5, EmitsQuiet

\* The prompt settles.
LEMMA SettleStep ==
  ASSUME HarnessInv, NEW r \in Runs, Harness!Settle(r)
  PROVE  HarnessInv'
<1>1. /\ run[r].at = "flushFinal" /\ pending = <<>> /\ controller' = 0
      /\ Harness!Settles(r, run[r].answered)
      /\ UNCHANGED <<pending, model, queue, log, branch, call, op, aborter, calls, failures, sent, seen, gone,
                     accepted, gaveUp>>
  BY DEF Harness!Settle, Harness!Flushed, Harness!session, Harness!callers, Harness!history
<1>2. /\ Working(r) /\ Harness!TypeOK /\ RunInv(r) /\ run[r].hand = <<>> /\ run[r].answered \in BOOLEAN
      /\ failures \in Nat /\ (phase = "turn" => failures >= 2)
  <2>1. run[r].at \in {"turnEnd", "ended"} \cup Harness!Flushing /\ run[r].at \in Leaving
    BY <1>1 DEF Leaving, Harness!Flushing
  <2> QED  BY <2>1, PastLoop, RunFields
<1>3. /\ Moved(r, "done", <<>>, <<>>, Harness!NoAppend, FALSE) /\ runPromise' = 0
      /\ phase' = IF run[r].answered THEN phase ELSE "idle"
  BY <1>1, <1>2, SettlesMoves
<1>4. WritesInv /\ TextsInv
  BY DEF HarnessInv
<1>5. phase' \in {phase, "idle"} /\ (phase' = "turn" => failures' >= 2)
  BY <1>1, <1>2, <1>3
<1>6. Harness!TypeOK'
  BY <1>1, <1>2, <1>3 DEF Harness!TypeOK, Runs, Moved
<1>7. calls' \in Nat /\ calls' >= calls
  BY <1>1, <1>2 DEF Harness!TypeOK
<1>8. WritesInv'
  BY <1>1, <1>2, <1>4, <1>7, WritesStay
<1>9. TextsInv'
  <2>1. \A q \in Runs : run'[q].hand = run[q].hand
    BY <1>2, <1>3 DEF Moved
  <2> QED  BY <1>1, <1>2, <1>4, <1>7, <2>1, TextsStay
<1> QED  BY <1>1, <1>2, <1>3, <1>5, <1>6, <1>8, <1>9, Finishes

\* A step of a run keeps the invariant.
LEMMA RunStepKeeps ==
  ASSUME HarnessInv, BrokenInv, NEW r \in Runs, Harness!RunStep(r)
  PROVE  HarnessInv'
BY TakeSnapshotStep, SnapshotFailsStep, AnnounceNextTurnStep, BeforeStartStep, InjectBeginsStep,
   InjectEndsStep, DrainStep, DrainedStep, AnswerStep, AnswerEndsStep, ReportStep, ReportedStep, TurnEndStep,
   FlushBeginsStep, FlushEndsStep, FlushFailsStep, AfterTurnStep, PrepareNextTurnStep, AgentEndStep,
   EndedStep, SettleStep DEF Harness!RunStep

-----------------------------------------------------------------------------
(* The steps of callers *)

\* Runs of which only flags change, while the session stays and the queue of writes grows.
LEMMA RunsStay ==
  ASSUME HarnessInv, UNCHANGED <<branch, failures>>,
         \A r \in Runs :
           /\ run'[r].at = run[r].at /\ run'[r].hand = run[r].hand /\ run'[r].context = run[r].context
           /\ run'[r].writing = run[r].writing /\ run'[r].terminal = run[r].terminal,
         pending # <<>> => pending' # <<>> /\ Head(pending') = Head(pending)
  PROVE  \A r \in Runs : RunInv(r)' /\ (Working(r)' <=> Working(r))
<1> SUFFICES ASSUME NEW r \in Runs PROVE RunInv(r)' /\ (Working(r)' <=> Working(r))
  OBVIOUS
<1>1. RunInv(r) /\ UNCHANGED <<branch, failures>>
  BY DEF HarnessInv
<1>2. /\ run'[r].at = run[r].at /\ run'[r].hand = run[r].hand /\ run'[r].context = run[r].context
      /\ run'[r].writing = run[r].writing /\ run'[r].terminal = run[r].terminal
  OBVIOUS
<1>3. Working(r)' <=> Working(r)
  BY <1>2 DEF Working, Harness!InProgress
<1>4. HandInv(r)'
  BY <1>1, <1>2 DEF RunInv, HandInv
<1>5. WritingInv(r)'
  BY <1>1, <1>2 DEF RunInv, WritingInv
<1>6. ContextInv(r)' /\ FailureInv(r)'
  BY <1>1, <1>2 DEF RunInv, ContextInv, FailureInv
<1> QED  BY <1>1, <1>2, <1>3, <1>4, <1>5, <1>6 DEF RunInv

\* When no run is in progress the session may change.
LEMMA RunsRest ==
  ASSUME HarnessInv, \A r \in Runs : ~Working(r), UNCHANGED run
  PROVE  \A r \in Runs : RunInv(r)' /\ ~Working(r)'
<1> SUFFICES ASSUME NEW r \in Runs PROVE RunInv(r)' /\ ~Working(r)'
  OBVIOUS
<1>1. RunInv(r) /\ ~Working(r)
  BY DEF HarnessInv
<1>2. run[r].at \in {"ready", "done"}
  BY <1>1 DEF Working, Harness!InProgress
<1>3. ~run[r].terminal
  BY <1>1, <1>2 DEF RunInv, FailureInv
<1>4. ~Working(r)'
  BY <1>1 DEF Working, Harness!InProgress
<1>5. HandInv(r)'
  BY <1>1 DEF RunInv, HandInv
<1> QED  BY <1>1, <1>2, <1>3, <1>4, <1>5 DEF RunInv, WritingInv, ContextInv, FailureInv, Taking

\* setModel and its kin, and appendMessage: a busy harness queues the write, an idle one begins
\* to append it.
LEMMA WriteStep ==
  ASSUME HarnessInv, NEW k \in Harness!WriteKinds, Harness!Write(k)
  PROVE  HarnessInv'
<1> DEFINE w == <<k, calls'>>
<1>1. /\ calls' = calls + 1
      /\ \/ /\ phase = "idle" /\ Harness!Quiet /\ call = Harness!NoAppend
            /\ call' = Harness!AppendOf(w) /\ UNCHANGED <<pending, model, accepted>>
         \/ /\ phase # "idle" /\ op.at = "none" /\ pending' = Append(pending, w)
            /\ model' = (IF k = "model" THEN calls' ELSE model)
            /\ accepted' = Append(accepted, w) /\ UNCHANGED call
      /\ UNCHANGED <<phase, controller, runPromise, queue, log, branch, run, op, aborter, failures,
                     sent, seen, gone, gaveUp>>
  BY DEF Harness!Write, Harness!Calling, Harness!MayUseIdle, Harness!session
<1>2. /\ Harness!TypeOK /\ SerialInv /\ PhaseInv /\ PendingInv /\ CallerInv /\ WritesInv /\ TextsInv /\ AbortInv
  BY DEF HarnessInv
<1>3. calls \in Nat /\ calls' \in Nat /\ calls' >= calls /\ calls < calls'
  BY <1>1, <1>2 DEF Harness!TypeOK
<1>4. w \in Harness!WriteKinds \X Nat /\ w \in Harness!Entry /\ w[2] = calls' /\ w \in Harness!WriteKinds \X (1 .. calls')
  BY <1>1, <1>3 DEF Harness!Entry
<1>5. TextsInv'
  <2>1. \A q \in Runs : run'[q].hand = run[q].hand
    BY <1>1
  <2> QED  BY <1>1, <1>2, <1>3, <2>1, TextsStay
<1>6. w = <<k, calls'>>
  OBVIOUS
<1> HIDE DEF w
<1>7. pending # <<>> => pending' # <<>> /\ Head(pending') = Head(pending)
  <2>1. pending \in Seq(Harness!Entry)
    BY <1>2, EntryTypes
  <2>2. CASE UNCHANGED pending
    BY <2>2
  <2>3. CASE pending' = Append(pending, w)
    BY <1>4, <2>1, <2>3
  <2> QED  BY <1>1, <2>2, <2>3
<1>8. \A r \in Runs : RunInv(r)' /\ (Working(r)' <=> Working(r))
  BY <1>1, <1>7, RunsStay
<1>9. AbortInv'
  BY <1>1, <1>2, <1>8 DEF AbortInv, Harness!TypeOK, Runs
<1>10. PhaseInv'
  BY <1>1, <1>2, <1>8 DEF PhaseInv
<1>11. CASE /\ phase = "idle" /\ Harness!Quiet /\ call = Harness!NoAppend
            /\ call' = Harness!AppendOf(w) /\ UNCHANGED <<pending, model, accepted>>
  <2>1. op.at = "none" /\ \A r \in Runs : ~Working(r)
    BY <1>11 DEF Harness!Quiet, Working, Runs
  <2>2. Harness!AppendOf(w) \in Harness!InFlight /\ Harness!AppendOf(w).entry = w /\ Harness!AppendOf(w).path = branch
    BY <1>2, <1>4, Appending
  <2>3. Harness!TypeOK'
    BY <1>1, <1>2, <1>3, <1>11, <2>2 DEF Harness!TypeOK, Runs
  <2>4. SerialInv'
    BY <1>1, <1>2, <1>8, <1>11, <2>1 DEF SerialInv
  <2>5. PendingInv'
    BY <1>1, <1>2, <1>8, <1>11 DEF PendingInv
  <2>6. CallerInv'
    <3>1. \A e \in Harness!Range(accepted) : e[2] < calls'
      <4>1. \A e \in Harness!Range(accepted) : e[2] \in 1 .. calls
        BY <1>2 DEF WritesInv
      <4> QED  BY <1>3, <4>1
    <3> QED  BY <1>1, <1>4, <1>11, <2>1, <2>2, <3>1 DEF CallerInv
  <2>7. WritesInv'
    BY <1>1, <1>2, <1>3, <1>11, WritesStay
  <2> QED  BY <1>5, <1>8, <1>9, <1>10, <2>3, <2>4, <2>5, <2>6, <2>7 DEF HarnessInv
<1>12. CASE /\ phase # "idle" /\ op.at = "none" /\ pending' = Append(pending, w)
            /\ model' = (IF k = "model" THEN calls' ELSE model)
            /\ accepted' = Append(accepted, w) /\ UNCHANGED call
  <2>1. call = Harness!NoAppend /\ phase = "turn"
    BY <1>2, <1>12 DEF SerialInv, Harness!TypeOK
  <2>2. Harness!TypeOK'
    <3>1. pending' \in Seq(Harness!WriteKinds \X Nat) /\ accepted' \in Seq(Harness!Entry)
      BY <1>2, <1>4, <1>12 DEF Harness!TypeOK
    <3>2. model' \in Nat
      BY <1>2, <1>3, <1>12 DEF Harness!TypeOK
    <3> QED  BY <1>1, <1>2, <1>3, <1>12, <3>1, <3>2 DEF Harness!TypeOK, Runs
  <2>3. SerialInv'
    BY <1>1, <1>2, <1>8, <1>12 DEF SerialInv
  <2>4. PendingInv'
    BY <1>1, <2>1 DEF PendingInv
  <2>5. CallerInv'
    BY <1>1, <1>12, <2>1 DEF CallerInv
  <2>6. WritesInv'
    BY <1>1, <1>2, <1>6, <1>12, WritesQueued
  <2> QED  BY <1>5, <1>8, <1>9, <1>10, <2>2, <2>3, <2>4, <2>5, <2>6 DEF HarnessInv
<1> QED  BY <1>1, <1>11, <1>12

\* The append of a caller is done, or fails.
LEMMA WrittenStep ==
  ASSUME HarnessInv, Harness!Written
  PROVE  HarnessInv'
<1> DEFINE e == call.entry
<1>1. /\ call # Harness!NoAppend /\ call' = Harness!NoAppend
      /\ \/ /\ Harness!Appended(call) /\ accepted' = Append(accepted, e)
            /\ model' = (IF e[1] = "model" THEN e[2] ELSE model) /\ UNCHANGED failures
         \/ Harness!Failing /\ UNCHANGED <<log, branch, accepted, model>>
      /\ UNCHANGED <<phase, controller, runPromise, pending, queue, run, op, aborter, calls, sent, seen,
                     gone, gaveUp>>
  BY DEF Harness!Written, Harness!session
<1>2. /\ Harness!TypeOK /\ SerialInv /\ PhaseInv /\ PendingInv /\ CallerInv /\ WritesInv /\ TextsInv /\ AbortInv
  BY DEF HarnessInv
<1>3. phase = "idle" /\ op.at = "none" /\ \A r \in Runs : ~Working(r)
  BY <1>1, <1>2 DEF SerialInv
<1>4. /\ e \in Harness!WriteKinds \X (1 .. calls) /\ call.path = branch
      /\ \A f \in Harness!Range(accepted) : f[2] < e[2]
  BY <1>1, <1>2 DEF CallerInv
<1>5. e \in Harness!Entry /\ e[1] \in Harness!WriteKinds /\ e[2] \in Nat /\ e[1] \notin Harness!TextKinds
  <2>1. calls \in Nat
    BY <1>2 DEF Harness!TypeOK
  <2> QED  BY <1>4, <2>1 DEF Harness!Entry, Harness!WriteKinds, Harness!TextKinds
<1> HIDE DEF e
<1>6. \A r \in Runs : RunInv(r)' /\ ~Working(r)'
  BY <1>1, <1>3, RunsRest
<1>7. Harness!NoAppend \in Harness!InFlight
  BY DEF Harness!InFlight
<1>8. SerialInv' /\ PhaseInv' /\ PendingInv' /\ CallerInv'
  BY <1>1, <1>2, <1>3, <1>6 DEF SerialInv, PhaseInv, PendingInv, CallerInv
<1>9. AbortInv'
  BY <1>1, <1>2, <1>3, <1>6 DEF AbortInv, Harness!TypeOK, Runs
<1>10. CASE /\ Harness!Appended(call) /\ accepted' = Append(accepted, e)
            /\ model' = (IF e[1] = "model" THEN e[2] ELSE model) /\ UNCHANGED failures
  <2>1. log' = Append(log, e) /\ branch' = Append(branch, e)
    BY <1>4, <1>10 DEF Harness!Appended, e
  <2>2. Harness!TypeOK'
    <3>1. model' \in Nat /\ accepted' \in Seq(Harness!Entry) /\ log' \in Seq(Harness!Entry) /\ branch' \in Seq(Harness!Entry)
      BY <1>2, <1>5, <1>10, <2>1 DEF Harness!TypeOK
    <3> QED  BY <1>1, <1>2, <1>7, <1>10, <3>1 DEF Harness!TypeOK, Runs
  <2>3. WritesInv'
    <3>1. ~gaveUp => pending = <<>>
      BY <1>2, <1>3 DEF PendingInv
    <3> QED  BY <1>1, <1>2, <1>4, <1>10, <2>1, <3>1, WritesDone
  <2>4. TextsInv'
    BY <1>1, <1>2, <1>5, <2>1, TextsBeside
  <2> QED  BY <1>6, <1>8, <1>9, <2>2, <2>3, <2>4 DEF HarnessInv
<1>11. CASE Harness!Failing /\ UNCHANGED <<log, branch, accepted, model>>
  <2>1. failures' \in Nat /\ calls' \in Nat /\ calls' >= calls
    BY <1>1, <1>2, <1>11, FailureCounts DEF Harness!TypeOK
  <2>2. Harness!TypeOK'
    BY <1>1, <1>2, <1>7, <1>11, <2>1 DEF Harness!TypeOK, Runs
  <2>3. WritesInv'
    BY <1>1, <1>2, <1>11, <2>1, WritesStay
  <2>4. TextsInv'
    BY <1>1, <1>2, <1>11, <2>1, TextsStay
  <2> QED  BY <1>6, <1>8, <1>9, <2>2, <2>3, <2>4 DEF HarnessInv
<1> QED  BY <1>1, <1>10, <1>11

\* A text enters its queue.
LEMMA SendStep ==
  ASSUME HarnessInv, NEW k \in Harness!TextKinds, Harness!Send(k)
  PROVE  HarnessInv'
<1>1. /\ calls' = calls + 1 /\ queue' = [queue EXCEPT ![k] = Append(@, <<k, calls'>>)]
      /\ sent' = sent \cup {<<k, calls'>>}
      /\ UNCHANGED <<phase, controller, runPromise, pending, model, log, branch, run, call, op, aborter,
                     failures, seen, gone, accepted, gaveUp>>
  BY DEF Harness!Send, Harness!Calling, Harness!session
<1>2. /\ Harness!TypeOK /\ SerialInv /\ PhaseInv /\ PendingInv /\ CallerInv /\ WritesInv /\ TextsInv /\ AbortInv
  BY DEF HarnessInv
<1>3. calls \in Nat /\ calls' \in Nat /\ calls' >= calls /\ 1 .. calls \subseteq 1 .. calls'
  BY <1>1, <1>2 DEF Harness!TypeOK
<1>4. \A r \in Runs : RunInv(r)' /\ (Working(r)' <=> Working(r))
  BY <1>1, RunsStay
<1>5. WritesInv'
  BY <1>1, <1>2, <1>3, WritesStay
<1>6. TextsInv'
  BY <1>1, <1>2, TextsSent
<1>7. Harness!TypeOK'
  <2>1. <<k, calls'>> \in Harness!TextKinds \X Nat /\ <<k, calls'>> \in Harness!Entry
    BY <1>3 DEF Harness!Entry
  <2>2. queue' \in [Harness!TextKinds -> Seq(Harness!TextKinds \X Nat)]
    BY <1>1, <1>2, <2>1 DEF Harness!TypeOK
  <2> QED  BY <1>1, <1>2, <1>3, <2>1, <2>2 DEF Harness!TypeOK, Runs
<1>8. SerialInv' /\ PhaseInv' /\ PendingInv' /\ AbortInv'
  BY <1>1, <1>2, <1>4 DEF SerialInv, PhaseInv, PendingInv, AbortInv, Harness!TypeOK, Runs
<1>9. CallerInv'
  BY <1>1, <1>2, <1>3 DEF CallerInv
<1> QED  BY <1>4, <1>5, <1>6, <1>7, <1>8, <1>9 DEF HarnessInv

\* abort() gives the steering and follow-up messages back and signals the run.
LEMMA AbortStep ==
  ASSUME HarnessInv, Harness!Abort
  PROVE  HarnessInv'
<1> DEFINE new(r) == [run[r] EXCEPT !.aborted = @ \/ r = controller,
                                    !.orphaned = run[r].at \in {"polled", "followed"}]
<1>1. /\ calls' = calls + 1 /\ queue' = [queue EXCEPT !["steer"] = <<>>, !["followUp"] = <<>>]
      /\ gone' = gone \cup Harness!TextsIn(queue["steer"] \o queue["followUp"])
      /\ run' = [r \in Runs |-> new(r)]
      /\ aborter' = [at |-> "announce", for |-> 0]
      /\ seen' = {r \in Runs : Working(r)}
      /\ UNCHANGED <<phase, controller, runPromise, pending, model, log, branch, call, op, failures, sent,
                     accepted, gaveUp>>
  BY DEF Harness!Abort, Harness!Calling, Harness!session, Runs, Working
<1>2. /\ Harness!TypeOK /\ SerialInv /\ PhaseInv /\ PendingInv /\ CallerInv /\ WritesInv /\ TextsInv /\ AbortInv
  BY DEF HarnessInv
<1>3. calls \in Nat /\ calls' \in Nat /\ calls' >= calls /\ 1 .. calls \subseteq 1 .. calls'
  <2>1. calls' = calls + 1 /\ calls \in Nat
    BY <1>1, <1>2 DEF Harness!TypeOK
  <2> QED  BY <2>1
<1>4. \A r \in Runs : run[r] \in Harness!RunType
  BY <1>2, RunFields
<1>5. \A r \in Runs :
        /\ new(r) \in Harness!RunType
        /\ new(r).at = run[r].at /\ new(r).hand = run[r].hand /\ new(r).context = run[r].context
        /\ new(r).writing = run[r].writing /\ new(r).terminal = run[r].terminal
  <2> SUFFICES ASSUME NEW r \in Runs
               PROVE  /\ new(r) \in Harness!RunType
                      /\ new(r).at = run[r].at /\ new(r).hand = run[r].hand /\ new(r).context = run[r].context
                      /\ new(r).writing = run[r].writing /\ new(r).terminal = run[r].terminal
    OBVIOUS
  <2> DEFINE aborted == run[r].aborted \/ r = controller
             orphaned == run[r].at \in {"polled", "followed"}
  <2>1. aborted \in BOOLEAN /\ orphaned \in BOOLEAN
    OBVIOUS
  <2>2. run[r] \in Harness!RunType
    BY <1>4
  <2>3. new(r) = [run[r] EXCEPT !.aborted = aborted, !.orphaned = orphaned]
    BY <2>2 DEF Harness!RunType
  <2> HIDE DEF aborted, orphaned, new
  <2> QED  BY <2>1, <2>2, <2>3 DEF Harness!RunType
<1> HIDE DEF new
<1>6. /\ run' \in [Runs -> Harness!RunType]
      /\ \A r \in Runs :
           /\ run'[r].at = run[r].at /\ run'[r].hand = run[r].hand /\ run'[r].context = run[r].context
           /\ run'[r].writing = run[r].writing /\ run'[r].terminal = run[r].terminal
  BY <1>1, <1>5
<1>7. \A r \in Runs : RunInv(r)' /\ (Working(r)' <=> Working(r))
  BY <1>1, <1>6, RunsStay
<1>8. WritesInv'
  BY <1>1, <1>2, <1>3, WritesStay
<1>9. TextsInv'
  BY <1>1, <1>2, <1>6, TextsGivenBack
<1>10. Harness!TypeOK'
  <2>1. /\ "steer" \in Harness!TextKinds /\ "followUp" \in Harness!TextKinds
        /\ Harness!TextKinds \X Nat \subseteq Harness!Entry
    BY DEF Harness!TextKinds, Harness!Entry
  <2>2. queue["steer"] \in Seq(Harness!Entry) /\ queue["followUp"] \in Seq(Harness!Entry)
    BY <1>2, <2>1, QueueTypes DEF TextsInv
  <2>3. Harness!TextsIn(queue["steer"] \o queue["followUp"]) \subseteq Harness!Entry
    <3>1. queue["steer"] \o queue["followUp"] \in Seq(Harness!Entry)
      BY <2>2, ElementsOfConcat
    <3> QED  BY <3>1, Elements DEF Harness!TextsIn
  <2>4. queue' \in [Harness!TextKinds -> Seq(Harness!TextKinds \X Nat)]
    BY <1>1, <1>2, EmptySeq DEF Harness!TypeOK
  <2> QED  BY <1>1, <1>2, <1>3, <1>6, <2>3, <2>4 DEF Harness!TypeOK, Runs
<1>11. SerialInv' /\ PhaseInv' /\ PendingInv'
  BY <1>1, <1>2, <1>6, <1>7 DEF SerialInv, PhaseInv, PendingInv
<1>12. CallerInv'
  BY <1>1, <1>2, <1>3 DEF CallerInv
<1>13. AbortInv'
  BY <1>1, <1>2, <1>7 DEF AbortInv
<1> QED  BY <1>7, <1>8, <1>9, <1>10, <1>11, <1>12, <1>13 DEF HarnessInv

\* abort() looks for the run to wait for, and returns when that run is done.
LEMMA AborterSteps ==
  ASSUME HarnessInv, Harness!WaitForIdle \/ Harness!AbortReturns
  PROVE  HarnessInv'
<1>1. /\ \/ aborter.at = "announce" /\ aborter' = [at |-> "wait", for |-> runPromise]
         \/ aborter' = [at |-> "none", for |-> 0]
      /\ UNCHANGED <<phase, controller, runPromise, pending, model, queue, log, branch, run, call, op, calls,
                     failures, sent, seen, gone, accepted, gaveUp>>
  BY DEF Harness!WaitForIdle, Harness!AbortReturns, Harness!session, Harness!history
<1>2. /\ Harness!TypeOK /\ SerialInv /\ PhaseInv /\ PendingInv /\ CallerInv /\ WritesInv /\ TextsInv /\ AbortInv
  BY DEF HarnessInv
<1>3. calls' \in Nat /\ calls' >= calls
  BY <1>1, <1>2 DEF Harness!TypeOK
<1>4. \A r \in Runs : RunInv(r)' /\ (Working(r)' <=> Working(r))
  BY <1>1, RunsStay
<1>5. WritesInv'
  BY <1>1, <1>2, <1>3, WritesStay
<1>6. TextsInv'
  BY <1>1, <1>2, <1>3, TextsStay
<1>7. Harness!TypeOK'
  BY <1>1, <1>2 DEF Harness!TypeOK, Runs
<1>8. SerialInv' /\ PhaseInv' /\ PendingInv' /\ CallerInv'
  BY <1>1, <1>2, <1>4 DEF SerialInv, PhaseInv, PendingInv, CallerInv
<1>9. AbortInv'
  BY <1>1, <1>2, <1>4 DEF AbortInv, Harness!TypeOK, Runs
<1> QED  BY <1>4, <1>5, <1>6, <1>7, <1>8, <1>9 DEF HarnessInv

\* compact() and navigateTree() begin.
LEMMA StartOpStep ==
  ASSUME HarnessInv, NEW k \in {"compact", "navigate"}, Harness!StartOp(k)
  PROVE  HarnessInv'
<1>1. /\ phase = "idle" /\ Harness!Quiet /\ op.at = "none" /\ calls' = calls + 1
      /\ phase' = (IF k = "compact" THEN "compaction" ELSE "branch_summary") /\ op' = [op EXCEPT !.at = k]
      /\ UNCHANGED <<controller, runPromise, pending, model, queue, log, branch, run, call, aborter,
                     failures, sent, seen, gone, accepted, gaveUp>>
  BY DEF Harness!StartOp, Harness!Calling, Harness!MayUseIdle, Harness!session, Harness!history
<1>2. /\ Harness!TypeOK /\ SerialInv /\ PhaseInv /\ PendingInv /\ CallerInv /\ WritesInv /\ TextsInv /\ AbortInv
  BY DEF HarnessInv
<1>3. call = Harness!NoAppend /\ \A r \in Runs : ~Working(r)
  BY <1>1 DEF Harness!Quiet, Working, Runs
<1>4. calls' \in Nat /\ calls' >= calls
  BY <1>1, <1>2 DEF Harness!TypeOK
<1>5. \A r \in Runs : RunInv(r)' /\ ~Working(r)'
  BY <1>1, <1>3, RunsRest
<1>6. op' \in [at : {"none", "compact", "navigate", "moved", "append"}, writing : Harness!InFlight] /\ op'.at = k
  BY <1>1, <1>2 DEF Harness!TypeOK
<1>7. WritesInv'
  BY <1>1, <1>2, <1>4, WritesStay
<1>8. TextsInv'
  BY <1>1, <1>2, <1>4, TextsStay
<1>9. Harness!TypeOK'
  BY <1>1, <1>2, <1>4, <1>6 DEF Harness!TypeOK, Runs
<1>10. SerialInv' /\ PhaseInv' /\ PendingInv' /\ CallerInv'
  BY <1>1, <1>2, <1>3, <1>5, <1>6 DEF SerialInv, PhaseInv, PendingInv, CallerInv
<1>11. AbortInv'
  BY <1>1, <1>2, <1>3, <1>5 DEF AbortInv, Harness!TypeOK, Runs
<1> QED  BY <1>5, <1>7, <1>8, <1>9, <1>10, <1>11 DEF HarnessInv

\* While compact() or navigateTree() is under way nothing else is.
LEMMA Operating ==
  ASSUME HarnessInv, op.at # "none"
  PROVE  /\ \A r \in Runs : ~Working(r)
         /\ call = Harness!NoAppend /\ phase \in {"compaction", "branch_summary"}
         /\ gaveUp \/ pending = <<>>
BY DEF HarnessInv, SerialInv, PendingInv

\* compact() and navigateTree() append their entry, and navigateTree moves the leaf before.
LEMMA OpProceeds ==
  ASSUME HarnessInv, Harness!OpAppends("compaction") \/ Harness!OpAppends("summary") \/ Harness!MoveLeaf
  PROVE  HarnessInv'
<1>1. /\ op.at # "none" /\ branch' \in Seq(Harness!Entry)
      /\ op' \in [at : {"none", "compact", "navigate", "moved", "append"}, writing : Harness!InFlight]
      /\ op'.at # "none"
      /\ op'.at = "append" =>
           op'.writing.entry \in {"compaction", "summary"} \X Nat /\ op'.writing.path = branch'
      /\ UNCHANGED <<phase, controller, runPromise, pending, model, queue, log, run, call, aborter, calls,
                     failures, sent, seen, gone, accepted, gaveUp>>
  <2>1. Harness!TypeOK /\ calls \in Nat /\ branch \in Seq(Harness!Entry)
    BY DEF HarnessInv, Harness!TypeOK
  <2>2. CASE \E k \in {"compaction", "summary"} : Harness!OpAppends(k)
    <3>0. PICK k \in {"compaction", "summary"} : Harness!OpAppends(k)
      BY <2>2
    <3>1. <<k, calls>> \in Harness!Entry
      BY <2>1 DEF Harness!Entry
    <3>2. /\ Harness!AppendOf(<<k, calls>>) \in Harness!InFlight
          /\ Harness!AppendOf(<<k, calls>>).entry = <<k, calls>>
          /\ Harness!AppendOf(<<k, calls>>).path = branch
      BY <2>1, <3>1, Appending
    <3>3. /\ op.at # "none" /\ op' = [at |-> "append", writing |-> Harness!AppendOf(<<k, calls>>)]
          /\ UNCHANGED <<phase, controller, runPromise, pending, model, queue, log, branch, run, call, aborter,
                         calls, failures, sent, seen, gone, accepted, gaveUp>>
      BY <3>0 DEF Harness!OpAppends, Harness!session, Harness!history
    <3> QED  BY <2>1, <3>2, <3>3
  <2>3. CASE Harness!MoveLeaf
    <3>1. /\ op.at = "navigate" /\ op' = [op EXCEPT !.at = "moved"]
          /\ UNCHANGED <<phase, controller, runPromise, pending, model, queue, log, run, call, aborter,
                         calls, failures, sent, seen, gone, accepted, gaveUp>>
      BY <2>3 DEF Harness!MoveLeaf, Harness!history
    <3>2. PICK n \in 0 .. Len(branch) : branch' = SubSeq(branch, 1, n)
      BY <2>3 DEF Harness!MoveLeaf
    <3>3. branch' \in Seq(Harness!Entry)
      <4>1. n \in Int /\ n <= Len(branch) /\ Len(branch) \in Nat
        BY <2>1
      <4>2. \A i \in 1 .. n : branch[i] \in Harness!Entry
        BY <2>1, <4>1
      <4> QED  BY <3>2, <4>1, <4>2, SubSeqProperties
    <3>4. op \in [at : {"none", "compact", "navigate", "moved", "append"}, writing : Harness!InFlight]
      BY <2>1 DEF Harness!TypeOK
    <3> QED  BY <3>1, <3>3, <3>4
  <2> QED  BY <2>2, <2>3
<1>2. /\ Harness!TypeOK /\ SerialInv /\ PhaseInv /\ PendingInv /\ CallerInv /\ WritesInv /\ TextsInv /\ AbortInv
  BY DEF HarnessInv
<1>3. /\ \A r \in Runs : ~Working(r)
      /\ call = Harness!NoAppend /\ phase \in {"compaction", "branch_summary"}
  BY <1>1, Operating
<1>4. calls' \in Nat /\ calls' >= calls
  BY <1>1, <1>2 DEF Harness!TypeOK
<1>5. \A r \in Runs : RunInv(r)' /\ ~Working(r)'
  BY <1>1, <1>3, RunsRest
<1>6. WritesInv'
  BY <1>1, <1>2, <1>4, WritesStay
<1>7. TextsInv'
  BY <1>1, <1>2, <1>4, TextsStay
<1>8. Harness!TypeOK'
  BY <1>1, <1>2, <1>4 DEF Harness!TypeOK, Runs
<1>9. SerialInv' /\ PhaseInv' /\ PendingInv' /\ CallerInv'
  BY <1>1, <1>2, <1>3, <1>5 DEF SerialInv, PhaseInv, PendingInv, CallerInv
<1>10. AbortInv'
  BY <1>1, <1>2, <1>3, <1>5 DEF AbortInv, Harness!TypeOK, Runs
<1> QED  BY <1>5, <1>6, <1>7, <1>8, <1>9, <1>10 DEF HarnessInv

\* compact() and navigateTree() end, with their entry in the session or without.
LEMMA OpEndsStep ==
  ASSUME HarnessInv, Harness!OpEnds
  PROVE  HarnessInv'
<1> DEFINE e == op.writing.entry
<1>1. /\ op.at # "none" /\ op' = [at |-> "none", writing |-> Harness!NoAppend] /\ phase' = "idle"
      /\ \/ op.at = "append" /\ Harness!Appended(op.writing) /\ UNCHANGED failures
         \/ Harness!Failing /\ UNCHANGED <<log, branch>>
         \/ UNCHANGED <<log, branch, failures>>
      /\ UNCHANGED <<controller, runPromise, pending, model, queue, run, call, aborter, calls, sent, seen,
                     gone, accepted, gaveUp>>
  BY DEF Harness!OpEnds, Harness!session, Harness!history
<1>2. /\ Harness!TypeOK /\ SerialInv /\ PhaseInv /\ PendingInv /\ CallerInv /\ WritesInv /\ TextsInv /\ AbortInv
  BY DEF HarnessInv
<1>3. /\ \A r \in Runs : ~Working(r)
      /\ call = Harness!NoAppend /\ (gaveUp \/ pending = <<>>)
  BY <1>1, Operating
<1>4. calls' \in Nat /\ calls' >= calls /\ failures' \in Nat
  BY <1>1, <1>2, FailureCounts DEF Harness!TypeOK
<1>5. \A r \in Runs : RunInv(r)' /\ ~Working(r)'
  BY <1>1, <1>3, RunsRest
<1>6. /\ op' \in [at : {"none", "compact", "navigate", "moved", "append"}, writing : Harness!InFlight]
      /\ op'.at = "none"
  BY <1>1 DEF Harness!InFlight
<1>7. SerialInv' /\ PhaseInv' /\ PendingInv' /\ CallerInv'
  BY <1>1, <1>3, <1>5, <1>6 DEF SerialInv, PhaseInv, PendingInv, CallerInv
<1>8. AbortInv'
  BY <1>1, <1>2, <1>3, <1>5 DEF AbortInv, Harness!TypeOK, Runs
<1>9. /\ log' \in Seq(Harness!Entry) /\ branch' \in Seq(Harness!Entry) /\ WritesInv' /\ TextsInv'
  <2>1. CASE UNCHANGED <<log, branch>>
    <3>1. WritesInv'
      BY <1>1, <1>2, <1>4, <2>1, WritesStay
    <3>2. TextsInv'
      BY <1>1, <1>2, <1>4, <2>1, TextsStay
    <3> QED  BY <1>2, <2>1, <3>1, <3>2 DEF Harness!TypeOK
  <2>2. CASE op.at = "append" /\ Harness!Appended(op.writing)
    <3>1. e \in {"compaction", "summary"} \X Nat /\ op.writing.path = branch
      BY <1>2, <2>2 DEF CallerInv
    <3>2. e \in Harness!Entry
      BY <3>1 DEF Harness!Entry
    <3> HIDE DEF e
    <3>3. e[1] \notin Harness!WriteKinds /\ e[1] \notin Harness!TextKinds
      BY <3>1 DEF Harness!WriteKinds, Harness!TextKinds
    <3>4. log' = Append(log, e) /\ branch' = Append(branch, e)
      BY <2>2, <3>1 DEF Harness!Appended, e
    <3>5. WritesInv'
      BY <1>1, <1>2, <3>2, <3>3, <3>4, WritesBeside
    <3>6. TextsInv'
      BY <1>1, <1>2, <3>2, <3>3, <3>4, TextsBeside
    <3> QED  BY <1>2, <3>2, <3>4, <3>5, <3>6 DEF Harness!TypeOK
  <2> QED  BY <1>1, <2>1, <2>2
<1>10. Harness!TypeOK'
  BY <1>1, <1>2, <1>4, <1>6, <1>9 DEF Harness!TypeOK, Runs
<1> QED  BY <1>5, <1>7, <1>8, <1>9, <1>10 DEF HarnessInv

-----------------------------------------------------------------------------
(* Failures of turn_end *)

\* A run of which no listener of turn_end fails now.
LEMMA BrokenMoves ==
  ASSUME Harness!TypeOK, BrokenInv, NEW r \in Runs, NEW s, NEW next, failures' \in Nat, failures' >= failures,
         "broken" \in DOMAIN s, s.broken => run[r].broken \/ failures' >= 1,
         \/ Harness!Goes(r, s, next) \/ Harness!Throws(r, s, next) \/ Harness!Emits(r, s, next)
         \/ run' = [run EXCEPT ![r] = s]
  PROVE  BrokenInv'
<1>1. failures \in Nat /\ run \in [Runs -> Harness!RunType] /\ \A q \in Runs : run[q].broken => failures >= 1
  BY DEF Harness!TypeOK, Runs, BrokenInv
<1>2. \E t : run' = [run EXCEPT ![r] = t] /\ t.broken = s.broken
  <2>1. CASE Harness!Goes(r, s, next)
    <3> DEFINE t == [s EXCEPT !.at = next]
    <3>1. t.broken = s.broken
      OBVIOUS
    <3>2. run' = [run EXCEPT ![r] = t]
      BY <2>1 DEF Harness!Goes
    <3> QED  BY <3>1, <3>2
  <2>2. CASE Harness!Throws(r, s, next)
    <3> DEFINE t == [s EXCEPT !.at = IF s.terminal THEN next ELSE "failure", !.terminal = TRUE]
    <3>1. t.broken = s.broken
      OBVIOUS
    <3>2. run' = [run EXCEPT ![r] = t]
      BY <2>2 DEF Harness!Throws
    <3> QED  BY <3>1, <3>2
  <2> QED  BY <2>1, <2>2 DEF Harness!Emits
<1>3. PICK t : run' = [run EXCEPT ![r] = t] /\ t.broken = s.broken
  BY <1>2
<1> SUFFICES ASSUME NEW q \in Runs, run'[q].broken PROVE failures' >= 1
  BY DEF BrokenInv
<1>4. CASE q = r
  BY <1>1, <1>3, <1>4
<1>5. CASE q # r
  BY <1>1, <1>3, <1>5
<1> QED  BY <1>4, <1>5

\* Only a failure of a turn_end listener is kept for later, and it is counted.
LEMMA BrokenKept ==
  ASSUME Harness!TypeOK, BrokenInv, [Harness!Next]_harnessVars
  PROVE  BrokenInv'
<1>1. failures \in Nat /\ \A r \in Runs : run[r] \in Harness!RunType /\ "broken" \in DOMAIN run[r]
  <2>1. \A r \in Runs : run[r] \in Harness!RunType
    BY RunFields
  <2> QED  BY <2>1 DEF Harness!TypeOK, Harness!RunType
<1>2. (Harness!Failing \/ UNCHANGED failures) => failures' \in Nat /\ failures' >= failures
  BY <1>1, FailureCounts
<1>3. ASSUME NEW r \in Runs, NEW s, NEW next, Harness!Emits(r, s, next)
      PROVE  Harness!Failing \/ UNCHANGED failures
  BY <1>3 DEF Harness!Emits
<1>4. ASSUME NEW r \in Runs, NEW ok, Harness!Settles(r, ok), Harness!Failing \/ UNCHANGED failures
      PROVE  BrokenInv'
  <2>1. Harness!Goes(r, Harness!NewRun, "done")
    BY <1>4 DEF Harness!Settles
  <2>2. "broken" \in DOMAIN Harness!NewRun /\ ~Harness!NewRun.broken
    BY DEF Harness!NewRun
  <2> QED  BY <1>2, <1>4, <2>1, <2>2, BrokenMoves
<1>5. ASSUME NEW r \in Runs, NEW s, NEW next, "broken" \in DOMAIN s, s.broken => run[r].broken \/ failures' >= 1,
             Harness!Failing \/ UNCHANGED failures,
             Harness!Goes(r, s, next) \/ Harness!Throws(r, s, next) \/ Harness!Emits(r, s, next)
      PROVE  BrokenInv'
  BY <1>2, <1>5, BrokenMoves
<1>6. ASSUME UNCHANGED run, Harness!Failing \/ UNCHANGED failures
      PROVE  BrokenInv'
  BY <1>1, <1>2, <1>6 DEF BrokenInv
<1>7. ASSUME NEW r \in Runs, Harness!Prompt(r)
      PROVE  BrokenInv'
  <2>1. Harness!Goes(r, run[r], "snapshot") /\ UNCHANGED failures
    BY <1>7 DEF Harness!Prompt
  <2> QED  BY <1>1, <1>5, <2>1
<1>8. ASSUME NEW r \in Runs, Harness!RunStep(r)
      PROVE  BrokenInv'
  <2>1. CASE Harness!TakeSnapshot(r)
    <3> DEFINE s == [run[r] EXCEPT !.context = branch, !.hand = Append(queue["nextTurn"], <<"prompt", r>>)]
               next == IF queue["nextTurn"] = <<>> THEN "hook" ELSE "announce"
    <3>1. "broken" \in DOMAIN s /\ s.broken = run[r].broken
      BY <1>1
    <3>2. Harness!Goes(r, s, next) /\ UNCHANGED failures
      BY <2>1 DEF Harness!TakeSnapshot, Harness!callers
    <3> HIDE DEF s, next
    <3> QED  BY <1>3, <1>5, <3>1, <3>2
  <2>2. CASE Harness!SnapshotFails(r)
    BY <1>4, <2>2 DEF Harness!SnapshotFails
  <2>3. CASE Harness!AnnounceNextTurn(r)
    BY <1>1, <1>4, <1>5, <2>3 DEF Harness!AnnounceNextTurn
  <2>4. CASE Harness!BeforeStart(r)
    BY <1>1, <1>4, <1>5, <2>4 DEF Harness!BeforeStart
  <2>5. CASE Harness!InjectBegins(r)
    BY <1>1, <1>5, <2>5 DEF Harness!InjectBegins
  <2>6. CASE Harness!InjectEnds(r)
    <3> DEFINE s == [run[r] EXCEPT !.hand = Tail(@), !.writing = Harness!NoAppend,
                                      !.context = Append(@, Head(run[r].hand))]
               failed == [run[r] EXCEPT !.writing = Harness!NoAppend]
               next == IF s.hand # <<>> THEN run[r].at
                       ELSE IF run[r].at = "prompts" THEN "poll" ELSE "stream"
    <3>1. /\ "broken" \in DOMAIN s /\ s.broken = run[r].broken
          /\ "broken" \in DOMAIN failed /\ failed.broken = run[r].broken
      BY <1>1
    <3>2. Harness!Emits(r, s, next) \/ (Harness!Failing /\ Harness!Throws(r, failed, next))
      BY <2>6 DEF Harness!InjectEnds
    <3> HIDE DEF s, failed, next
    <3> QED  BY <1>3, <1>5, <3>1, <3>2
  <2>7. CASE Harness!Drain(r)
    <3> DEFINE k == Harness!Polls[run[r].at]
               n == IF Harness!Mode[k] = "all" THEN Len(queue[k]) ELSE 1
               s == [run[r] EXCEPT !.hand = SubSeq(queue[k], 1, n)]
    <3>1. /\ "broken" \in DOMAIN s /\ s.broken = run[r].broken
          /\ "broken" \in DOMAIN run[r]
      BY <1>1
    <3>2. /\ (\E next : Harness!Goes(r, s, next)) \/ (\E next : Harness!Goes(r, run[r], next))
          /\ UNCHANGED failures
      BY <2>7 DEF Harness!Drain
    <3> HIDE DEF k, n, s
    <3> QED  BY <1>3, <1>5, <3>1, <3>2
  <2>8. CASE Harness!Drained(r)
    <3> DEFINE s == [run[r] EXCEPT !.orphaned = FALSE]
               back == [run[r] EXCEPT !.hand = <<>>, !.orphaned = FALSE]
    <3>1. /\ "broken" \in DOMAIN s /\ s.broken = run[r].broken
          /\ "broken" \in DOMAIN back /\ back.broken = run[r].broken
      BY <1>1
    <3>2. \/ Harness!Goes(r, s, "inject") /\ UNCHANGED failures
          \/ Harness!Failing /\ Harness!Throws(r, back, "inject")
      BY <2>8 DEF Harness!Drained
    <3> HIDE DEF s, back
    <3> QED  BY <1>3, <1>5, <3>1, <3>2
  <2>9. CASE Harness!Answer(r)
    <3> DEFINE s(o) == [run[r] EXCEPT !.writing = Harness!AppendOf(<<"assistant", r>>), !.outcome = o,
                                         !.turns = IF o = "tools" THEN @ + 1 ELSE @]
    <3>1. /\ \A o : "broken" \in DOMAIN s(o) /\ s(o).broken = run[r].broken
          /\ "broken" \in DOMAIN run[r]
      BY <1>1
    <3>2. \/ \E o : Harness!Goes(r, s(o), "stream") /\ UNCHANGED failures
          \/ Harness!Failing /\ Harness!Throws(r, run[r], "stream")
      BY <2>9 DEF Harness!Answer
    <3> HIDE DEF s
    <3> QED  BY <1>3, <1>5, <3>1, <3>2
  <2>10. CASE Harness!AnswerEnds(r)
    <3> DEFINE s == [run[r] EXCEPT !.writing = Harness!NoAppend, !.answered = TRUE,
                                      !.context = Append(@, <<"assistant", r>>)]
    <3>1. "broken" \in DOMAIN s /\ s.broken = run[r].broken
      BY <1>1
    <3>2. Harness!Emits(r, s, "turnEnd") \/ (Harness!Failing /\ Harness!Throws(r, s, "turnEnd"))
      BY <2>10 DEF Harness!AnswerEnds
    <3> HIDE DEF s
    <3> QED  BY <1>3, <1>5, <3>1, <3>2
  <2>11. CASE Harness!Report(r)
    <3> DEFINE s == [run[r] EXCEPT !.writing = Harness!AppendOf(<<"assistant", r>>), !.hand = <<>>,
                                      !.outcome = "error", !.answered = TRUE]
    <3>1. "broken" \in DOMAIN s /\ s.broken = run[r].broken
      BY <1>1
    <3>2. Harness!Goes(r, s, "failure") /\ UNCHANGED failures
      BY <2>11 DEF Harness!Report
    <3> HIDE DEF s
    <3> QED  BY <1>3, <1>5, <3>1, <3>2
  <2>12. CASE Harness!Reported(r)
    BY <1>1, <1>5, <2>12 DEF Harness!Reported
  <2>13. CASE Harness!TurnEnd(r)
    <3>1. CASE Harness!Goes(r, run[r], "flushTurn") /\ UNCHANGED failures
      BY <1>1, <1>5, <3>1
    <3>2. CASE Harness!Failing /\ Harness!Goes(r, [run[r] EXCEPT !.broken = TRUE], "flushTurn")
      <4>1. failures' >= 1
        BY <3>2, FailureCounts
      <4> QED  BY <1>1, <1>5, <3>2, <4>1
    <3> QED  BY <2>13, <3>1, <3>2 DEF Harness!TurnEnd
  <2>14. CASE Harness!FlushBegins(r)
    BY <1>1, <1>5, <2>14 DEF Harness!FlushBegins
  <2>15. CASE Harness!FlushEnds(r)
    BY <1>1, <1>5, <2>15 DEF Harness!FlushEnds
  <2>16. CASE Harness!FlushFails(r)
    <3> DEFINE s == [run[r] EXCEPT !.writing = Harness!NoAppend, !.broken = FALSE]
    <3>1. "broken" \in DOMAIN s /\ ~s.broken
      BY <1>1
    <3>2. /\ Harness!Failing
          /\ (\E next : Harness!Throws(r, s, next)) \/ Harness!Settles(r, FALSE)
      BY <2>16 DEF Harness!FlushFails
    <3> HIDE DEF s
    <3> QED  BY <1>4, <1>5, <3>1, <3>2
  <2>17. CASE Harness!AfterTurn(r)
    BY <1>1, <1>3, <1>5, <2>17 DEF Harness!AfterTurn
  <2>18. CASE Harness!PrepareNextTurn(r)
    BY <1>1, <1>3, <1>5, <2>18 DEF Harness!PrepareNextTurn
  <2>19. CASE Harness!AgentEnd(r)
    BY <1>1, <1>5, <2>19 DEF Harness!AgentEnd
  <2>20. CASE Harness!Ended(r)
    BY <1>1, <1>3, <1>5, <2>20 DEF Harness!Ended
  <2>21. CASE Harness!Settle(r)
    BY <1>4, <2>21 DEF Harness!Settle
  <2> QED  BY <1>8, <2>1, <2>2, <2>3, <2>4, <2>5, <2>6, <2>7, <2>8, <2>9, <2>10, <2>11, <2>12, <2>13,
              <2>14, <2>15, <2>16, <2>17, <2>18, <2>19, <2>20, <2>21 DEF Harness!RunStep
<1>9. ASSUME NEW k, Harness!Write(k) \/ Harness!Send(k) \/ Harness!StartOp(k)
      PROVE  BrokenInv'
  BY <1>6, <1>9 DEF Harness!Write, Harness!Send, Harness!StartOp
<1>10. CASE Harness!Written \/ Harness!WaitForIdle \/ Harness!AbortReturns \/ Harness!OpStep
  BY <1>6, <1>10 DEF Harness!Written, Harness!WaitForIdle, Harness!AbortReturns, Harness!OpStep,
     Harness!OpAppends, Harness!MoveLeaf, Harness!OpEnds
<1>11. CASE Harness!Abort
  <2>1. /\ UNCHANGED failures
        /\ run' = [r \in Runs |-> [run[r] EXCEPT !.aborted = @ \/ r = controller,
                                                 !.orphaned = run[r].at \in {"polled", "followed"}]]
    BY <1>11 DEF Harness!Abort, Runs
  <2>2. \A r \in Runs : run'[r].broken = run[r].broken
    BY <1>1, <2>1
  <2> QED  BY <2>1, <2>2 DEF BrokenInv
<1>12. CASE UNCHANGED harnessVars
  BY <1>6, <1>12 DEF harnessVars
<1> QED  BY <1>7, <1>8, <1>9, <1>10, <1>11, <1>12 DEF Harness!Next, Runs

-----------------------------------------------------------------------------
(* The invariant *)

\* The harness begins with nothing.
LEMMA HarnessBegins ==
  ASSUME Harness!Init
  PROVE  HarnessInv /\ BrokenInv
<1>1. /\ phase = "idle" /\ controller = 0 /\ runPromise = 0 /\ pending = <<>> /\ model = 0
      /\ queue = [k \in Harness!TextKinds |-> <<>>] /\ log = <<>> /\ branch = <<>>
      /\ run = [r \in Runs |-> Harness!NewRun] /\ call = Harness!NoAppend
      /\ op = [at |-> "none", writing |-> Harness!NoAppend] /\ aborter = [at |-> "none", for |-> 0]
      /\ calls = 0 /\ failures = 0
      /\ sent = {} /\ seen = {} /\ gone = {} /\ accepted = <<>> /\ gaveUp = FALSE
  BY DEF Harness!Init, Runs
<1>2. /\ Harness!NewRun \in Harness!RunType /\ Harness!NewRun.hand = <<>>
      /\ Harness!NewRun.writing = Harness!NoAppend /\ Harness!NewRun.at = "ready"
      /\ ~Harness!NewRun.terminal /\ ~Harness!NewRun.broken
      /\ Harness!NoAppend \in Harness!InFlight
  BY Empty DEF Harness!NewRun, Harness!RunType, Harness!Labels, Harness!InFlight
<1>3. /\ \A S : <<>> \in Seq(S)
      /\ Harness!Range(<<>>) = {} /\ Harness!TextsIn(<<>>) = {}
      /\ \A kinds : Harness!Ascending(<<>>, kinds)
      /\ \A S, kinds : Before({}, S, kinds) /\ Before(S, {}, kinds)
  BY Empty, EmptySeq DEF Harness!TextsIn, Before
<1>4. Harness!TypeOK
  BY <1>1, <1>2, <1>3 DEF Harness!TypeOK, Runs
<1>5. \A r \in Runs : ~Working(r) /\ RunInv(r)
  <2> SUFFICES ASSUME NEW r \in Runs PROVE ~Working(r) /\ RunInv(r)
    OBVIOUS
  <2>1. run[r] = Harness!NewRun
    BY <1>1
  <2>2. ~Working(r)
    BY <1>2, <2>1 DEF Working, Harness!InProgress
  <2>3. HandInv(r)
    BY <1>2, <1>3, <2>1 DEF HandInv, Taking
  <2> QED  BY <1>2, <2>1, <2>2, <2>3 DEF RunInv, WritingInv, ContextInv, FailureInv, Taking
<1>6. SerialInv /\ PhaseInv /\ PendingInv /\ CallerInv /\ AbortInv
  BY <1>1, <1>5 DEF SerialInv, PhaseInv, PendingInv, CallerInv, AbortInv
<1>7. WritesInv
  <2>1. OnceInv
    BY <1>1, <1>3 DEF OnceInv
  <2> QED  BY <1>1, <1>3, <2>1 DEF WritesInv
<1>8. TextsInv
  <2>1. Held = {}
    BY <1>1, <1>2, <1>3 DEF Held, InHands, Queued
  <2>2. PlacesInv
    BY <1>1, <2>1 DEF PlacesInv
  <2>3. OrderInv
    BY <1>1, <1>2, <1>3 DEF OrderInv, Ordered
  <2> QED  BY <2>2, <2>3 DEF TextsInv
<1>9. BrokenInv
  BY <1>1, <1>2 DEF BrokenInv
<1> QED  BY <1>4, <1>5, <1>6, <1>7, <1>8, <1>9 DEF HarnessInv

\* Every step keeps the invariant.
LEMMA HarnessGoesOn ==
  ASSUME HarnessInv, BrokenInv, [Harness!Next]_harnessVars
  PROVE  HarnessInv' /\ BrokenInv'
<1>1. BrokenInv'
  <2>1. Harness!TypeOK
    BY DEF HarnessInv
  <2> QED  BY <2>1, BrokenKept
<1> SUFFICES HarnessInv'
  BY <1>1
<1>2. ASSUME NEW r \in Runs, Harness!Prompt(r) \/ Harness!RunStep(r)
      PROVE  HarnessInv'
  BY <1>2, PromptStep, RunStepKeeps
<1>3. ASSUME NEW k \in Harness!WriteKinds, Harness!Write(k)
      PROVE  HarnessInv'
  BY <1>3, WriteStep
<1>4. ASSUME NEW k \in Harness!TextKinds, Harness!Send(k)
      PROVE  HarnessInv'
  BY <1>4, SendStep
<1>5. ASSUME NEW k \in {"compact", "navigate"}, Harness!StartOp(k)
      PROVE  HarnessInv'
  BY <1>5, StartOpStep
<1>6. CASE Harness!Written \/ Harness!Abort \/ Harness!WaitForIdle \/ Harness!AbortReturns
  BY <1>6, WrittenStep, AbortStep, AborterSteps
<1>7. CASE Harness!OpStep
  BY <1>7, OpProceeds, OpEndsStep DEF Harness!OpStep
<1>8. CASE UNCHANGED harnessVars
  <2>1. /\ UNCHANGED <<phase, controller, runPromise, pending, model, queue, log, branch, run, call, op, aborter>>
        /\ UNCHANGED <<calls, failures, sent, seen, gone, accepted, gaveUp>>
    BY <1>8 DEF harnessVars
  <2>2. /\ Harness!TypeOK /\ SerialInv /\ PhaseInv /\ PendingInv /\ CallerInv /\ WritesInv /\ TextsInv /\ AbortInv
    BY DEF HarnessInv
  <2>3. \A r \in Runs : RunInv(r)' /\ (Working(r)' <=> Working(r))
    BY <2>1, RunsStay
  <2>4. calls' \in Nat /\ calls' >= calls
    BY <2>1, <2>2 DEF Harness!TypeOK
  <2>5. WritesInv' /\ TextsInv'
    BY <2>1, <2>2, <2>4, WritesStay, TextsStay
  <2>6. Harness!TypeOK'
    BY <2>1, <2>2 DEF Harness!TypeOK, Runs
  <2>7. SerialInv' /\ PhaseInv' /\ PendingInv' /\ CallerInv' /\ AbortInv'
    BY <2>1, <2>2, <2>3 DEF SerialInv, PhaseInv, PendingInv, CallerInv, AbortInv, Harness!TypeOK, Runs
  <2> QED  BY <2>3, <2>5, <2>6, <2>7 DEF HarnessInv
<1> QED  BY <1>1, <1>2, <1>3, <1>4, <1>5, <1>6, <1>7, <1>8 DEF Harness!Next, Runs

\* The variables of the module are those of its instance.
LEMMA SameVariables == UNCHANGED Harness!vars <=> UNCHANGED harnessVars
BY DEF Harness!vars, harnessVars, Harness!session, Harness!callers, Harness!history

\* The harness of serial callers keeps its invariant, whatever fails and whoever aborts.
THEOREM HarnessInvariant == Harness!Spec => [](HarnessInv /\ BrokenInv)
<1>1. Harness!Init => HarnessInv /\ BrokenInv
  BY HarnessBegins
<1>2. (HarnessInv /\ BrokenInv) /\ [Harness!Next]_Harness!vars => (HarnessInv /\ BrokenInv)'
  BY HarnessGoesOn, SameVariables
<1> QED  BY <1>1, <1>2, PTL DEF Harness!Spec

-----------------------------------------------------------------------------
(* What the session, the model and the queues hold *)

\* Every write that was accepted is written or queued, once, in the order of the acceptance.
LEMMA WritesAreKept ==
  ASSUME HarnessInv
  PROVE  Harness!WritesKept
<1> DEFINE kept == log \o pending
           W == Harness!WriteKinds
<1>1. Harness!TypeOK /\ SerialInv /\ PendingInv /\ WritesInv
  BY DEF HarnessInv
<1>2. /\ log \in Seq(Harness!Entry) /\ pending \in Seq(Harness!Entry)
      /\ \A e \in Harness!Range(pending) : e[1] \in W
  BY <1>1, EntryTypes
<1>3. /\ kept \in Seq(Harness!Entry) /\ Harness!Range(kept) = Harness!Range(log) \cup Harness!Range(pending)
  BY <1>2, ElementsOfConcat
<1>4. /\ Harness!Range(accepted) = {e \in Harness!Range(log) : e[1] \in W} \cup Harness!Range(pending)
      /\ Harness!Ascending(accepted, W) /\ Harness!Ascending(pending, W) /\ OnceInv
      /\ ~gaveUp => Harness!Ascending(log, W) /\ Before(Harness!Range(log), Harness!Range(pending), W)
  BY <1>1 DEF WritesInv
<1>5. /\ DOMAIN kept = 1 .. Len(log) + Len(pending) /\ Len(log) \in Nat /\ Len(pending) \in Nat
      /\ DOMAIN log = 1 .. Len(log) /\ DOMAIN pending = 1 .. Len(pending)
      /\ \A i \in 1 .. Len(log) + Len(pending) : kept[i] = IF i <= Len(log) THEN log[i] ELSE pending[i - Len(log)]
  <2>1. Len(kept) = Len(log) + Len(pending)
    BY <1>2, ConcatProperties
  <2>2. DOMAIN kept = 1 .. Len(kept)
    BY <1>3
  <2> QED  BY <1>2, <2>1, <2>2, ConcatProperties
<1> HIDE DEF kept, W
<1>6. Harness!Range(accepted) = {e \in Harness!Range(kept) : e[1] \in W}
  BY <1>2, <1>3, <1>4
<1>7. \A i, j \in DOMAIN kept : kept[i][1] \in W /\ kept[i] = kept[j] => i = j
  <2>1. \A i \in DOMAIN kept :
          \/ i \in DOMAIN log /\ kept[i] = log[i]
          \/ i > Len(log) /\ i - Len(log) \in DOMAIN pending /\ kept[i] = pending[i - Len(log)]
    BY <1>5
  <2>2. \A i \in DOMAIN log : log[i] \in Harness!Range(log)
    BY <1>2, Elements
  <2>3. \A i \in DOMAIN pending : pending[i] \in Harness!Range(pending) /\ pending[i][1] \in W /\ pending[i][2] \in Nat
    BY <1>2, Elements
  <2>4. \A i, j \in DOMAIN pending : i < j => pending[i] # pending[j]
    <3>1. \A i, j \in DOMAIN pending : i < j => pending[i][2] < pending[j][2]
      BY <1>4, <2>3 DEF Harness!Ascending
    <3> QED  BY <2>3, <3>1
  <2>5. \A i, j \in DOMAIN pending : pending[i] = pending[j] => i = j
    <3>1. \A i, j \in DOMAIN pending : i < j \/ j < i \/ i = j
      BY <1>5
    <3> QED  BY <2>4, <3>1
  <2>6. \A i \in DOMAIN log, j \in DOMAIN pending : log[i] # pending[j]
    BY <1>4, <2>2, <2>3 DEF OnceInv
  <2>7. \A i, j \in DOMAIN log : log[i][1] \in W /\ log[i] = log[j] => i = j
    BY <1>4 DEF OnceInv, W
  <2> SUFFICES ASSUME NEW i \in DOMAIN kept, NEW j \in DOMAIN kept, kept[i][1] \in W, kept[i] = kept[j]
               PROVE  i = j
    OBVIOUS
  <2>8. i \in Int /\ j \in Int
    BY <1>5
  <2>9. CASE i \in DOMAIN log /\ kept[i] = log[i] /\ j \in DOMAIN log /\ kept[j] = log[j]
    BY <2>7, <2>9
  <2>10. CASE /\ i - Len(log) \in DOMAIN pending /\ kept[i] = pending[i - Len(log)]
              /\ j - Len(log) \in DOMAIN pending /\ kept[j] = pending[j - Len(log)]
    <3>1. i - Len(log) = j - Len(log)
      BY <2>5, <2>10
    <3> QED  BY <1>5, <2>8, <3>1
  <2> QED  BY <2>1, <2>6, <2>9, <2>10
<1>8. ~gaveUp => Harness!Ascending(kept, W)
  BY <1>2, <1>4, AscendingConcat DEF kept
<1>9. ~gaveUp /\ Harness!Quiet /\ phase = "idle" => pending = <<>>
  BY <1>1 DEF Harness!Quiet, PendingInv, Working, Runs
<1> QED  BY <1>4, <1>6, <1>7, <1>8, <1>9 DEF Harness!WritesKept, kept, W

\* The last setting in the session is the one in use.
LEMMA SettingPersists ==
  ASSUME HarnessInv
  PROVE  Harness!SettingIsPersisted
<1> DEFINE settings == {i \in DOMAIN log : log[i][1] = "model"}
<1>1. Harness!TypeOK /\ WritesInv
  BY DEF HarnessInv
<1> SUFFICES ASSUME pending = <<>>, ~gaveUp
             PROVE  \/ settings = {} /\ model = 0
                    \/ \E last \in settings : model = log[last][2] /\ \A i \in settings : i <= last
  BY DEF Harness!SettingIsPersisted
<1>2. log \in Seq(Harness!Entry) /\ DOMAIN log = 1 .. Len(log) /\ Len(log) \in Nat /\ model \in Nat
  BY <1>1 DEF Harness!TypeOK
<1>3. "model" \in Harness!WriteKinds
  BY DEF Harness!WriteKinds
<1>4. Harness!Range(pending) = {}
  BY Empty
<1>5. Harness!Range(accepted) = {e \in Harness!Range(log) : e[1] \in Harness!WriteKinds}
  BY <1>1, <1>4 DEF WritesInv
<1>6. \A i \in settings : log[i][2] <= model /\ log[i][2] \in Nat /\ log[i][2] >= 1
  <2> SUFFICES ASSUME NEW i \in settings PROVE log[i][2] <= model /\ log[i][2] \in Nat /\ log[i][2] >= 1
    OBVIOUS
  <2>1. log[i] \in Harness!Range(accepted) /\ log[i][1] = "model"
    BY <1>2, <1>3, <1>5, Elements
  <2>2. log[i] \in Harness!WriteKinds \X (1 .. calls) /\ log[i][2] <= model /\ calls \in Nat
    BY <1>1, <2>1 DEF WritesInv, Harness!TypeOK
  <2> QED  BY <2>2
<1>7. CASE model = 0
  <2>1. settings = {}
    BY <1>6, <1>7
  <2> QED  BY <1>7, <2>1
<1>8. CASE model # 0
  <2>1. <<"model", model>> \in Harness!Range(log)
    BY <1>1, <1>5, <1>8 DEF WritesInv
  <2>2. PICK last \in DOMAIN log : log[last] = <<"model", model>>
    <3>1. Harness!Range(log) = {log[i] : i \in DOMAIN log}
      BY <1>2, Elements
    <3> DEFINE e == <<"model", model>>
    <3>2. e \in Harness!Range(log)
      BY <2>1
    <3> HIDE DEF e
    <3>3. \E i \in DOMAIN log : log[i] = e
      BY <3>1, <3>2
    <3> QED  BY <3>3 DEF e
  <2>3. last \in settings /\ log[last][1] = "model" /\ log[last][2] = model
    BY <2>2
  <2>4. ASSUME NEW i \in settings, i > last
        PROVE  FALSE
    <3>1. Harness!Ascending(log, Harness!WriteKinds)
      BY <1>1 DEF WritesInv
    <3>2. i \in DOMAIN log /\ log[i][1] = "model" /\ last < i
      BY <1>2, <2>4
    <3>3. log[last][2] < log[i][2]
      BY <1>3, <2>3, <3>1, <3>2 DEF Harness!Ascending
    <3> QED  BY <1>2, <1>6, <2>3, <3>3
  <2>5. \A i \in settings : i <= last
    BY <1>2, <2>4
  <2> QED  BY <2>3, <2>5
<1> QED  BY <1>7, <1>8

\* A message is in one place, and those of a queue enter the session in the order they were sent.
LEMMA MessagesAreKept ==
  ASSUME HarnessInv
  PROVE  Harness!MessagesKept
<1> DEFINE inHand == [r \in Runs |-> Harness!TextsIn(run[r].hand)]
           queued == UNION {Harness!Range(queue[k]) : k \in Harness!TextKinds}
           held == (UNION Harness!Range(inHand)) \cup queued \cup Harness!TextsIn(log)
<1>1. Harness!TypeOK /\ SerialInv /\ PlacesInv /\ OrderInv /\ \A r \in Runs : RunInv(r)
  BY DEF HarnessInv, TextsInv
<1>2. Harness!Range(inHand) = {Harness!TextsIn(run[r].hand) : r \in Runs}
  BY DEF Harness!Range
<1>3. held = Held
  <2>1. UNION Harness!Range(inHand) = InHands(run)
    <3> HIDE DEF inHand
    <3> QED  BY <1>2 DEF InHands
  <2> HIDE DEF inHand
  <2>2. queued = Queued
    BY DEF Queued
  <2> HIDE DEF queued
  <2>3. held = InHands(run) \cup Queued \cup Harness!TextsIn(log)
    BY <2>1, <2>2
  <2> HIDE DEF held
  <2> QED  BY <2>3 DEF Held
<1>4. sent = gone \cup held /\ gone \cap held = {}
  BY <1>1, <1>3 DEF PlacesInv
<1>5. \A r, s \in Runs : r # s => inHand[r] \cap inHand[s] = {}
  <2> SUFFICES ASSUME NEW r \in Runs, NEW s \in Runs, r # s PROVE inHand[r] \cap inHand[s] = {}
    OBVIOUS
  <2>1. ~Working(r) \/ ~Working(s)
    BY <1>1 DEF SerialInv
  <2>2. run[r].hand = <<>> \/ run[s].hand = <<>>
    BY <1>1, <2>1 DEF RunInv
  <2>3. Harness!TextsIn(<<>>) = {}
    BY Empty DEF Harness!TextsIn
  <2> QED  BY <2>2, <2>3
<1>6. ASSUME NEW k \in Harness!TextKinds
      PROVE  /\ queue[k] \in Seq({k} \X Nat)
             /\ \A r \in Runs : Harness!Ascending(log \o run[r].hand \o queue[k], {k})
  <2>1. queue[k] \in Seq({k} \X Nat) /\ queue[k] \in Seq(Harness!Entry) /\ log \in Seq(Harness!Entry)
    BY <1>1, QueueTypes DEF Harness!TypeOK
  <2>2. ASSUME NEW r \in Runs
        PROVE  Harness!Ascending(log \o run[r].hand \o queue[k], {k})
    <3>1. run[r].hand \in Seq(Harness!Entry) /\ Ordered(log, run[r].hand, queue[k], k)
      BY <1>1, RunFields DEF OrderInv
    <3> DEFINE first == log \o run[r].hand
    <3>2. /\ first \in Seq(Harness!Entry)
          /\ Harness!Range(first) = Harness!Range(log) \cup Harness!Range(run[r].hand)
      BY <2>1, <3>1, ElementsOfConcat
    <3>3. Harness!Ascending(first, {k})
      BY <2>1, <3>1, AscendingConcat DEF Ordered
    <3> HIDE DEF first
    <3>4. Before(Harness!Range(first), Harness!Range(queue[k]), {k})
      BY <3>1, <3>2 DEF Ordered, Before
    <3>5. Harness!Ascending(first \o queue[k], {k})
      BY <2>1, <3>1, <3>2, <3>3, <3>4, AscendingConcat DEF Ordered
    <3> QED  BY <3>5 DEF first
  <2> QED  BY <2>1, <2>2
<1> QED  BY <1>4, <1>5, <1>6 DEF Harness!MessagesKept, Runs

\* The invariant says what SessionIsKept does.
LEMMA InvariantKeepsSession == HarnessInv => SessionIsKept
<1> SUFFICES ASSUME HarnessInv PROVE SessionIsKept
  OBVIOUS
<1>1. /\ Harness!TypeOK /\ SerialInv /\ PhaseInv /\ \A r \in Runs : RunInv(r)
  BY DEF HarnessInv
<1>2. Harness!ContextIsPath
  BY <1>1 DEF Harness!ContextIsPath, RunInv, ContextInv, Runs
<1>3. Harness!OneFailureLeavesIdle
  <2> SUFFICES ASSUME Harness!Quiet, failures <= 1 PROVE phase = "idle"
    BY DEF Harness!OneFailureLeavesIdle
  <2>1. op.at = "none" /\ \A r \in Runs : ~Working(r)
    BY DEF Harness!Quiet, Working, Runs
  <2>2. phase # "turn"
    BY <1>1, <2>1 DEF PhaseInv, Harness!TypeOK
  <2> QED  BY <1>1, <2>1, <2>2 DEF SerialInv, Harness!TypeOK
<1> QED  BY <1>1, <1>2, <1>3, WritesAreKept, SettingPersists, MessagesAreKept
         DEF SessionIsKept, Harness!SessionIsKept

\* However callers of the harness, one at a time while it is idle, write, send, abort, compact and
\* navigate, and whatever fails: the session holds every write once and in order, the model in use
\* is the last one written, the loop asks with the path of the session, every message is in one
\* place and in its order, and one failure does not leave the harness busy.
THEOREM SessionHolds == Harness!Spec => []SessionIsKept
BY HarnessInvariant, InvariantKeepsSession, PTL

-----------------------------------------------------------------------------
(* What no step of the harness does *)

\* A path is the beginning of itself, and of itself with an entry after it.
LEMMA Growing ==
  ASSUME NEW s \in Seq(Harness!Entry), NEW t, NEW e, t = s \/ t = Append(s, e)
  PROVE  Harness!IsPrefix(s, t)
<1>1. Len(s) \in Nat /\ Len(t) \in Nat /\ Len(s) <= Len(t)
  OBVIOUS
<1>2. \A i \in 1 .. Len(s) : s[i] = t[i]
  OBVIOUS
<1>3. SubSeq(s, 1, Len(s)) = SubSeq(t, 1, Len(s))
  BY <1>1, <1>2
<1> QED  BY <1>1, <1>3 DEF Harness!IsPrefix

\* An append goes to the end of the path.
LEMMA AppendsGrow ==
  ASSUME HarnessInv, NEW w, w.path = branch, Harness!Appended(w) \/ UNCHANGED Harness!session
  PROVE  Harness!IsPrefix(branch, branch')
<1>1. branch \in Seq(Harness!Entry)
  BY DEF HarnessInv, Harness!TypeOK
<1>2. branch' = branch \/ branch' = Append(branch, w.entry)
  BY DEF Harness!Appended, Harness!session
<1> QED  BY <1>1, <1>2, Growing

\* A step of a run leaves the path as it is or appends to it.
LEMMA RunsGrow ==
  ASSUME HarnessInv, NEW r \in Runs, Harness!RunStep(r)
  PROVE  Harness!IsPrefix(branch, branch')
<1>1. branch \in Seq(Harness!Entry) /\ RunInv(r)
  BY DEF HarnessInv, Harness!TypeOK
<1>2. run[r].writing # Harness!NoAppend => run[r].writing.path = branch
  BY <1>1 DEF RunInv, WritingInv
<1>3. CASE UNCHANGED Harness!session
  <2>1. branch' = branch
    BY <1>3 DEF Harness!session
  <2> QED  BY <1>1, <2>1, Growing
<1>4. CASE Harness!InjectEnds(r)
  <2>1. /\ run[r].writing # Harness!NoAppend
        /\ Harness!Appended(run[r].writing) \/ UNCHANGED Harness!session
    BY <1>4 DEF Harness!InjectEnds
  <2> QED  BY <1>2, <2>1, AppendsGrow
<1>5. CASE Harness!AnswerEnds(r)
  <2>1. /\ run[r].writing # Harness!NoAppend
        /\ Harness!Appended(run[r].writing) \/ UNCHANGED Harness!session
    BY <1>5 DEF Harness!AnswerEnds
  <2> QED  BY <1>2, <2>1, AppendsGrow
<1>6. CASE Harness!Reported(r)
  <2>1. /\ run[r].writing # Harness!NoAppend
        /\ Harness!Appended(run[r].writing) \/ UNCHANGED Harness!session
    BY <1>6 DEF Harness!Reported
  <2> QED  BY <1>2, <2>1, AppendsGrow
<1>7. CASE Harness!FlushEnds(r)
  <2>1. run[r].writing # Harness!NoAppend /\ Harness!Appended(run[r].writing)
    BY <1>7 DEF Harness!FlushEnds
  <2> QED  BY <1>2, <2>1, AppendsGrow
<1>8. CASE \/ Harness!TakeSnapshot(r) \/ Harness!SnapshotFails(r) \/ Harness!AnnounceNextTurn(r)
           \/ Harness!BeforeStart(r) \/ Harness!InjectBegins(r) \/ Harness!Drain(r) \/ Harness!Drained(r)
  <2>1. UNCHANGED Harness!session
    BY <1>8 DEF Harness!TakeSnapshot, Harness!SnapshotFails, Harness!AnnounceNextTurn, Harness!BeforeStart,
       Harness!InjectBegins, Harness!Drain, Harness!Drained
  <2> QED  BY <1>3, <2>1
<1>9. CASE \/ Harness!Answer(r) \/ Harness!Report(r) \/ Harness!TurnEnd(r) \/ Harness!FlushBegins(r)
           \/ Harness!FlushFails(r) \/ Harness!AfterTurn(r) \/ Harness!PrepareNextTurn(r)
           \/ Harness!AgentEnd(r) \/ Harness!Ended(r) \/ Harness!Settle(r)
  <2>1. UNCHANGED Harness!session
    BY <1>9 DEF Harness!Answer, Harness!Report, Harness!TurnEnd, Harness!FlushBegins, Harness!FlushFails,
       Harness!AfterTurn, Harness!PrepareNextTurn, Harness!AgentEnd, Harness!Ended, Harness!Settle
  <2> QED  BY <1>3, <2>1
<1> QED  BY <1>4, <1>5, <1>6, <1>7, <1>8, <1>9 DEF Harness!RunStep

\* Only the move of navigateTree takes entries off the path.
LEMMA StepsGrow ==
  ASSUME HarnessInv, Harness!Next
  PROVE  Harness!IsPrefix(branch, branch') \/ op.at = "navigate"
<1>1. branch \in Seq(Harness!Entry) /\ CallerInv
  BY DEF HarnessInv, Harness!TypeOK
<1>2. CASE UNCHANGED Harness!session
  <2>1. branch' = branch
    BY <1>2 DEF Harness!session
  <2> QED  BY <1>1, <2>1, Growing
<1>3. ASSUME NEW r \in Runs, Harness!Prompt(r) \/ Harness!RunStep(r)
      PROVE  Harness!IsPrefix(branch, branch')
  <2>1. CASE Harness!Prompt(r)
    <3>1. UNCHANGED Harness!session
      BY <2>1 DEF Harness!Prompt
    <3>2. branch' = branch
      BY <3>1 DEF Harness!session
    <3> QED  BY <1>1, <3>2, Growing
  <2> QED  BY <1>3, <2>1, RunsGrow
<1>4. CASE Harness!Written
  <2>1. /\ call # Harness!NoAppend
        /\ Harness!Appended(call) \/ UNCHANGED Harness!session
    BY <1>4 DEF Harness!Written
  <2>2. call.path = branch
    BY <1>1, <2>1 DEF CallerInv
  <2> QED  BY <2>1, <2>2, AppendsGrow
<1>5. CASE Harness!OpEnds
  <2>1. CASE op.at = "append" /\ Harness!Appended(op.writing)
    <3>1. op.writing.path = branch
      BY <1>1, <2>1 DEF CallerInv
    <3> QED  BY <2>1, <3>1, AppendsGrow
  <2> QED  BY <1>2, <1>5, <2>1 DEF Harness!OpEnds, Harness!session
<1>6. CASE \/ \E k \in Harness!WriteKinds : Harness!Write(k)
           \/ \E k \in Harness!TextKinds : Harness!Send(k)
           \/ \E k \in {"compact", "navigate"} : Harness!StartOp(k)
           \/ Harness!Abort \/ Harness!WaitForIdle \/ Harness!AbortReturns
           \/ Harness!OpAppends("compaction") \/ Harness!OpAppends("summary")
  <2>1. UNCHANGED Harness!session
    BY <1>6 DEF Harness!Write, Harness!Send, Harness!StartOp, Harness!Abort, Harness!WaitForIdle,
       Harness!AbortReturns, Harness!OpAppends
  <2> QED  BY <1>2, <2>1
<1>7. CASE Harness!MoveLeaf
  BY <1>7 DEF Harness!MoveLeaf
<1> QED  BY <1>3, <1>4, <1>5, <1>6, <1>7 DEF Harness!Next, Harness!OpStep, Runs

\* Only AbortReturns ends the wait of an abort, when the run that it waits for is done.
LEMMA AbortReturnsLate ==
  ASSUME HarnessInv, Harness!Next, aborter.at = "wait", aborter'.at = "none"
  PROVE  \A r \in seen : run[r].at = "done"
<1>1. CASE Harness!AbortReturns
  <2>1. /\ seen \subseteq Runs /\ 0 \notin Runs
        /\ \A r \in seen : run[r].at = "done" \/ aborter.for = r
    BY DEF HarnessInv, AbortInv, Harness!TypeOK, Runs, Harness!Runs
  <2>2. aborter.for = 0 \/ (aborter.for \in Runs /\ run[aborter.for].at = "done")
    BY <1>1 DEF Harness!AbortReturns, Runs
  <2> QED  BY <2>1, <2>2
<1>2. aborter' # aborter
  OBVIOUS
<1>3. ASSUME NEW r \in Runs, Harness!Prompt(r) \/ Harness!RunStep(r)
      PROVE  FALSE
  <2>1. CASE \/ Harness!Prompt(r)
             \/ Harness!TakeSnapshot(r) \/ Harness!SnapshotFails(r) \/ Harness!AnnounceNextTurn(r)
             \/ Harness!BeforeStart(r) \/ Harness!InjectBegins(r) \/ Harness!InjectEnds(r)
             \/ Harness!Drain(r) \/ Harness!Drained(r)
    BY <1>2, <2>1 DEF Harness!Prompt, Harness!TakeSnapshot, Harness!SnapshotFails, Harness!AnnounceNextTurn,
       Harness!BeforeStart, Harness!InjectBegins, Harness!InjectEnds, Harness!Drain, Harness!Drained,
       Harness!callers
  <2>2. CASE \/ Harness!Answer(r) \/ Harness!AnswerEnds(r) \/ Harness!Report(r) \/ Harness!Reported(r)
             \/ Harness!TurnEnd(r) \/ Harness!FlushBegins(r) \/ Harness!FlushEnds(r) \/ Harness!FlushFails(r)
    BY <1>2, <2>2 DEF Harness!Answer, Harness!AnswerEnds, Harness!Report, Harness!Reported, Harness!TurnEnd,
       Harness!FlushBegins, Harness!FlushEnds, Harness!FlushFails, Harness!callers
  <2>3. CASE \/ Harness!AfterTurn(r) \/ Harness!PrepareNextTurn(r)
             \/ Harness!AgentEnd(r) \/ Harness!Ended(r) \/ Harness!Settle(r)
    BY <1>2, <2>3 DEF Harness!AfterTurn, Harness!PrepareNextTurn, Harness!AgentEnd, Harness!Ended,
       Harness!Settle, Harness!callers
  <2> QED  BY <1>3, <2>1, <2>2, <2>3 DEF Harness!RunStep
<1>4. CASE \/ \E k \in Harness!WriteKinds : Harness!Write(k)
           \/ \E k \in Harness!TextKinds : Harness!Send(k)
           \/ \E k \in {"compact", "navigate"} : Harness!StartOp(k)
           \/ Harness!Written \/ Harness!Abort \/ Harness!WaitForIdle \/ Harness!OpStep
  BY <1>2, <1>4 DEF Harness!Write, Harness!Send, Harness!StartOp, Harness!Written, Harness!Abort,
     Harness!WaitForIdle, Harness!OpStep, Harness!OpAppends, Harness!MoveLeaf, Harness!OpEnds
<1> QED  BY <1>1, <1>3, <1>4 DEF Harness!Next, Runs

\* No append of one caller takes the entries of another off the path.
THEOREM PathGrows == Harness!Spec => Harness!PathOnlyGrows
<1>1. HarnessInv /\ [Harness!Next]_Harness!vars
        => [Harness!IsPrefix(branch, branch') \/ op.at = "navigate"]_branch
  BY StepsGrow, SameVariables DEF harnessVars
<1> QED  BY <1>1, HarnessInvariant, PTL DEF Harness!Spec, Harness!PathOnlyGrows

\* abort() returns only when the runs that it found in progress have settled.
THEOREM AbortIsPatient == Harness!Spec => Harness!AbortWaits
<1>1. HarnessInv /\ [Harness!Next]_Harness!vars
        => [(aborter.at = "wait" /\ aborter'.at = "none") => \A r \in seen : run[r].at = "done"]_Harness!vars
  BY AbortReturnsLate
<1> QED  BY <1>1, HarnessInvariant, PTL DEF Harness!Spec, Harness!AbortWaits
=============================================================================
