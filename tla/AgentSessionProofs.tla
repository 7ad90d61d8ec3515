-------------------------- MODULE AgentSessionProofs --------------------------
(***************************************************************************)
(* Theorems about what AgentSession does around the runs of its agent, for *)
(* every number of calls of prompt(), of retries, of messages, commands,   *)
(* aborts and compactions, and every setting of what a compaction keeps.   *)
(*                                                                         *)
(* The invariants stand on one another.  FlowInv says which call of        *)
(* prompt() is at work, where its run is and what the session has heard of *)
(* it.  PlaceInv says that every message of the user is in one place, and  *)
(* TalkInv how the context of the agent, the path of the session and the   *)
(* context that a reopened session would have relate.  SavedInv says that  *)
(* the response on which a decision is pending is the last entry, and      *)
(* BudgetInv how many failures in a row there may be at each step.         *)
(***************************************************************************)
EXTENDS AgentSession, SequenceTheorems, FiniteSetTheorems, WellFoundedInduction, TLAPS

Phases == {"none", "prompts", "turn", "request", "tool", "stopped", "end"}
Runs == [phase : Phases, pending : Seq(Nat), skip : BOOLEAN, aborted : BOOLEAN,
         termination : {"none", "completed", "error", "aborted"}]
Counters == [texts : Nat, tools : Nat, bash : Nat, aborts : Nat, compacts : Nat]
Steps == {"idle", "authorizing", "summarizing", "preflight", "running", "sleep", "cancelled", "settling"}

(* Every variable that the argument reads keeps its type. *)
TypeInv ==
  /\ context \in Seq(Entry) /\ branch \in Seq(Entry) /\ pendingBash \in Seq(Entry)
  /\ unheard \subseteq Entry /\ run \in Runs
  /\ steering \in Seq(Nat) /\ followUp \in Seq(Nat) /\ displayed \subseteq Nat /\ cleared \subseteq Nat
  /\ isAgentRunActive \in BOOLEAN /\ agentEndSeen \in BOOLEAN /\ connected \in BOOLEAN
  /\ overflowAttempted \in BOOLEAN /\ retryAttempt \in 0 .. MaxRetries
  /\ lastAssistant \in {None} \cup {m \in Entry : m.kind = "assistant"}
  /\ prompt \in [Prompts -> Steps] /\ text \in [Prompts -> Nat]
  /\ auto \in {None} \cup AutoCompaction
  /\ manual \in {"idle", "waiting", "authorizing", "summarizing"}
  /\ manualPrep \in {None} \cup Preparation
  /\ waiting \subseteq {"abort", "compact"}
  /\ nextId \in Nat \ {0} /\ used \in Counters /\ large \in Nat /\ bounds \in Scenarios

\* A call of prompt() is at work from its first check to the end of its last run.
AtWork(p) == prompt[p] \notin {"idle", "settling"}
Compacting(p) == prompt[p] \in {"authorizing", "summarizing"}
\* It is at work on runs: in one, between two, or compacting between two.
InRuns(p) == prompt[p] \in {"running", "sleep", "cancelled"} \/ (Compacting(p) /\ ~auto.pre)

\* One call is at work at a time.
OneAtWork == \A p, q \in Prompts : AtWork(p) /\ AtWork(q) => p = q

\* The automatic compaction is that of the call.
AutoFits ==
  /\ auto # None => \E p \in Prompts : Compacting(p)
  /\ \A p \in Prompts : /\ Compacting(p) => auto # None
                        /\ prompt[p] = "summarizing" => auto.prep # None

ActiveFits ==
  /\ isAgentRunActive => \E p \in Prompts : InRuns(p)
  /\ \A p \in Prompts : InRuns(p) => isAgentRunActive
  /\ ~isAgentRunActive => pendingBash = <<>>

\* The agent runs while the call waits for it.
RunFits ==
  /\ run.phase # "none" => \E p \in Prompts : prompt[p] = "running"
  /\ \A p \in Prompts : prompt[p] = "running" => run.phase # "none"
  /\ run.phase \notin {"prompts", "request"} => run.pending = <<>>
  /\ run.phase = "end" <=> run.termination # "none"

\* compact() works while no call of prompt() does, and has disconnected the session.
ManualFits ==
  /\ manual \in {"authorizing", "summarizing"} => \A p \in Prompts : ~AtWork(p)
  /\ manual = "waiting" => /\ \A p \in Prompts : prompt[p] # "preflight"
                           /\ auto # None => ~auto.pre
  /\ "compact" \in waiting <=> manual = "waiting"
  /\ manual = "idle" <=> connected
  /\ manual = "summarizing" => manualPrep # None

Control == OneAtWork /\ AutoFits /\ ActiveFits /\ RunFits /\ ManualFits

\* What the session heard of the last run has been dealt with before the next begins.
Heard ==
  /\ agentEndSeen => lastAssistant = None
  /\ run.phase # "none" /\ connected => ~agentEndSeen
  /\ isAgentRunActive /\ run.phase = "none" => lastAssistant = None

FailedStop == {"error", "fatal", "overflow"}

\* What the context ends with at each step of a run.
ContextEnds ==
  /\ isAgentRunActive => context # <<>> \/ (run.phase = "prompts" /\ run.pending # <<>>)
  /\ run.phase \in {"prompts", "turn", "request"} /\ run.pending = <<>> => Last(context).kind # "assistant"
  /\ run.phase = "tool" => Last(context).stop = "toolUse"
  /\ run.phase = "stopped" => Last(context).stop \in {"stop", "length"} /\ Len(context) >= 2
  /\ run.phase = "end" =>
       /\ run.termination = "completed" => Last(context).stop \in {"stop", "length"} /\ Len(context) >= 2
       /\ run.termination = "error" => Last(context).stop \in FailedStop /\ Len(context) >= 2
       /\ run.termination = "aborted" => Last(context).stop \notin FailedStop

\* The session heard the response that the run ended with.
LastHeard ==
  connected /\ (run.phase = "stopped" \/ (run.phase = "end" /\ run.termination # "aborted")) =>
    lastAssistant = Last(context)

FlowInv == TypeInv /\ Control /\ Heard /\ ContextEnds /\ LastHeard

LEMMA FrontFacts ==
  ASSUME NEW S, NEW s \in Seq(S), s # <<>>
  PROVE  /\ Front(s) \in Seq(S) /\ Len(Front(s)) = Len(s) - 1
         /\ \A i \in 1 .. Len(s) - 1 : Front(s)[i] = s[i]
         /\ Last(s) \in S /\ Last(s) = s[Len(s)]
<1>1. Len(s) \in Nat \ {0} /\ \A i \in 1 .. Len(s) : s[i] \in S
  BY EmptySeq, ElementOfSeq
<1>2. Len(s) - 1 \in Int /\ 1 \in Int /\ \A i \in 1 .. Len(s) - 1 : s[i] \in S
  BY <1>1
<1>3. /\ Front(s) \in Seq(S) /\ Len(Front(s)) = Len(s) - 1
      /\ \A i \in 1 .. (Len(s) - 1) - 1 + 1 : Front(s)[i] = s[1 + i - 1]
  <2>1. /\ Front(s) \in Seq(S)
        /\ Len(Front(s)) = IF 1 <= Len(s) - 1 THEN (Len(s) - 1) - 1 + 1 ELSE 0
        /\ \A i \in 1 .. (Len(s) - 1) - 1 + 1 : Front(s)[i] = s[1 + i - 1]
    BY <1>2, SubSeqProperties DEF Front
  <2>2. Len(Front(s)) = Len(s) - 1
    <3> DEFINE n == Len(s)
    <3>1. n \in Nat \ {0} /\ Len(Front(s)) = IF 1 <= n - 1 THEN (n - 1) - 1 + 1 ELSE 0
      BY <1>1, <2>1
    <3> HIDE DEF n
    <3>2. Len(Front(s)) = n - 1
      BY <3>1
    <3>3. QED
      BY <3>2 DEF n
  <2>3. QED
    BY <2>1, <2>2
<1>4. QED
  BY <1>1, <1>3 DEF Last

LEMMA NoRunIsRun == NoRun \in Runs
  BY EmptySeq DEF NoRun, Runs, Phases

LEMMA TypeInit == Init => TypeInv
<1> SUFFICES ASSUME Init PROVE TypeInv
  OBVIOUS
<1>1. used \in Counters /\ run \in Runs
  BY NoRunIsRun DEF Init, Counters
<1>2. <<>> \in Seq(Entry) /\ <<>> \in Seq(Nat)
  BY EmptySeq
<1>3. MaxRetries \in Nat
  BY AgentSessionAssumption
<1>4. prompt \in [Prompts -> Steps] /\ text \in [Prompts -> Nat]
  BY DEF Init, Steps
<1>5. QED
  <2>1. /\ context \in Seq(Entry) /\ branch \in Seq(Entry) /\ pendingBash \in Seq(Entry)
        /\ unheard \subseteq Entry
        /\ steering \in Seq(Nat) /\ followUp \in Seq(Nat) /\ displayed \subseteq Nat /\ cleared \subseteq Nat
    BY <1>2 DEF Init
  <2>2. /\ isAgentRunActive \in BOOLEAN /\ agentEndSeen \in BOOLEAN /\ connected \in BOOLEAN
        /\ overflowAttempted \in BOOLEAN
    BY DEF Init
  <2>3. retryAttempt \in 0 .. MaxRetries /\ nextId \in Nat \ {0} /\ large \in Nat
    BY <1>3 DEF Init
  <2>4. QED
    BY <1>1, <1>4, <2>1, <2>2, <2>3 DEF Init, TypeInv

-----------------------------------------------------------------------------
(* Positions in a sequence *)

\* A set of natural numbers has a least element.
LEMMA Least ==
  ASSUME NEW S \in SUBSET Nat, S # {}
  PROVE  \E i \in S : \A j \in S : i <= j
<1> DEFINE T == {0 .. i : i \in S}
<1>1. T \subseteq FiniteSubsetsOf(Nat)
  <2>1. \A i \in Nat : IsFiniteSet(0 .. i) /\ 0 .. i \subseteq Nat
    BY FS_Interval
  <2>2. QED
    BY <2>1 DEF FiniteSubsetsOf
<1>2. PICK x \in T : \A y \in T : <<y, x>> \notin StrictSubsetOrdering(Nat)
  <2>1. T # {}
    OBVIOUS
  <2>2. QED
    BY <1>1, <2>1, FS_StrictSubsetOrderingWellFounded, WFMin
<1>3. PICK i \in S : x = 0 .. i
  BY <1>2
<1>4. ASSUME NEW j \in S PROVE i <= j
  <2>1. SUFFICES ASSUME j < i PROVE FALSE
    OBVIOUS
  <2>2. 0 .. j \subseteq Nat /\ 0 .. i \subseteq Nat /\ 0 .. j \subseteq 0 .. i
        /\ i \notin 0 .. j /\ i \in 0 .. i
    BY <2>1
  <2>3. <<0 .. j, 0 .. i>> \in StrictSubsetOrdering(Nat)
    BY <2>2 DEF StrictSubsetOrdering
  <2>4. QED
    BY <1>2, <1>3, <2>3
<1>5. QED
  BY <1>4

LEMMA MinIsLeast ==
  ASSUME NEW S \in SUBSET Nat, S # {}
  PROVE  Min(S) \in S /\ \A j \in S : Min(S) <= j
<1>1. \E i \in S : \A j \in S : i <= j
  BY Least
<1>2. QED
  BY <1>1 DEF Min

\* A set of numbers up to n has a greatest one.
LEMMA MaxIsGreatest ==
  ASSUME NEW n \in Nat, NEW S \in SUBSET (0 .. n), S # {}
  PROVE  Max(S) \in S /\ \A j \in S : j <= Max(S)
<1> DEFINE T == {n - i : i \in S}
<1>1. T \in SUBSET Nat /\ T # {}
  <2>1. \A i \in S : n - i \in Nat
    OBVIOUS
  <2>2. QED
    BY <2>1
<1>2. PICK t \in T : \A u \in T : t <= u
  BY <1>1, Least
<1>3. PICK i \in S : t = n - i
  BY <1>2
<1>4. ASSUME NEW j \in S PROVE i >= j
  <2>1. n - i <= n - j
    BY <1>2, <1>3
  <2>2. QED
    BY <2>1
<1>5. \E x \in S : \A y \in S : x >= y
  BY <1>4
<1>6. Max(S) \in S /\ \A y \in S : Max(S) >= y
  BY <1>5 DEF Max
<1>7. QED
  BY <1>6

\* LastCompaction finds the last compaction of a path, if there is one.
LEMMA LastCompactionFound ==
  ASSUME NEW path \in Seq(Entry)
  PROVE  /\ LastCompaction(path) \in 0 .. Len(path)
         /\ LastCompaction(path) = 0 => \A i \in 1 .. Len(path) : path[i].kind # "compaction"
         /\ LastCompaction(path) # 0 => path[LastCompaction(path)].kind = "compaction"
         /\ \A i \in 1 .. Len(path) : path[i].kind = "compaction" => i <= LastCompaction(path)
<1> DEFINE I == {i \in 1 .. Len(path) : path[i].kind = "compaction"}
<1>1. LastCompaction(path) = IF I # {} THEN Max(I) ELSE 0
  BY DEF LastCompaction, SelectLastInSubSeq
<1>2. Len(path) \in Nat /\ I \in SUBSET (0 .. Len(path))
  OBVIOUS
<1>3. I # {} => Max(I) \in I /\ \A j \in I : j <= Max(I)
  BY <1>2, MaxIsGreatest
<1>4. QED
  BY <1>1, <1>2, <1>3

\* Find finds the first entry with an id, if there is one.
LEMMA FindFound ==
  ASSUME NEW path \in Seq(Entry), NEW id
  PROVE  /\ Find(path, id) \in 0 .. Len(path)
         /\ Find(path, id) # 0 => path[Find(path, id)].id = id
         /\ \A i \in 1 .. Len(path) : path[i].id = id => Find(path, id) \in 1 .. i
<1> DEFINE I == {i \in 1 .. Len(path) : path[i].id = id}
<1>1. Find(path, id) = IF I # {} THEN Min(I) ELSE 0
  BY DEF Find, SelectInSeq
<1>2. Len(path) \in Nat /\ I \in SUBSET Nat
  OBVIOUS
<1>3. CASE I = {}
  BY <1>1, <1>2, <1>3
<1>4. CASE I # {}
  <2>1. Min(I) \in I /\ \A j \in I : Min(I) <= j
    BY <1>2, <1>4, MinIsLeast
  <2>2. Find(path, id) \in I /\ \A j \in I : Find(path, id) <= j
    BY <1>1, <1>4, <2>1
  <2>3. QED
    BY <1>2, <2>2
<1>5. QED
  BY <1>3, <1>4

\* How many entries the last compaction of a path keeps from before it.
Kept(path) ==
  LET c == LastCompaction(path)
      k == Find(path, path[c].ref)
  IN  IF k \in 1 .. (c - 1) THEN c - k ELSE 0

\* The position in the path of the entry at position i of its context.
Source(path, i) ==
  LET c == LastCompaction(path)
  IN  IF c = 0 THEN i
      ELSE IF i = 1 THEN c
      ELSE IF i <= Kept(path) + 1 THEN c - Kept(path) + i - 2 ELSE c + i - 1 - Kept(path)

ContextLength(path) ==
  IF LastCompaction(path) = 0 THEN Len(path)
  ELSE 1 + Kept(path) + (Len(path) - LastCompaction(path))

LEMMA KeptFacts ==
  ASSUME NEW path \in Seq(Entry), LastCompaction(path) # 0
  PROVE  /\ Kept(path) \in 0 .. (LastCompaction(path) - 1)
         /\ LET c == LastCompaction(path)
                k == Find(path, path[c].ref)
            IN  IF k \in 1 .. (c - 1) THEN Kept(path) = c - k ELSE Kept(path) = 0
<1> DEFINE c == LastCompaction(path)
           k == Find(path, path[c].ref)
<1>1. c \in Nat /\ c # 0 /\ k \in Nat
  BY LastCompactionFound, FindFound
<1>2. Kept(path) = IF k \in 1 .. (c - 1) THEN c - k ELSE 0
  BY DEF Kept
<1> HIDE DEF c, k
<1>3. Kept(path) \in 0 .. (c - 1)
  BY <1>1, <1>2
<1>4. QED
  BY <1>2, <1>3 DEF c, k

\* The context of a path is made of entries at different positions of it.
LEMMA ContextFacts ==
  ASSUME NEW path \in Seq(Entry)
  PROVE  /\ ContextEntries(path) \in Seq(Entry)
         /\ Len(ContextEntries(path)) = ContextLength(path)
         /\ \A i \in 1 .. ContextLength(path) :
              Source(path, i) \in 1 .. Len(path) /\ ContextEntries(path)[i] = path[Source(path, i)]
         /\ \A i, j \in 1 .. ContextLength(path) : Source(path, i) = Source(path, j) => i = j
<1> DEFINE c == LastCompaction(path)
           k == Find(path, path[c].ref)
           n == Len(path)
           kept == Kept(path)
<1>1. n \in Nat /\ c \in 0 .. n /\ \A i \in 1 .. n : path[i] \in Entry
  BY LastCompactionFound, ElementOfSeq, LenProperties
<1>2. CASE c = 0
  BY <1>1, <1>2 DEF ContextEntries, ContextLength, Source
<1>3. CASE c # 0
  <2> DEFINE keep == IF k \in 1 .. (c - 1) THEN SubSeq(path, k, c - 1) ELSE <<>>
             rest == SubSeq(path, c + 1, n)
  <2>1. ContextEntries(path) = (<<path[c]>> \o keep) \o rest
    BY <1>3 DEF ContextEntries
  <2>2. kept \in 0 .. (c - 1) /\ IF k \in 1 .. (c - 1) THEN kept = c - k ELSE kept = 0
    BY <1>3, KeptFacts
  <2>3. /\ keep \in Seq(Entry) /\ Len(keep) = kept
        /\ \A i \in 1 .. kept : keep[i] = path[c - kept + i - 1]
    <3>1. CASE k \in 1 .. (c - 1)
      <4>1. k \in Int /\ c - 1 \in Int /\ \A i \in k .. (c - 1) : path[i] \in Entry
        BY <1>1, <3>1
      <4>2. keep = SubSeq(path, k, c - 1)
        BY <3>1
      <4>3. /\ keep \in Seq(Entry)
            /\ Len(keep) = IF k <= c - 1 THEN (c - 1) - k + 1 ELSE 0
            /\ \A i \in 1 .. (c - 1) - k + 1 : keep[i] = path[k + i - 1]
        BY <4>1, <4>2, SubSeqProperties
      <4> HIDE DEF c, k, keep, kept, n
      <4>4. kept = c - k /\ k \in Int /\ k <= c - 1 /\ c \in Int
        BY <1>1, <2>2, <3>1
      <4>5. Len(keep) = kept
        BY <4>3, <4>4
      <4>7. ASSUME NEW i \in 1 .. kept PROVE keep[i] = path[c - kept + i - 1]
        <5>1. i \in 1 .. (c - 1) - k + 1 /\ k + i - 1 = c - kept + i - 1
          BY <4>4
        <5>2. QED
          BY <4>3, <5>1
      <4>6. QED
        BY <4>3, <4>5, <4>7
    <3>2. CASE k \notin 1 .. (c - 1)
      <4>1. keep = <<>> /\ kept = 0
        BY <2>2, <3>2
      <4> HIDE DEF keep, kept
      <4>2. QED
        BY <4>1, EmptySeq
    <3>3. QED
      BY <3>1, <3>2
  <2>4. /\ rest \in Seq(Entry) /\ Len(rest) = n - c
        /\ \A i \in 1 .. n - c : rest[i] = path[c + i]
    <3>1. c + 1 \in Int /\ n \in Int /\ \A i \in (c + 1) .. n : path[i] \in Entry
      BY <1>1
    <3>2. /\ rest \in Seq(Entry)
          /\ Len(rest) = IF c + 1 <= n THEN n - (c + 1) + 1 ELSE 0
          /\ \A i \in 1 .. n - (c + 1) + 1 : rest[i] = path[(c + 1) + i - 1]
      BY <3>1, SubSeqProperties
    <3> HIDE DEF c, n, rest
    <3>3. Len(rest) = n - c
      BY <1>1, <3>2
    <3>4. \A i \in 1 .. n - c : rest[i] = path[c + i]
      BY <1>1, <3>2
    <3>5. QED
      BY <3>2, <3>3, <3>4
  <2>5. /\ <<path[c]>> \in Seq(Entry) /\ Len(<<path[c]>>) = 1 /\ <<path[c]>>[1] = path[c]
    BY <1>1, <1>3
  <2> DEFINE head == <<path[c]>> \o keep
  <2> HIDE DEF c, k, n, kept, keep, rest
  <2>6. /\ head \in Seq(Entry) /\ Len(head) = 1 + kept
        /\ \A i \in 1 .. 1 + kept : head[i] = IF i <= 1 THEN path[c] ELSE keep[i - 1]
    <3>1. /\ head \in Seq(Entry) /\ Len(head) = 1 + kept
          /\ \A i \in 1 .. 1 + kept : head[i] = IF i <= 1 THEN <<path[c]>>[i] ELSE keep[i - 1]
      BY <2>3, <2>5, ConcatProperties
    <3>2. ASSUME NEW i \in 1 .. 1 + kept PROVE head[i] = IF i <= 1 THEN path[c] ELSE keep[i - 1]
      BY <2>2, <3>1
    <3>3. QED
      BY <3>1, <3>2
  <2>7. /\ head \o rest \in Seq(Entry) /\ Len(head \o rest) = (1 + kept) + (n - c)
        /\ \A i \in 1 .. (1 + kept) + (n - c) :
              (head \o rest)[i] = IF i <= 1 + kept THEN head[i] ELSE rest[i - (1 + kept)]
    <3> HIDE DEF head
    <3>1. /\ head \o rest \in Seq(Entry) /\ Len(head \o rest) = Len(head) + Len(rest)
          /\ \A i \in 1 .. Len(head) + Len(rest) :
               (head \o rest)[i] = IF i <= Len(head) THEN head[i] ELSE rest[i - Len(head)]
      BY <2>4, <2>6, ConcatProperties
    <3>2. Len(head) = 1 + kept /\ Len(rest) = n - c
      BY <2>4, <2>6
    <3>3. QED
      BY <3>1, <3>2
  <2>8. ContextLength(path) = (1 + kept) + (n - c)
    BY <1>1, <1>3, <2>2 DEF ContextLength, c, n, kept
  <2>9. ASSUME NEW i \in 1 .. (1 + kept) + (n - c)
        PROVE  /\ Source(path, i) = IF i = 1 THEN c
                                    ELSE IF i <= kept + 1 THEN c - kept + i - 2 ELSE c + i - 1 - kept
               /\ Source(path, i) \in 1 .. n
               /\ (head \o rest)[i] = path[Source(path, i)]
    <3>1. Source(path, i) = IF i = 1 THEN c
                            ELSE IF i <= kept + 1 THEN c - kept + i - 2 ELSE c + i - 1 - kept
      BY <1>3 DEF Source, c, kept
    <3>2. Source(path, i) \in 1 .. n
      BY <1>1, <1>3, <2>2, <3>1
    <3>3. CASE i = 1
      <4>1. 1 \in 1 .. 1 + kept /\ i <= 1 + kept
        BY <2>2, <3>3
      <4>2. (head \o rest)[i] = head[1] /\ head[1] = path[c]
        BY <2>6, <2>7, <3>3, <4>1
      <4>3. QED
        BY <3>1, <3>2, <3>3, <4>2
    <3>4. CASE i # 1 /\ i <= kept + 1
      <4>1. i - 1 \in 1 .. kept /\ i <= 1 + kept /\ i \in 1 .. 1 + kept /\ ~(i <= 1)
        BY <2>2, <3>4
      <4>2. (head \o rest)[i] = keep[i - 1]
        BY <2>6, <2>7, <4>1
      <4>3. keep[i - 1] = path[c - kept + (i - 1) - 1]
        BY <2>3, <4>1
      <4>4. c - kept + (i - 1) - 1 = c - kept + i - 2
        BY <1>1, <2>2
      <4>5. QED
        BY <3>1, <3>2, <3>4, <4>2, <4>3, <4>4
    <3>5. CASE ~(i <= kept + 1)
      <4>1. i - (1 + kept) \in 1 .. n - c /\ ~(i <= 1 + kept)
        BY <1>1, <2>2, <3>5
      <4>2. (head \o rest)[i] = path[c + (i - (1 + kept))]
        BY <2>4, <2>7, <4>1
      <4>3. c + (i - (1 + kept)) = c + i - 1 - kept /\ i # 1
        BY <1>1, <2>2, <3>5
      <4>4. QED
        BY <3>1, <3>2, <3>5, <4>2, <4>3
    <3>6. QED
      BY <3>1, <3>2, <3>3, <3>4, <3>5
  <2>10. ASSUME NEW i \in 1 .. (1 + kept) + (n - c), NEW j \in 1 .. (1 + kept) + (n - c),
                Source(path, i) = Source(path, j)
         PROVE  i = j
    <3>1. /\ Source(path, i) = IF i = 1 THEN c
                            ELSE IF i <= kept + 1 THEN c - kept + i - 2 ELSE c + i - 1 - kept
          /\ Source(path, j) = IF j = 1 THEN c
                            ELSE IF j <= kept + 1 THEN c - kept + j - 2 ELSE c + j - 1 - kept
      BY <2>9
    <3>2. n \in Int /\ c \in Int /\ kept \in Int /\ 0 <= kept /\ kept <= c - 1 /\ i \in Int /\ j \in Int
          /\ i >= 1 /\ j >= 1
      BY <1>1, <1>3, <2>2, <2>10
    <3>3. /\ i = 1 => Source(path, i) = c
          /\ i # 1 /\ i <= kept + 1 => Source(path, i) = c - kept + i - 2
          /\ i # 1 /\ ~(i <= kept + 1) => Source(path, i) = c + i - 1 - kept
      BY <3>1
    <3>4. /\ j = 1 => Source(path, i) = c
          /\ j # 1 /\ j <= kept + 1 => Source(path, i) = c - kept + j - 2
          /\ j # 1 /\ ~(j <= kept + 1) => Source(path, i) = c + j - 1 - kept
      BY <2>10, <3>1
    <3>5. CASE i = 1
      BY <3>2, <3>3, <3>4, <3>5
    <3>6. CASE i # 1 /\ i <= kept + 1
      BY <3>2, <3>3, <3>4, <3>6
    <3>7. CASE i # 1 /\ ~(i <= kept + 1)
      BY <3>2, <3>3, <3>4, <3>7
    <3>8. QED
      BY <3>5, <3>6, <3>7
  <2>11. QED
    BY <2>1, <2>7, <2>8, <2>9, <2>10 DEF head, n
<1>4. QED
  BY <1>2, <1>3

\* Entries that are added to a path, none of them a compaction, are added to its context.
LEMMA ContextOfLonger ==
  ASSUME NEW path \in Seq(Entry), NEW s \in Seq(Entry),
         \A i \in 1 .. Len(s) : s[i].kind # "compaction"
  PROVE  ContextEntries(path \o s) = ContextEntries(path) \o s
<1> DEFINE longer == path \o s
           c == LastCompaction(path)
           m == Len(path)
           n == Len(s)
<1>1. /\ longer \in Seq(Entry) /\ Len(longer) = m + n /\ m \in Nat /\ n \in Nat
      /\ \A i \in 1 .. m + n : longer[i] = IF i <= m THEN path[i] ELSE s[i - m]
  BY ConcatProperties
<1> HIDE DEF longer
<1>2. /\ \A i \in 1 .. m : longer[i] = path[i] /\ i \in 1 .. m + n
      /\ \A i \in 1 .. n : longer[m + i] = s[i] /\ m + i \in 1 .. m + n
      /\ \A i \in 1 .. m + n : i \notin 1 .. m => longer[i].kind # "compaction"
  <2>1. ASSUME NEW i \in 1 .. n PROVE longer[m + i] = s[i] /\ m + i \in 1 .. m + n
    <3>1. m + i \in 1 .. m + n /\ ~(m + i <= m) /\ (m + i) - m = i
      BY <1>1
    <3>2. QED
      BY <1>1, <3>1
  <2>2. ASSUME NEW i \in 1 .. m + n, i \notin 1 .. m PROVE longer[i].kind # "compaction"
    <3>1. i - m \in 1 .. n /\ longer[i] = s[i - m]
      BY <1>1, <2>2
    <3>2. QED
      BY <3>1
  <2>3. ASSUME NEW i \in 1 .. m PROVE longer[i] = path[i] /\ i \in 1 .. m + n
    <3>1. i \in 1 .. m + n /\ i <= m
      BY <1>1
    <3>2. QED
      BY <1>1, <3>1
  <2>4. QED
    BY <2>1, <2>2, <2>3
<1>3. LastCompaction(longer) = c /\ c \in 0 .. m
  <2>1. /\ c \in 0 .. m
        /\ c = 0 => \A i \in 1 .. m : path[i].kind # "compaction"
        /\ c # 0 => path[c].kind = "compaction"
        /\ \A i \in 1 .. m : path[i].kind = "compaction" => i <= c
    BY LastCompactionFound
  <2> DEFINE d == LastCompaction(longer)
  <2>2. /\ d \in 0 .. m + n
        /\ d # 0 => longer[d].kind = "compaction"
        /\ \A i \in 1 .. m + n : longer[i].kind = "compaction" => i <= d
    BY <1>1, LastCompactionFound
  <2> HIDE DEF c, d, m, n
  <2>3. d # 0 => d \in 1 .. m /\ path[d].kind = "compaction" /\ d <= c
    BY <1>1, <1>2, <2>1, <2>2
  <2>4. c # 0 => c \in 1 .. m /\ longer[c].kind = "compaction" /\ c <= d
    BY <1>1, <1>2, <2>1, <2>2
  <2>5. d = c
    BY <1>1, <2>1, <2>2, <2>3, <2>4
  <2>6. QED
    BY <2>1, <2>5 DEF d
<1>4. CASE c = 0
  BY <1>3, <1>4 DEF ContextEntries, longer
<1>5. CASE c # 0
  <2>1. Kept(longer) = Kept(path) /\ Kept(path) \in 0 .. (c - 1)
    <3> DEFINE k == Find(path, path[c].ref)
               l == Find(longer, longer[c].ref)
               p == Kept(path)
               q == Kept(longer)
    <3>1. c \in 1 .. m /\ longer[c] = path[c]
      BY <1>1, <1>2, <1>3, <1>5
    <3>2. /\ k \in 0 .. m /\ (k # 0 => path[k].id = path[c].ref)
          /\ \A i \in 1 .. m : path[i].id = path[c].ref => k \in 1 .. i
      BY FindFound
    <3>3. /\ l \in 0 .. m + n /\ (l # 0 => longer[l].id = path[c].ref)
          /\ \A i \in 1 .. m + n : longer[i].id = path[c].ref => l \in 1 .. i
      BY <1>1, <3>1, FindFound
    <3>4. /\ p \in 0 .. (c - 1) /\ (IF k \in 1 .. (c - 1) THEN p = c - k ELSE p = 0)
      BY <1>5, KeptFacts
    <3>5. /\ q \in 0 .. (c - 1) /\ (IF l \in 1 .. (c - 1) THEN q = c - l ELSE q = 0)
      BY <1>1, <1>3, <1>5, KeptFacts
    <3> HIDE DEF c, m, n, k, l, p, q
    <3>6. k \in 1 .. (c - 1) => l = k
      BY <1>1, <1>2, <3>1, <3>2, <3>3
    <3>7. l \in 1 .. (c - 1) => l = k
      BY <1>1, <1>2, <3>1, <3>2, <3>3
    <3>8. p = q
      BY <3>4, <3>5, <3>6, <3>7
    <3>9. QED
      BY <3>4, <3>8 DEF p, q
  <2> DEFINE kept == Kept(path)
             long == ContextEntries(longer)
             short == ContextEntries(path)
             both == short \o s
             t == ContextLength(path)
  <2>2. /\ long \in Seq(Entry) /\ Len(long) = ContextLength(longer)
        /\ \A i \in 1 .. ContextLength(longer) : long[i] = longer[Source(longer, i)]
    BY <1>1, ContextFacts
  <2>3. /\ short \in Seq(Entry) /\ Len(short) = t
        /\ \A i \in 1 .. t : short[i] = path[Source(path, i)] /\ Source(path, i) \in 1 .. m
    BY ContextFacts
  <2>4. t = 1 + kept + (m - c) /\ ContextLength(longer) = 1 + kept + ((m + n) - c)
    BY <1>1, <1>3, <1>5, <2>1 DEF ContextLength
  <2>5. \A i \in Nat :
          /\ Source(longer, i) = Source(path, i)
          /\ ~(i <= kept + 1) /\ i # 1 => Source(path, i) = c + i - 1 - kept
    BY <1>3, <1>5, <2>1 DEF Source
  <2> HIDE DEF kept, long, short, t, c, m, n
  <2>6. /\ t \in Nat /\ kept \in Nat /\ ContextLength(longer) = t + n /\ t >= kept + 1
        /\ c \in Nat
    BY <1>1, <1>3, <2>1, <2>4 DEF kept
  <2>7. /\ both \in Seq(Entry) /\ Len(both) = t + n
        /\ \A i \in 1 .. t + n : both[i] = IF i <= t THEN short[i] ELSE s[i - t]
    BY <2>3, ConcatProperties DEF n
  <2>8. ASSUME NEW i \in 1 .. t + n PROVE long[i] = both[i]
    <3>1. long[i] = longer[Source(path, i)]
      BY <2>2, <2>5, <2>6
    <3>2. CASE i <= t
      <4>1. i \in 1 .. t
        BY <2>6, <3>2
      <4>2. both[i] = path[Source(path, i)] /\ Source(path, i) \in 1 .. m
        BY <2>3, <2>7, <3>2, <4>1
      <4>3. QED
        BY <1>2, <3>1, <4>2
    <3>3. CASE ~(i <= t)
      <4>1. i \in Nat /\ i # 1 /\ ~(i <= kept + 1) /\ i - t \in 1 .. n
        BY <1>1, <2>6, <3>3
      <4>2. Source(path, i) = c + i - 1 - kept
        BY <2>5, <4>1
      <4>3. c + i - 1 - kept = m + (i - t)
        BY <1>1, <2>4, <2>6, <4>1
      <4>4. longer[m + (i - t)] = s[i - t]
        BY <1>2, <4>1
      <4>5. QED
        BY <2>7, <3>1, <3>3, <4>2, <4>3, <4>4
    <3>4. QED
      BY <3>2, <3>3
  <2>9. long = both
    <3>1. Len(long) = Len(both) /\ \A i \in 1 .. Len(long) : long[i] = both[i]
      BY <2>2, <2>6, <2>7, <2>8
    <3> HIDE DEF both
    <3>2. QED
      BY <2>2, <2>7, <3>1, SeqEqual
  <2>10. QED
    BY <2>9 DEF long, both, short, longer
<1>6. QED
  BY <1>4, <1>5

LEMMA ContextOfAppended ==
  ASSUME NEW path \in Seq(Entry), NEW m \in Entry, m.kind # "compaction"
  PROVE  ContextEntries(Append(path, m)) = Append(ContextEntries(path), m)
<1>1. <<m>> \in Seq(Entry) /\ Len(<<m>>) = 1 /\ <<m>>[1] = m
  OBVIOUS
<1>2. \A i \in 1 .. Len(<<m>>) : <<m>>[i].kind # "compaction"
  BY <1>1
<1>3. ContextEntries(path \o <<m>>) = ContextEntries(path) \o <<m>>
  BY <1>1, <1>2, ContextOfLonger
<1>4. ContextEntries(path) \in Seq(Entry)
  BY ContextFacts
<1>5. QED
  BY <1>3, <1>4, AppendIsConcat

\* After a compaction that keeps an entry of the path, its context begins with the
\* compaction and ends with the last entry before it.
LEMMA ContextOfCompacted ==
  ASSUME NEW path \in Seq(Entry), NEW m \in Entry, m.kind = "compaction",
         NEW cut \in 1 .. Len(path), path[cut].id = m.ref
  PROVE  LET ctx == ContextEntries(Append(path, m))
         IN  /\ ctx \in Seq(Entry) /\ Len(ctx) >= 2 /\ ctx[1] = m
             /\ ctx[Len(ctx)] = path[Len(path)]
<1> DEFINE longer == Append(path, m)
           n == Len(path)
           kept == Kept(longer)
           ctx == ContextEntries(longer)
<1>1. /\ longer \in Seq(Entry) /\ Len(longer) = n + 1 /\ n \in Nat
      /\ \A i \in 1 .. n : longer[i] = path[i]
      /\ longer[n + 1] = m
  BY AppendProperties, LenProperties
<1> HIDE DEF longer
<1>2. LastCompaction(longer) = n + 1
  <2>1. /\ LastCompaction(longer) \in 0 .. n + 1
        /\ n + 1 <= LastCompaction(longer)
    BY <1>1, LastCompactionFound
  <2>2. QED
    BY <1>1, <2>1
<1>3. kept \in 1 .. n
  <2> DEFINE k == Find(longer, longer[n + 1].ref)
  <2>1. cut \in 1 .. n + 1 /\ longer[cut].id = longer[n + 1].ref /\ cut \in 1 .. n
    BY <1>1
  <2>2. k \in 1 .. cut
    BY <1>1, <2>1, FindFound
  <2>3. IF k \in 1 .. ((n + 1) - 1) THEN kept = (n + 1) - k ELSE kept = 0
    BY <1>1, <1>2, KeptFacts
  <2> HIDE DEF k, n, kept
  <2>4. QED
    BY <1>1, <2>1, <2>2, <2>3
<1>4. ContextLength(longer) = 1 + kept
  BY <1>1, <1>2, <1>3 DEF ContextLength
<1>5. /\ ctx \in Seq(Entry) /\ Len(ctx) = 1 + kept
      /\ \A i \in 1 .. 1 + kept : ctx[i] = longer[Source(longer, i)]
  BY <1>1, <1>4, ContextFacts
<1>6. Source(longer, 1) = n + 1 /\ Source(longer, 1 + kept) = n
  <2>1. \A i \in Nat :
          Source(longer, i) = IF i = 1 THEN n + 1
                              ELSE IF i <= kept + 1 THEN (n + 1) - kept + i - 2 ELSE (n + 1) + i - 1 - kept
    BY <1>1, <1>2 DEF Source
  <2> HIDE DEF n, kept
  <2>2. 1 + kept \in Nat /\ 1 + kept # 1 /\ 1 + kept <= kept + 1 /\ (n + 1) - kept + (1 + kept) - 2 = n
    BY <1>1, <1>3
  <2>3. QED
    BY <2>1, <2>2
<1> HIDE DEF n, kept, ctx
<1>7. n \in 1 .. n /\ 1 \in 1 .. 1 + kept /\ 1 + kept \in 1 .. 1 + kept /\ 1 + kept >= 2
  BY <1>1, <1>3
<1>8. ctx[1] = m /\ ctx[1 + kept] = path[n]
  BY <1>1, <1>5, <1>6, <1>7
<1>9. QED
  BY <1>5, <1>7, <1>8 DEF ctx, longer, n

\* What prepareCompaction keeps begins at an entry of the path where a cut is allowed.
CutAt(path, prep) ==
  \E cut \in 1 .. Len(path) : IsCutPoint(path[cut]) /\ path[cut].id = prep.firstKept

LEMMA PreparedFits ==
  ASSUME NEW path \in Seq(Entry), PrepareCompaction(path, KeepRecent, None) # None
  PROVE  /\ PrepareCompaction(path, KeepRecent, None) \in Preparation
         /\ CutAt(path, PrepareCompaction(path, KeepRecent, None))
<1> DEFINE n == Len(path)
           start == BoundaryStart(path)
           cut == FindCutPoint(path, start, KeepRecent)
           gone == Summarized(path, start, cut)
           c == LastCompaction(path)
           previous == IF c = 0 THEN {} ELSE path[c].covers
           prep == PrepareCompaction(path, KeepRecent, None)
<1>1. n \in Nat /\ \A i \in 1 .. n : path[i] \in Entry /\ path[i].id \in Nat /\ path[i].covers \subseteq Nat
                                      /\ Visible(path[i])
  BY ElementOfSeq, LenProperties DEF Entry, Visible, Metadata
<1>2. /\ ~(start > n) /\ gone # {}
      /\ prep = [firstKept |-> path[cut].id, covers |-> previous \cup {path[i].id : i \in gone}]
  BY DEF PrepareCompaction
<1>3. c \in 0 .. n
  BY LastCompactionFound
<1>4. start \in 1 .. n
  <2>1. Find(path, path[c].ref) \in 0 .. n
    BY FindFound
  <2>2. start \in Nat /\ start >= 1
    BY <1>1, <1>3, <2>1 DEF BoundaryStart
  <2>3. QED
    BY <1>1, <1>2, <2>2
<1>5. \E i \in start .. n : IsCutPoint(path[i])
  <2>1. SUFFICES ASSUME \A i \in start .. n : ~IsCutPoint(path[i]) PROVE FALSE
    OBVIOUS
  <2>2. cut = start
    BY <2>1 DEF FindCutPoint
  <2>3. \A i \in start .. start : ~IsTurnStart(path[i])
    BY <1>1, <1>4, <2>1 DEF IsTurnStart, IsCutPoint
  <2>4. HistoryEnd(path, start, start) = start
    BY <2>3 DEF HistoryEnd
  <2>5. start .. (start - 1) = {}
    BY <1>4
  <2>6. gone = {}
    BY <2>2, <2>4, <2>5 DEF Summarized
  <2>7. QED
    BY <1>2, <2>6
<1> DEFINE budget == CutByBudget(path, start, KeepRecent)
<1>6. budget \in start .. n /\ IsCutPoint(path[budget])
  <2> DEFINE Cuts == {i \in start .. n : IsCutPoint(path[i])}
             Weight(i) == Cardinality({j \in i .. n : Visible(path[j])})
             Full == {i \in start .. n : Visible(path[i]) /\ Weight(i) >= KeepRecent}
             Beyond == {x \in Cuts : Full # {} /\ x >= Max(Full)}
  <2>1. budget = IF Cuts = {} THEN start ELSE IF Beyond = {} THEN Min(Cuts) ELSE Min(Beyond)
    BY DEF CutByBudget
  <2> HIDE DEF Full
  <2>2. Cuts # {} /\ Cuts \in SUBSET Nat /\ Beyond \in SUBSET Nat /\ Beyond \subseteq Cuts
    BY <1>1, <1>4, <1>5
  <2>3. Min(Cuts) \in Cuts /\ (Beyond # {} => Min(Beyond) \in Beyond)
    BY <2>2, MinIsLeast
  <2>4. budget \in Cuts
    BY <2>1, <2>2, <2>3
  <2>5. QED
    BY <2>4
<1>7. cut = budget
  <2> DEFINE Near == {x \in start .. budget : \A j \in x .. (budget - 1) : ~Visible(path[j])}
  <2>1. cut = Min(Near)
    BY <1>5 DEF FindCutPoint
  <2>2. Near = {budget}
    <3> HIDE DEF budget, start, n
    <3>1. budget \in Near
      BY <1>4, <1>6
    <3>2. ASSUME NEW x \in Near PROVE x = budget
      <4>1. SUFFICES ASSUME x # budget PROVE FALSE
        OBVIOUS
      <4>2. x \in x .. (budget - 1) /\ x \in 1 .. n
        BY <1>1, <1>4, <1>6, <4>1
      <4>3. QED
        BY <1>1, <3>2, <4>2
    <3>3. QED
      BY <3>1, <3>2
  <2>3. Min({budget}) = budget
    <3> HIDE DEF budget, start, n
    <3>1. {budget} \in SUBSET Nat /\ {budget} # {}
      BY <1>1, <1>4, <1>6
    <3>2. QED
      BY <3>1, MinIsLeast
  <2>4. QED
    BY <2>1, <2>2, <2>3
<1> HIDE DEF cut, budget, prep, gone, start, n, previous, c
<1>8. cut \in 1 .. n /\ IsCutPoint(path[cut])
  BY <1>1, <1>4, <1>6, <1>7
<1>9. prep \in Preparation
  <2>1. previous \subseteq Nat
    BY <1>1, <1>3 DEF previous
  <2>2. gone \subseteq 1 .. n
    <3>1. HistoryEnd(path, start, cut) \in start .. cut
      <4> DEFINE Begins == {i \in start .. cut : IsTurnStart(path[i])}
      <4>1. HistoryEnd(path, start, cut) = IF Begins = {} THEN cut ELSE Max(Begins)
        BY DEF HistoryEnd
      <4>2. start <= cut /\ start \in Nat /\ cut \in Nat
        BY <1>1, <1>4, <1>6, <1>7
      <4>3. Begins \in SUBSET (0 .. cut)
        BY <4>2
      <4>4. Begins # {} => Max(Begins) \in Begins
        BY <4>2, <4>3, MaxIsGreatest
      <4>5. QED
        BY <4>1, <4>2, <4>4
    <3>2. gone \subseteq (start .. (HistoryEnd(path, start, cut) - 1)) \cup (HistoryEnd(path, start, cut) .. (cut - 1))
      BY DEF gone, Summarized
    <3>3. QED
      BY <1>1, <1>4, <1>8, <3>1, <3>2
  <2>3. {path[i].id : i \in gone} \subseteq Nat
    BY <1>1, <2>2
  <2>4. path[cut].id \in Nat
    BY <1>1, <1>8
  <2>5. QED
    BY <1>2, <2>1, <2>3, <2>4 DEF Preparation
<1>10. CutAt(path, prep)
  BY <1>2, <1>8 DEF CutAt, n
<1>11. QED
  BY <1>9, <1>10 DEF prep

-----------------------------------------------------------------------------
(* Types *)

LEMMA MessageTyped ==
  ASSUME NEW id \in Nat
  PROVE  /\ User(id) \in Entry /\ User(id).id = id /\ User(id).kind = "user" /\ User(id).stop = "none"
         /\ \A kind \in {"bash", "toolResult"} : \A ref \in Nat :
              LET m == [Message(id, kind, "none") EXCEPT !.ref = ref]
              IN  m \in Entry /\ m.id = id /\ m.kind = kind /\ m.stop = "none" /\ m.ref = ref
         /\ \A stop \in Stop :
              LET m == Message(id, "assistant", stop)
              IN  m \in Entry /\ m.id = id /\ m.kind = "assistant" /\ m.stop = stop
         /\ Message(id, "bash", "none") \in Entry /\ Message(id, "bash", "none").kind = "bash"
         /\ Message(id, "bash", "none").id = id /\ Message(id, "bash", "none").stop = "none"
<1>1. "none" \notin Stop
  BY DEF Stop
<1>2. QED
  BY <1>1 DEF User, Message, Entry

LEMMA EntryTyped ==
  ASSUME NEW m \in Entry
  PROVE  /\ m.id \in Nat /\ m.ref \in Nat /\ m.covers \in SUBSET Nat
         /\ m.kind \in {"user", "assistant", "toolResult", "bash", "compaction"}
         /\ m.stop \in Stop \cup {"none"} /\ (m.kind = "assistant" => m.stop \in Stop)
         /\ (m.kind # "assistant" => m.stop = "none")
  BY DEF Entry

LEMMA AddedTyped ==
  ASSUME TypeInv, NEW m \in Entry, Added(m)
  PROVE  context' \in Seq(Entry) /\ branch' \in Seq(Entry) /\ unheard' \subseteq Entry
<1>1. Append(context, m) \in Seq(Entry) /\ Append(branch, m) \in Seq(Entry)
  BY AppendProperties DEF TypeInv
<1>2. QED
  BY <1>1 DEF Added, TypeInv

LEMMA MessageAddedTyped ==
  ASSUME FlowInv, MessageAdded
  PROVE  TypeInv'
<1>1. Head(run.pending) \in Nat /\ Tail(run.pending) \in Seq(Nat)
  BY HeadTailProperties DEF MessageAdded, FlowInv, TypeInv, Runs
<1>2. User(Head(run.pending)) \in Entry
  BY <1>1, MessageTyped
<1>3. context' \in Seq(Entry) /\ branch' \in Seq(Entry) /\ unheard' \subseteq Entry
  BY <1>2, AddedTyped DEF MessageAdded, FlowInv
<1>4. run' \in Runs
  BY <1>1 DEF MessageAdded, FlowInv, TypeInv, Runs
<1>5. displayed' \subseteq Nat /\ overflowAttempted' \in BOOLEAN
  BY DEF MessageAdded, FlowInv, TypeInv, Delivered
<1>6. QED
  BY <1>3, <1>4, <1>5 DEF MessageAdded, FlowInv, TypeInv, calls, compaction, flow, ids

-----------------------------------------------------------------------------
(* The steps of a run *)

LEMMA AppendLast ==
  ASSUME NEW S, NEW s \in Seq(S), NEW m \in S
  PROVE  /\ Append(s, m) \in Seq(S) /\ Append(s, m) # <<>> /\ Last(Append(s, m)) = m
         /\ Len(Append(s, m)) = Len(s) + 1 /\ (s # <<>> => Len(Append(s, m)) >= 2)
<1>1. /\ Append(s, m) \in Seq(S) /\ Append(s, m) # <<>> /\ Len(Append(s, m)) = Len(s) + 1
      /\ Append(s, m)[Len(s) + 1] = m
  BY AppendProperties
<1>2. s # <<>> => Len(s) \in Nat \ {0}
  BY EmptySeq
<1>3. Len(s) \in Nat
  OBVIOUS
<1>4. QED
  BY <1>1, <1>2, <1>3 DEF Last

LEMMA MessageAddedFlow ==
  ASSUME FlowInv, MessageAdded
  PROVE  FlowInv'
<1> DEFINE m == User(Head(run.pending))
<1>1. TypeInv'
  BY MessageAddedTyped
<1>a. m \in Entry /\ m.kind = "user" /\ m.stop = "none"
  <2>1. Head(run.pending) \in Nat
    BY HeadTailProperties DEF MessageAdded, FlowInv, TypeInv, Runs
  <2>2. QED
    BY <2>1, MessageTyped
<1>b. context' = Append(context, m) /\ context' # <<>> /\ Last(context') = m
  <2>1. context \in Seq(Entry)
    BY DEF FlowInv, TypeInv
  <2>2. QED
    BY <1>a, <2>1, AppendLast DEF MessageAdded, Added
<1>2. OneAtWork' /\ AutoFits'
  BY DEF MessageAdded, FlowInv, Control, OneAtWork, AutoFits, AtWork, Compacting, calls
<1>3. ActiveFits'
  BY DEF MessageAdded, FlowInv, Control, ActiveFits, InRuns, Compacting, calls, flow
<1>4. RunFits'
  BY DEF MessageAdded, FlowInv, TypeInv, Runs, Control, RunFits, calls
<1>5. ManualFits'
  BY DEF MessageAdded, FlowInv, Control, ManualFits, AtWork, calls, compaction, flow
<1>6. Heard'
  BY DEF MessageAdded, FlowInv, TypeInv, Runs, Control, RunFits, Heard, outcome, flow, compaction
<1>7. ContextEnds'
  BY <1>a, <1>b DEF MessageAdded, FlowInv, TypeInv, Runs, Control, RunFits, ContextEnds, flow, log
<1>8. LastHeard'
  BY <1>a, <1>b DEF MessageAdded, FlowInv, TypeInv, Runs, Control, RunFits, LastHeard, log, outcome, compaction
<1>9. QED
  BY <1>1, <1>2, <1>3, <1>4, <1>5, <1>6, <1>7, <1>8 DEF FlowInv, Control

\* A step of the run leaves alone who is at work on what.
LEMMA ControlKept ==
  ASSUME FlowInv, UNCHANGED <<calls, compaction, flow, pendingBash>>
  PROVE  (OneAtWork /\ AutoFits /\ ActiveFits /\ ManualFits)'
<1>1. UNCHANGED <<prompt, auto, manual, manualPrep, connected, isAgentRunActive, waiting, pendingBash>>
  BY DEF calls, compaction, flow
<1>2. OneAtWork' /\ AutoFits' /\ ManualFits'
  BY <1>1 DEF FlowInv, Control, OneAtWork, AutoFits, ManualFits, AtWork, Compacting
<1>3. ActiveFits'
  BY <1>1 DEF FlowInv, Control, ActiveFits, InRuns, Compacting
<1>4. QED
  BY <1>2, <1>3

LEMMA RequestsFacts ==
  ASSUME run \in Runs, NEW messages \in Seq(Nat), Requests(messages)
  PROVE  /\ run' \in Runs /\ run'.phase = "request" /\ run'.pending = messages
         /\ run'.termination = run.termination
  BY DEF Requests, Runs, Phases

LEMMA EndsFacts ==
  ASSUME run \in Runs, NEW termination \in {"completed", "error", "aborted"}, Ends(termination)
  PROVE  /\ run' \in Runs /\ run'.phase = "end" /\ run'.pending = run.pending
         /\ run'.termination = termination
  BY DEF Ends, Runs, Phases

LEMMA QueueFacts ==
  ASSUME NEW q \in Seq(Nat), q # <<>>
  PROVE  /\ Head(q) \in Nat /\ Tail(q) \in Seq(Nat) /\ <<Head(q)>> \in Seq(Nat) /\ <<Head(q)>> # <<>>
         /\ Len(<<Head(q)>>) = 1 /\ <<Head(q)>>[1] = Head(q)
<1>1. Head(q) \in Nat /\ Tail(q) \in Seq(Nat)
  BY HeadTailProperties
<1>2. QED
  BY <1>1

\* While the agent runs, the session is at work.
LEMMA RunIsActive ==
  ASSUME FlowInv, run.phase # "none"
  PROVE  isAgentRunActive /\ \E p \in Prompts : prompt[p] = "running"
<1>1. PICK p \in Prompts : prompt[p] = "running"
  BY DEF FlowInv, Control, RunFits
<1>2. QED
  BY <1>1 DEF FlowInv, Control, ActiveFits, InRuns

LEMMA TurnBeginsFlow ==
  ASSUME FlowInv, TurnBegins
  PROVE  FlowInv'
<1>a. steering # <<>> => Head(steering) \in Nat /\ Tail(steering) \in Seq(Nat) /\ <<Head(steering)>> \in Seq(Nat)
                          /\ <<Head(steering)>> # <<>>
  BY QueueFacts DEF FlowInv, TypeInv
<1>0. run \in Runs /\ <<>> \in Seq(Nat) /\ steering \in Seq(Nat) /\ run.phase \in {"turn", "prompts"} /\ run.pending = <<>>
  BY EmptySeq DEF TurnBegins, FlowInv, TypeInv
<1>r. /\ run' \in Runs /\ steering' \in Seq(Nat)
      /\ \/ run'.phase = "request" /\ run'.termination = run.termination /\ run'.pending # <<>>
         \/ run'.phase = "request" /\ run'.termination = run.termination /\ run'.pending = <<>>
         \/ run'.phase = "end" /\ run'.termination = "aborted" /\ run'.pending = <<>>
  <2>1. CASE steering # <<>> /\ ~run.skip
    BY <1>a, <1>0, <2>1, RequestsFacts DEF TurnBegins, AfterFirst
  <2>2. CASE ~(steering # <<>> /\ ~run.skip) /\ run.aborted
    BY <1>0, <2>2, EndsFacts DEF TurnBegins
  <2>3. CASE ~(steering # <<>> /\ ~run.skip) /\ ~run.aborted
    BY <1>0, <2>3, RequestsFacts DEF TurnBegins
  <2>4. QED
    BY <2>1, <2>2, <2>3
<1>u. UNCHANGED <<log, followUp, displayed, cleared, outcome, calls, compaction, flow, pendingBash, ids, used, large>>
  BY DEF TurnBegins
<1>1. TypeInv'
  BY <1>r, <1>u DEF FlowInv, TypeInv, log, outcome, calls, compaction, flow, ids
<1>2. (OneAtWork /\ AutoFits /\ ActiveFits /\ ManualFits)'
  BY <1>u, ControlKept
<1>3. UNCHANGED <<context, prompt, connected, isAgentRunActive, lastAssistant, agentEndSeen>>
  BY <1>u DEF log, outcome, calls, compaction, flow
<1>4. run.phase # "none" /\ run'.phase # "none" /\ run.termination = "none"
  BY <1>0, <1>r DEF FlowInv, Control, RunFits
<1>5. RunFits'
  BY <1>r, <1>3, <1>4 DEF FlowInv, Control, RunFits
<1>6. Heard'
  BY <1>3, <1>4 DEF FlowInv, Heard
<1>7. context # <<>> /\ Last(context).kind # "assistant" /\ Last(context).stop = "none"
  <2>1. context # <<>> /\ Last(context).kind # "assistant"
    BY <1>0, <1>4, RunIsActive DEF FlowInv, ContextEnds
  <2>2. Last(context) \in Entry
    BY <2>1, FrontFacts DEF FlowInv, TypeInv
  <2>3. QED
    BY <2>1, <2>2, EntryTyped
<1>8. ContextEnds'
  BY <1>r, <1>3, <1>7 DEF ContextEnds, FailedStop
<1>9. LastHeard'
  BY <1>r, <1>3 DEF LastHeard
<1>10. QED
  BY <1>1, <1>2, <1>5, <1>6, <1>8, <1>9 DEF FlowInv, Control

LEMMA TurnEndsFlow ==
  ASSUME FlowInv, TurnEnds
  PROVE  FlowInv'
<1>a. /\ steering # <<>> => Head(steering) \in Nat /\ Tail(steering) \in Seq(Nat) /\ <<Head(steering)>> \in Seq(Nat)
                            /\ <<Head(steering)>> # <<>>
      /\ followUp # <<>> => Head(followUp) \in Nat /\ Tail(followUp) \in Seq(Nat) /\ <<Head(followUp)>> \in Seq(Nat)
                            /\ <<Head(followUp)>> # <<>>
  BY QueueFacts DEF FlowInv, TypeInv
<1>0. run \in Runs /\ steering \in Seq(Nat) /\ followUp \in Seq(Nat) /\ run.phase = "stopped" /\ run.pending = <<>>
  BY DEF TurnEnds, FlowInv, TypeInv, Control, RunFits
<1>r. /\ run' \in Runs /\ steering' \in Seq(Nat) /\ followUp' \in Seq(Nat)
      /\ \/ run'.phase = "request" /\ run'.termination = run.termination /\ run'.pending # <<>>
         \/ run'.phase = "end" /\ run'.termination \in {"aborted", "completed"} /\ run'.pending = <<>>
            /\ steering' = <<>> /\ followUp' = <<>>
  <2>1. CASE steering # <<>>
    BY <1>a, <1>0, <2>1, RequestsFacts DEF TurnEnds, AfterFirst
  <2>2. CASE steering = <<>> /\ followUp # <<>>
    BY <1>a, <1>0, <2>2, RequestsFacts DEF TurnEnds, AfterFirst
  <2>3. CASE steering = <<>> /\ followUp = <<>>
    <3> DEFINE t == IF run.aborted THEN "aborted" ELSE "completed"
    <3>1. t \in {"completed", "error", "aborted"} /\ Ends(t) /\ t # "error"
      BY <2>3 DEF TurnEnds
    <3> HIDE DEF t
    <3>2. QED
      BY <1>0, <2>3, <3>1, EndsFacts DEF TurnEnds
  <2>4. QED
    BY <2>1, <2>2, <2>3
<1>u. UNCHANGED <<log, displayed, cleared, outcome, calls, compaction, flow, pendingBash, ids, used, large>>
  BY DEF TurnEnds
<1>1. TypeInv'
  BY <1>r, <1>u DEF FlowInv, TypeInv, log, outcome, calls, compaction, flow, ids
<1>2. (OneAtWork /\ AutoFits /\ ActiveFits /\ ManualFits)'
  BY <1>u, ControlKept
<1>3. UNCHANGED <<context, prompt, connected, isAgentRunActive, lastAssistant, agentEndSeen>>
  BY <1>u DEF log, outcome, calls, compaction, flow
<1>4. run.phase # "none" /\ run'.phase # "none" /\ run.termination = "none"
  BY <1>0, <1>r DEF FlowInv, Control, RunFits
<1>5. RunFits'
  BY <1>r, <1>3, <1>4 DEF FlowInv, Control, RunFits
<1>6. Heard'
  BY <1>3, <1>4 DEF FlowInv, Heard
<1>7. context # <<>> /\ Last(context).stop \in {"stop", "length"} /\ Len(context) >= 2
  BY <1>0, <1>4, RunIsActive DEF FlowInv, ContextEnds
<1>8. ContextEnds'
  BY <1>r, <1>3, <1>7 DEF ContextEnds, FailedStop
<1>9. LastHeard'
  BY <1>0, <1>r, <1>3 DEF FlowInv, LastHeard
<1>10. QED
  BY <1>1, <1>2, <1>5, <1>6, <1>8, <1>9 DEF FlowInv, Control

LEMMA RespondsFlow ==
  ASSUME FlowInv, Responds
  PROVE  FlowInv'
<1>0. run \in Runs /\ run.phase = "request" /\ run.pending = <<>> /\ nextId \in Nat \ {0} /\ used \in Counters
  BY DEF Responds, FlowInv, TypeInv
<1>a. PICK stop \in (IF run.aborted THEN {"aborted"} ELSE bounds.stops) :
        LET m == Message(nextId, "assistant", stop)
        IN  /\ IF stop = "toolUse" THEN Uses("tools") ELSE UNCHANGED used
            /\ Added(m)
            /\ run' = AfterResponse(stop)
            /\ IF connected
               THEN /\ lastAssistant' = m
                    /\ overflowAttempted' = StillAttempted(m)
                    /\ retryAttempt' = IF Failed(m) THEN retryAttempt ELSE 0
               ELSE UNCHANGED <<lastAssistant, overflowAttempted, retryAttempt>>
  BY DEF Responds
<1> DEFINE m == Message(nextId, "assistant", stop)
<1>b. stop \in Stop
  BY <1>a, AgentSessionAssumption DEF FlowInv, TypeInv, Stop
<1>c. m \in Entry /\ m.id = nextId /\ m.kind = "assistant" /\ m.stop = stop
  BY <1>0, <1>b, MessageTyped
<1> HIDE DEF m
<1>d. /\ context' = Append(context, m) /\ context' # <<>> /\ Last(context') = m
      /\ context # <<>> /\ Len(context') >= 2
  <2>1. context \in Seq(Entry) /\ context # <<>>
    BY <1>0, RunIsActive DEF FlowInv, TypeInv, ContextEnds
  <2>2. QED
    BY <1>a, <1>c, <2>1, AppendLast DEF m, Added
<1>r. /\ run' \in Runs /\ run'.pending = <<>>
      /\ \/ run'.phase = "tool" /\ stop = "toolUse" /\ run'.termination = run.termination
         \/ run'.phase = "stopped" /\ stop \in {"stop", "length"} /\ run'.termination = run.termination
         \/ run'.phase = "end" /\ stop = "aborted" /\ run'.termination = "aborted"
         \/ run'.phase = "end" /\ stop \in FailedStop /\ run'.termination = "error"
  <2>1. CASE stop = "toolUse"
    BY <1>0, <1>a, <2>1 DEF AfterResponse, Runs, Phases
  <2>2. CASE stop \in {"stop", "length"}
    BY <1>0, <1>a, <2>2 DEF AfterResponse, Runs, Phases
  <2>3. CASE stop \in FailedStop \cup {"aborted"}
    BY <1>0, <1>a, <2>3 DEF AfterResponse, Runs, Phases, FailedStop
  <2>4. QED
    BY <1>b, <2>1, <2>2, <2>3 DEF Stop, FailedStop
<1>u. UNCHANGED <<queues, agentEndSeen, calls, compaction, flow, pendingBash, large, bounds>> /\ nextId' = nextId + 1
  BY DEF Responds, NewId
<1>e. retryAttempt' \in 0 .. MaxRetries /\ overflowAttempted' \in BOOLEAN
      /\ lastAssistant' \in {None} \cup {e \in Entry : e.kind = "assistant"}
  <2>1. overflowAttempted' \in BOOLEAN
    BY <1>a, <1>c DEF m, FlowInv, TypeInv, StillAttempted
  <2>2. lastAssistant' \in {None} \cup {e \in Entry : e.kind = "assistant"}
    BY <1>a, <1>c DEF m, FlowInv, TypeInv
  <2>3. retryAttempt' \in 0 .. MaxRetries
    BY <1>a, AgentSessionAssumption DEF FlowInv, TypeInv
  <2>4. QED
    BY <2>1, <2>2, <2>3
<1>f. used' \in Counters
  BY <1>0, <1>a DEF Uses, Counters
<1>g. context' \in Seq(Entry) /\ branch' \in Seq(Entry) /\ unheard' \subseteq Entry
  BY <1>a, <1>c, AddedTyped DEF m, FlowInv
<1>1. TypeInv'
  BY <1>0, <1>r, <1>u, <1>e, <1>f, <1>g DEF FlowInv, TypeInv, queues, calls, compaction, flow
<1>2. (OneAtWork /\ AutoFits /\ ActiveFits /\ ManualFits)'
  BY <1>u, ControlKept
<1>3. UNCHANGED <<prompt, connected, isAgentRunActive, agentEndSeen>>
  BY <1>u DEF calls, compaction, flow
<1>4. run.phase # "none" /\ run'.phase # "none" /\ run.termination = "none"
  BY <1>0, <1>r DEF FlowInv, Control, RunFits
<1>5. RunFits'
  BY <1>r, <1>3, <1>4 DEF FlowInv, Control, RunFits
<1>6. Heard'
  BY <1>a, <1>3, <1>4 DEF FlowInv, Heard
<1>8. ContextEnds'
  BY <1>c, <1>d, <1>r DEF ContextEnds, FailedStop
<1>9. LastHeard'
  BY <1>a, <1>d, <1>3 DEF LastHeard, m
<1>10. QED
  BY <1>1, <1>2, <1>5, <1>6, <1>8, <1>9 DEF FlowInv, Control

LEMMA ToolReturnsFlow ==
  ASSUME FlowInv, ToolReturns
  PROVE  FlowInv'
<1> DEFINE m == [Message(nextId, "toolResult", "none") EXCEPT !.ref = Last(context).id]
<1>0. run \in Runs /\ run.phase = "tool" /\ run.pending = <<>> /\ nextId \in Nat \ {0} /\ run.termination = "none"
  BY DEF ToolReturns, FlowInv, TypeInv, Control, RunFits
<1>b. context \in Seq(Entry) /\ context # <<>>
  BY <1>0, RunIsActive DEF FlowInv, TypeInv, ContextEnds
<1>c. m \in Entry /\ m.kind = "toolResult" /\ m.stop = "none"
  <2>1. Last(context).id \in Nat
    BY <1>b, FrontFacts, EntryTyped
  <2>2. QED
    BY <1>0, <2>1, MessageTyped
<1> HIDE DEF m
<1>d. context' = Append(context, m) /\ context' # <<>> /\ Last(context') = m
  BY <1>b, <1>c, AppendLast DEF ToolReturns, m, Added
<1>r. run' \in Runs /\ run'.pending = <<>> /\ run'.phase = "turn" /\ run'.termination = "none"
  BY <1>0 DEF ToolReturns, Runs, Phases
<1>u. UNCHANGED <<queues, outcome, calls, compaction, flow, pendingBash, used, large, bounds>> /\ nextId' = nextId + 1
  BY DEF ToolReturns, NewId
<1>g. context' \in Seq(Entry) /\ branch' \in Seq(Entry) /\ unheard' \subseteq Entry
  BY <1>c, AddedTyped DEF m, ToolReturns, FlowInv
<1>1. TypeInv'
  BY <1>0, <1>r, <1>u, <1>g DEF FlowInv, TypeInv, queues, outcome, calls, compaction, flow
<1>2. (OneAtWork /\ AutoFits /\ ActiveFits /\ ManualFits)'
  BY <1>u, ControlKept
<1>3. UNCHANGED <<prompt, connected, isAgentRunActive, agentEndSeen, lastAssistant>>
  BY <1>u DEF calls, compaction, flow, outcome
<1>5. RunFits'
  BY <1>0, <1>r, <1>3 DEF FlowInv, Control, RunFits
<1>6. Heard'
  BY <1>0, <1>r, <1>3 DEF FlowInv, Heard
<1>8. ContextEnds'
  BY <1>c, <1>d, <1>r DEF ContextEnds
<1>9. LastHeard'
  BY <1>r DEF LastHeard
<1>10. QED
  BY <1>1, <1>2, <1>5, <1>6, <1>8, <1>9 DEF FlowInv, Control

-----------------------------------------------------------------------------
(* What follows a run *)

\* What a run takes from the queues.
Taken ==
  \/ run'.pending = <<>> /\ UNCHANGED <<steering, followUp>>
  \/ steering # <<>> /\ run'.pending = <<Head(steering)>> /\ steering' = Tail(steering) /\ UNCHANGED followUp
  \/ followUp # <<>> /\ run'.pending = <<Head(followUp)>> /\ followUp' = Tail(followUp) /\ UNCHANGED steering

\* The call goes on with a run.
Starts(p, ctx, path) ==
  /\ run' \in Runs /\ run'.phase = "prompts" /\ run'.termination = "none" /\ Taken
  /\ ctx # <<>> /\ (run'.pending = <<>> => Last(ctx).kind # "assistant")
  /\ context' = ctx /\ branch' = path
  /\ agentEndSeen' = ~connected
  /\ At(p, "running")
  /\ UNCHANGED <<pendingBash, isAgentRunActive>>

\* The call comes to its end.
Stops(p, ctx, path) ==
  /\ Finish(p, ctx, path)
  /\ agentEndSeen' = TRUE
  /\ UNCHANGED <<steering, followUp>>
  /\ ctx = <<>> \/ ~HasQueuedMessages

LEMMA StartRunFacts ==
  ASSUME NEW messages \in Seq(Nat), NEW skip \in BOOLEAN, StartRun(messages, skip)
  PROVE  /\ run' \in Runs /\ run'.phase = "prompts" /\ run'.termination = "none" /\ run'.pending = messages
  BY NoRunIsRun DEF StartRun, NoRun, Runs, Phases

LEMMA ContinueOutcome ==
  ASSUME TypeInv, NEW p \in Prompts, NEW ctx \in Seq(Entry), NEW path \in Seq(Entry), Continue(p, ctx, path)
  PROVE  Starts(p, ctx, path) \/ Stops(p, ctx, path)
<1> DEFINE afterAssistant == ctx # <<>> /\ Last(ctx).kind = "assistant"
           S(messages, skip) ==
             /\ StartRun(messages, skip)
             /\ context' = ctx /\ branch' = path
             /\ agentEndSeen' = ~connected
             /\ At(p, "running")
             /\ UNCHANGED <<pendingBash, isAgentRunActive>>
<1>1. \/ /\ ctx # <<>> /\ ~afterAssistant
         /\ S(<<>>, FALSE)
         /\ UNCHANGED <<steering, followUp>>
      \/ /\ afterAssistant /\ steering # <<>>
         /\ S(<<Head(steering)>>, TRUE)
         /\ steering' = AfterFirst(steering) /\ UNCHANGED followUp
      \/ /\ afterAssistant /\ steering = <<>> /\ followUp # <<>>
         /\ S(<<Head(followUp)>>, FALSE)
         /\ followUp' = AfterFirst(followUp) /\ UNCHANGED steering
      \/ /\ ctx = <<>> \/ (afterAssistant /\ ~HasQueuedMessages)
         /\ Finish(p, ctx, path)
         /\ agentEndSeen' = TRUE
         /\ UNCHANGED <<steering, followUp>>
  BY DEF Continue
<1>2. CASE ctx # <<>> /\ ~afterAssistant /\ S(<<>>, FALSE) /\ UNCHANGED <<steering, followUp>>
  <2>1. <<>> \in Seq(Nat)
    BY EmptySeq
  <2>2. QED
    BY <1>2, <2>1, StartRunFacts DEF Starts, Taken
<1>3. CASE /\ afterAssistant /\ steering # <<>>
           /\ S(<<Head(steering)>>, TRUE)
           /\ steering' = AfterFirst(steering) /\ UNCHANGED followUp
  <2>1. <<Head(steering)>> \in Seq(Nat) /\ <<Head(steering)>> # <<>>
    BY <1>3, QueueFacts DEF TypeInv
  <2>2. /\ run' \in Runs /\ run'.phase = "prompts" /\ run'.termination = "none" /\ run'.pending = <<Head(steering)>>
    BY <1>3, <2>1, StartRunFacts
  <2>3. QED
    BY <1>3, <2>1, <2>2 DEF Starts, Taken, AfterFirst
<1>4. CASE /\ afterAssistant /\ steering = <<>> /\ followUp # <<>>
           /\ S(<<Head(followUp)>>, FALSE)
           /\ followUp' = AfterFirst(followUp) /\ UNCHANGED steering
  <2>1. <<Head(followUp)>> \in Seq(Nat) /\ <<Head(followUp)>> # <<>>
    BY <1>4, QueueFacts DEF TypeInv
  <2>2. /\ run' \in Runs /\ run'.phase = "prompts" /\ run'.termination = "none" /\ run'.pending = <<Head(followUp)>>
    BY <1>4, <2>1, StartRunFacts
  <2>3. QED
    BY <1>4, <2>1, <2>2 DEF Starts, Taken, AfterFirst
<1>5. CASE /\ ctx = <<>> \/ (afterAssistant /\ ~HasQueuedMessages)
           /\ Finish(p, ctx, path)
           /\ agentEndSeen' = TRUE
           /\ UNCHANGED <<steering, followUp>>
  BY <1>5 DEF Stops
<1>6. QED
  BY <1>1, <1>2, <1>3, <1>4, <1>5

LEMMA ContinueOrFinishOutcome ==
  ASSUME TypeInv, NEW p \in Prompts, NEW ctx \in Seq(Entry), NEW path \in Seq(Entry),
         ContinueOrFinish(p, ctx, path)
  PROVE  Starts(p, ctx, path) \/ Stops(p, ctx, path)
<1>1. CASE HasQueuedMessages
  BY <1>1, ContinueOutcome DEF ContinueOrFinish
<1>2. CASE ~HasQueuedMessages
  BY <1>2 DEF ContinueOrFinish, Stops
<1>3. QED
  BY <1>1, <1>2

\* What the steps of a call leave alone, and the types of what they may change.
Rest ==
  /\ UNCHANGED <<unheard, displayed, cleared, text, compaction, waiting, bounds, used>>
  /\ retryAttempt' \in 0 .. MaxRetries /\ overflowAttempted' \in BOOLEAN
  /\ large' \in Nat /\ nextId' \in Nat \ {0}

\* A call at work that takes its next step is the only one.
LEMMA MovesOn ==
  ASSUME TypeInv, OneAtWork, NEW p \in Prompts, AtWork(p), NEW step \in Steps, At(p, step)
  PROVE  /\ prompt' \in [Prompts -> Steps] /\ prompt'[p] = step
         /\ \A q \in Prompts : q # p => prompt[q] \in {"idle", "settling"} /\ prompt'[q] = prompt[q]
<1>1. prompt \in [Prompts -> Steps]
  BY DEF TypeInv
<1>2. prompt' \in [Prompts -> Steps] /\ prompt'[p] = step /\ \A q \in Prompts : q # p => prompt'[q] = prompt[q]
  BY <1>1 DEF At
<1>3. \A q \in Prompts : q # p => prompt[q] \in {"idle", "settling"}
  BY DEF OneAtWork, AtWork
<1>4. QED
  BY <1>2, <1>3

LEMMA StartsFlow ==
  ASSUME FlowInv, NEW p \in Prompts, InRuns(p), NEW ctx \in Seq(Entry), NEW path \in Seq(Entry),
         Starts(p, ctx, path), auto' = None, lastAssistant' = None, Rest
  PROVE  FlowInv'
<1>0. AtWork(p) /\ isAgentRunActive
  BY DEF FlowInv, Control, ActiveFits, InRuns, AtWork, Compacting
<1>m. /\ prompt' \in [Prompts -> Steps] /\ prompt'[p] = "running"
      /\ \A q \in Prompts : q # p => prompt[q] \in {"idle", "settling"} /\ prompt'[q] \in {"idle", "settling"}
  BY <1>0, MovesOn DEF Starts, FlowInv, Control, Steps
<1>r. run' \in Runs /\ run'.phase = "prompts" /\ run'.termination = "none" /\ Taken
  BY DEF Starts
<1>u. UNCHANGED <<pendingBash, isAgentRunActive, unheard, displayed, cleared, text, manual, manualPrep,
                  connected, waiting, bounds, used>>
  BY DEF Starts, Rest, compaction
<1>q. steering' \in Seq(Nat) /\ followUp' \in Seq(Nat)
  BY <1>r, QueueFacts DEF Taken, FlowInv, TypeInv
<1>1. TypeInv'
  BY <1>m, <1>r, <1>u, <1>q DEF FlowInv, TypeInv, Starts, Rest
<1>2. OneAtWork' /\ AutoFits'
  BY <1>m DEF OneAtWork, AutoFits, AtWork, Compacting
<1>3. ActiveFits'
  BY <1>0, <1>m, <1>u DEF ActiveFits, InRuns, Compacting
<1>4. RunFits'
  BY <1>m, <1>r DEF RunFits
<1>5. ManualFits'
  BY <1>0, <1>m, <1>u DEF FlowInv, Control, ManualFits
<1>6. Heard'
  BY <1>u DEF Heard, Starts
<1>7. ContextEnds'
  BY <1>r DEF ContextEnds, Starts
<1>8. LastHeard'
  BY <1>r DEF LastHeard
<1>9. QED
  BY <1>1, <1>2, <1>3, <1>4, <1>5, <1>6, <1>7, <1>8 DEF FlowInv, Control

LEMMA FinishFlow ==
  ASSUME FlowInv, NEW p \in Prompts, InRuns(p), NEW ctx \in Seq(Entry), NEW path \in Seq(Entry),
         Finish(p, ctx, path), agentEndSeen' \in BOOLEAN, UNCHANGED <<steering, followUp>>,
         auto' = None, lastAssistant' = None \/ (~agentEndSeen' /\ UNCHANGED lastAssistant), Rest
  PROVE  FlowInv'
<1>0. AtWork(p) /\ isAgentRunActive
  BY DEF FlowInv, Control, ActiveFits, InRuns, AtWork, Compacting
<1>m. /\ prompt' \in [Prompts -> Steps] /\ prompt'[p] = "settling"
      /\ \A q \in Prompts : q # p => prompt[q] \in {"idle", "settling"} /\ prompt'[q] \in {"idle", "settling"}
  BY <1>0, MovesOn DEF Finish, FlowInv, Control, Steps
<1>r. run' \in Runs /\ run'.phase = "none" /\ run'.termination = "none" /\ run'.pending = <<>>
  BY NoRunIsRun DEF Finish, NoRun
<1>u. UNCHANGED <<unheard, displayed, cleared, text, manual, manualPrep, connected, waiting, bounds, used>>
  BY DEF Rest, compaction
<1>q. context' \in Seq(Entry) /\ branch' \in Seq(Entry) /\ pendingBash' = <<>> /\ pendingBash' \in Seq(Entry)
  BY EmptySeq, ConcatProperties DEF Finish, FlushBash, SavedBash, FlowInv, TypeInv
<1>1. TypeInv'
  BY <1>m, <1>r, <1>u, <1>q DEF FlowInv, TypeInv, Finish, Rest
<1>2. OneAtWork' /\ AutoFits'
  BY <1>m DEF OneAtWork, AutoFits, AtWork, Compacting
<1>3. ActiveFits'
  BY <1>m, <1>q DEF ActiveFits, InRuns, Compacting, Finish
<1>4. RunFits'
  BY <1>m, <1>r DEF RunFits
<1>5. ManualFits'
  BY <1>0, <1>m, <1>u DEF FlowInv, Control, ManualFits
<1>6. Heard'
  BY <1>r DEF Heard, Finish
<1>7. ContextEnds'
  BY <1>r DEF ContextEnds, Finish
<1>8. LastHeard'
  BY <1>r DEF LastHeard
<1>9. QED
  BY <1>1, <1>2, <1>3, <1>4, <1>5, <1>6, <1>7, <1>8 DEF FlowInv, Control

\* The call waits between two runs, for a delay or an automatic compaction.
LEMMA PausesFlow ==
  ASSUME FlowInv, NEW p \in Prompts, InRuns(p), NEW ctx \in Seq(Entry), ctx # <<>>, context' = ctx,
         NEW step \in {"sleep", "authorizing"}, At(p, step), run' = NoRun,
         UNCHANGED <<branch, pendingBash, isAgentRunActive, steering, followUp>>,
         agentEndSeen' \in BOOLEAN, lastAssistant' = None, Rest,
         step = "sleep" => auto' = None,
         step = "authorizing" => auto' \in AutoCompaction /\ ~auto'.pre
  PROVE  FlowInv'
<1>0. AtWork(p) /\ isAgentRunActive
  BY DEF FlowInv, Control, ActiveFits, InRuns, AtWork, Compacting
<1>m. /\ prompt' \in [Prompts -> Steps] /\ prompt'[p] = step
      /\ \A q \in Prompts : q # p => prompt[q] \in {"idle", "settling"} /\ prompt'[q] \in {"idle", "settling"}
  BY <1>0, MovesOn DEF FlowInv, Control, Steps
<1>r. run' \in Runs /\ run'.phase = "none" /\ run'.termination = "none" /\ run'.pending = <<>>
  BY NoRunIsRun DEF NoRun
<1>u. UNCHANGED <<unheard, displayed, cleared, text, manual, manualPrep, connected, waiting, bounds, used>>
  BY DEF Rest, compaction
<1>a. auto' \in {None} \cup AutoCompaction /\ (step = "authorizing" => auto' # None /\ ~auto'.pre)
  BY NoneAssumption
<1>1. TypeInv'
  BY <1>m, <1>r, <1>u, <1>a DEF FlowInv, TypeInv, Rest
<1>2. OneAtWork' /\ AutoFits'
  BY <1>m, <1>a DEF OneAtWork, AutoFits, AtWork, Compacting
<1>3. ActiveFits'
  BY <1>0, <1>m, <1>a DEF ActiveFits, InRuns, Compacting
<1>4. RunFits'
  BY <1>m, <1>r DEF RunFits
<1>5. ManualFits'
  BY <1>0, <1>m, <1>u, <1>a DEF FlowInv, Control, ManualFits
<1>6. Heard'
  BY <1>r DEF Heard
<1>7. ContextEnds'
  BY <1>r DEF ContextEnds
<1>8. LastHeard'
  BY <1>r DEF LastHeard
<1>9. QED
  BY <1>1, <1>2, <1>3, <1>4, <1>5, <1>6, <1>7, <1>8 DEF FlowInv, Control

LEMMA WithoutFacts ==
  ASSUME NEW ctx \in Seq(Entry)
  PROVE  /\ WithoutLastAssistant(ctx) \in Seq(Entry) /\ RetryContext(ctx) \in Seq(Entry)
         /\ Len(ctx) >= 2 => WithoutLastAssistant(ctx) # <<>> /\ RetryContext(ctx) # <<>>
<1>1. ctx # <<>> => Front(ctx) \in Seq(Entry) /\ Len(Front(ctx)) = Len(ctx) - 1
  BY FrontFacts
<1>2. Len(ctx) \in Nat /\ Len(<<>>) = 0 /\ (ctx = <<>> => Len(ctx) = 0)
  BY EmptySeq
<1>3. Len(ctx) >= 2 => ctx # <<>> /\ Front(ctx) # <<>>
  BY <1>1, <1>2
<1>4. QED
  BY <1>1, <1>3 DEF WithoutLastAssistant, RetryContext

LEMMA CompactsFacts ==
  ASSUME FlowInv, NEW p \in Prompts, NEW verdict \in {"recover", "threshold"}, NEW pre \in BOOLEAN,
         NEW ctx \in Seq(Entry), Compacts(p, verdict, pre, ctx)
  PROVE  /\ auto' \in AutoCompaction /\ auto'.pre = pre /\ auto'.prep = None
         /\ auto'.willRetry = (verdict = "recover")
         /\ large' \in Nat /\ overflowAttempted' \in BOOLEAN /\ At(p, "authorizing")
         /\ context' = IF verdict = "threshold" THEN ctx ELSE WithoutLastAssistant(ctx)
<1>1. auto' = [pre |-> pre, willRetry |-> verdict = "recover", prep |-> None]
  BY DEF Compacts
<1>2. large \in Nat /\ overflowAttempted \in BOOLEAN
  BY DEF FlowInv, TypeInv
<1>3. auto' \in AutoCompaction /\ auto'.pre = pre /\ auto'.prep = None
  BY <1>1 DEF AutoCompaction
<1>4. auto'.willRetry = (verdict = "recover")
  BY <1>1, Zenon
<1>5. large' \in Nat /\ overflowAttempted' \in BOOLEAN
  <2>1. CASE verdict = "threshold"
    BY <1>2, <2>1 DEF Compacts
  <2>2. CASE verdict # "threshold"
    BY <1>2, <2>2 DEF Compacts
  <2>3. QED
    BY <2>1, <2>2
<1>6. At(p, "authorizing") /\ context' = IF verdict = "threshold" THEN ctx ELSE WithoutLastAssistant(ctx)
  BY DEF Compacts
<1>7. QED
  BY <1>3, <1>4, <1>5, <1>6

LEMMA Verdicts ==
  ASSUME NEW m, NEW skipAborted
  PROVE  CheckCompaction(m, skipAborted) \subseteq {"none", "recover", "threshold"}
  BY DEF CheckCompaction

\* A call in a run has no automatic compaction.
LEMMA NoAutoInRun ==
  ASSUME FlowInv, NEW p \in Prompts, AtWork(p), ~Compacting(p)
  PROVE  auto = None
<1>1. SUFFICES ASSUME NEW q \in Prompts, Compacting(q) PROVE FALSE
  BY DEF FlowInv, Control, AutoFits
<1>2. AtWork(q)
  BY <1>1 DEF AtWork, Compacting
<1>3. QED
  BY <1>1, <1>2 DEF FlowInv, Control, OneAtWork

\* How a run ends for the session: the prompt ends, waits to retry, goes on or compacts.
RunEndsCases(p) ==
  LET m == lastAssistant
      seen == agentEndSeen \/ connected
  IN  /\ prompt[p] = "running" /\ run.phase = "end"
      /\ lastAssistant' = IF seen THEN None ELSE m
      /\ \/ /\ ~seen \/ m = None \/ run.termination = "aborted"
            /\ Finish(p, context, branch)
            /\ agentEndSeen' = seen
            /\ UNCHANGED <<retryAttempt, overflowAttempted, auto, steering, followUp>>
         \/ /\ seen /\ m # None /\ run.termination # "aborted" /\ Len(context) >= 2
            /\ \/ /\ Retryable(m) /\ MayRetry
                  /\ retryAttempt' = retryAttempt + 1
                  /\ context' = WithoutLastAssistant(context)
                  /\ At(p, "sleep") /\ run' = NoRun /\ agentEndSeen' = seen
                  /\ UNCHANGED <<branch, overflowAttempted, auto, isAgentRunActive, pendingBash, steering, followUp>>
               \/ /\ ~(Retryable(m) /\ MayRetry)
                  /\ retryAttempt' = IF Failed(m) THEN 0 ELSE retryAttempt
                  /\ \/ /\ Starts(p, context, branch) \/ Stops(p, context, branch)
                        /\ UNCHANGED <<overflowAttempted, auto>>
                     \/ /\ At(p, "authorizing") /\ run' = NoRun /\ agentEndSeen' = seen
                        /\ context' \in {context, WithoutLastAssistant(context)}
                        /\ context' # context => Overflowed(m)
                        /\ auto' \in AutoCompaction /\ ~auto'.pre /\ auto'.prep = None
                        /\ IF auto'.willRetry THEN overflowAttempted' /\ Overflowed(m) /\ ~overflowAttempted
                           ELSE UNCHANGED <<overflowAttempted, context>>
                        /\ UNCHANGED <<branch, isAgentRunActive, pendingBash, steering, followUp>>

LEMMA RunEndsOutcome ==
  ASSUME FlowInv, NEW p \in Prompts, RunEnds(p)
  PROVE  /\ RunEndsCases(p) /\ Rest /\ InRuns(p) /\ auto = None
         /\ UNCHANGED <<nextId>>
<1> DEFINE m == lastAssistant
           seen == agentEndSeen \/ connected
<1>0. prompt[p] = "running" /\ run.phase = "end" /\ context \in Seq(Entry) /\ branch \in Seq(Entry) /\ TypeInv
  BY DEF RunEnds, FlowInv, TypeInv
<1>1. InRuns(p) /\ auto = None
  BY <1>0, NoAutoInRun DEF InRuns, AtWork, Compacting
<1>2. UNCHANGED <<unheard, displayed, cleared, text, compaction, waiting, ids, used>>
  BY DEF RunEnds
<1>3. lastAssistant' = IF seen THEN None ELSE m
  BY DEF RunEnds
<1>4. MaxRetries \in Nat /\ retryAttempt \in 0 .. MaxRetries /\ large \in Nat /\ nextId \in Nat \ {0} /\ overflowAttempted \in BOOLEAN
  BY AgentSessionAssumption DEF FlowInv, TypeInv
<1>5. CASE /\ ~seen \/ m = None \/ run.termination = "aborted"
           /\ Finish(p, context, branch)
           /\ agentEndSeen' = seen
           /\ UNCHANGED <<retryAttempt, overflowAttempted, auto, steering, followUp, large>>
  <2>1. Rest
    BY <1>2, <1>4, <1>5 DEF Rest, ids
  <2>2. RunEndsCases(p)
    BY <1>0, <1>3, <1>5 DEF RunEndsCases
  <2>3. QED
    BY <1>1, <1>2, <2>1, <2>2 DEF ids
<1>6. ASSUME seen, m # None, run.termination # "aborted"
      PROVE  Len(context) >= 2 /\ run.termination \in {"completed", "error"}
  BY <1>0, <1>6 DEF FlowInv, TypeInv, Runs, ContextEnds, Control, RunFits
<1>7. CASE /\ seen /\ m # None /\ run.termination # "aborted"
           /\ Retryable(m) /\ MayRetry
           /\ retryAttempt' = retryAttempt + 1
           /\ context' = WithoutLastAssistant(context)
           /\ At(p, "sleep") /\ run' = NoRun /\ agentEndSeen' = seen
           /\ UNCHANGED <<branch, overflowAttempted, auto, flow, pendingBash, steering, followUp, large>>
  <2>1. retryAttempt' \in 0 .. MaxRetries
    <3>1. MayRetry /\ retryAttempt' = retryAttempt + 1
      BY <1>7
    <3>2. QED
      BY <1>4, <3>1 DEF MayRetry
  <2>2. Rest
    BY <1>2, <1>4, <1>7, <2>1 DEF Rest, ids
  <2>3. RunEndsCases(p)
    BY <1>0, <1>3, <1>6, <1>7 DEF RunEndsCases, flow
  <2>4. QED
    BY <1>1, <1>2, <2>2, <2>3 DEF ids
<1>8. CASE /\ seen /\ m # None /\ run.termination # "aborted"
           /\ ~(Retryable(m) /\ MayRetry)
           /\ retryAttempt' = IF Failed(m) THEN 0 ELSE retryAttempt
           /\ ContinueOrFinish(p, context, branch)
           /\ UNCHANGED <<overflowAttempted, auto, large>>
  <2>1. Starts(p, context, branch) \/ Stops(p, context, branch)
    BY <1>0, <1>8, ContinueOrFinishOutcome
  <2>2. Rest
    BY <1>2, <1>4, <1>8 DEF Rest, ids
  <2>3. RunEndsCases(p)
    BY <1>0, <1>3, <1>6, <1>8, <2>1 DEF RunEndsCases
  <2>4. QED
    BY <1>1, <1>2, <2>2, <2>3 DEF ids
<1>9. ASSUME seen, m # None, run.termination # "aborted",
             ~(Retryable(m) /\ MayRetry),
             retryAttempt' = IF Failed(m) THEN 0 ELSE retryAttempt,
             NEW verdict \in CheckCompaction(m, TRUE), verdict # "none",
             Compacts(p, verdict, FALSE, context),
             run' = NoRun, agentEndSeen' = seen,
             UNCHANGED <<branch, flow, pendingBash, steering, followUp>>
      PROVE  RunEndsCases(p) /\ Rest /\ InRuns(p) /\ auto = None /\ UNCHANGED <<nextId>>
  <2>1. verdict \in {"recover", "threshold"}
    BY <1>9, Verdicts
  <2>2. /\ auto' \in AutoCompaction /\ auto'.pre = FALSE /\ auto'.prep = None
        /\ auto'.willRetry = (verdict = "recover")
        /\ large' \in Nat /\ overflowAttempted' \in BOOLEAN /\ At(p, "authorizing")
        /\ context' = IF verdict = "threshold" THEN context ELSE WithoutLastAssistant(context)
    BY <1>0, <1>9, <2>1, CompactsFacts
  <2>3. verdict = "recover" => Overflowed(m) /\ ~overflowAttempted
    BY <1>9 DEF CheckCompaction
  <2>4. IF verdict = "recover" THEN overflowAttempted' = TRUE ELSE UNCHANGED overflowAttempted
    BY <1>9, <2>1 DEF Compacts
  <2>5. Rest
    BY <1>2, <1>4, <1>9, <2>2 DEF Rest, ids
  <2>6. Len(context) >= 2
    BY <1>6, <1>9
  <2>7. RunEndsCases(p)
    BY <1>0, <1>3, <1>9, <2>1, <2>2, <2>3, <2>4, <2>6 DEF RunEndsCases, flow
  <2>8. QED
    BY <1>1, <1>2, <2>5, <2>7 DEF ids
<1>10. QED
  BY <1>5, <1>7, <1>8, <1>9 DEF RunEnds

LEMMA RunEndsFlow ==
  ASSUME FlowInv, NEW p \in Prompts, RunEnds(p)
  PROVE  FlowInv'
<1> DEFINE m == lastAssistant
           seen == agentEndSeen \/ connected
<1>1. RunEndsCases(p) /\ Rest /\ InRuns(p) /\ auto = None
  BY RunEndsOutcome
<1>2. context \in Seq(Entry) /\ branch \in Seq(Entry) /\ WithoutLastAssistant(context) \in Seq(Entry)
      /\ (Len(context) >= 2 => context # <<>> /\ WithoutLastAssistant(context) # <<>>) /\ seen \in BOOLEAN
  <2>1. context \in Seq(Entry) /\ branch \in Seq(Entry) /\ seen \in BOOLEAN
    BY DEF FlowInv, TypeInv
  <2>2. Len(context) >= 2 => context # <<>>
    BY EmptySeq
  <2>3. QED
    BY <2>1, <2>2, WithoutFacts
<1>3. lastAssistant' = IF seen THEN None ELSE m
  BY <1>1 DEF RunEndsCases
<1>4. CASE Finish(p, context, branch) /\ agentEndSeen' = seen /\ UNCHANGED <<auto, steering, followUp>>
  BY <1>1, <1>2, <1>3, <1>4, FinishFlow
<1>5. CASE /\ seen /\ Len(context) >= 2
           /\ context' = WithoutLastAssistant(context)
           /\ At(p, "sleep") /\ run' = NoRun /\ agentEndSeen' = seen
           /\ UNCHANGED <<branch, overflowAttempted, auto, isAgentRunActive, pendingBash, steering, followUp>>
  BY <1>1, <1>2, <1>3, <1>5, PausesFlow
<1>6. CASE seen /\ Starts(p, context, branch) /\ UNCHANGED auto
  BY <1>1, <1>2, <1>3, <1>6, StartsFlow
<1>7. CASE seen /\ Stops(p, context, branch) /\ UNCHANGED auto
  BY <1>1, <1>2, <1>3, <1>7, FinishFlow DEF Stops
<1>8. CASE /\ seen /\ Len(context) >= 2
           /\ At(p, "authorizing") /\ run' = NoRun /\ agentEndSeen' = seen
           /\ context' \in {context, WithoutLastAssistant(context)}
           /\ auto' \in AutoCompaction /\ ~auto'.pre /\ auto'.prep = None
           /\ UNCHANGED <<branch, isAgentRunActive, pendingBash, steering, followUp>>
  BY <1>1, <1>2, <1>3, <1>8, PausesFlow
<1>9. QED
  BY <1>1, <1>4, <1>5, <1>6, <1>7, <1>8 DEF RunEndsCases

\* A call that is at work on runs, but not in one, has dealt with the last one.
LEMMA BetweenRuns ==
  ASSUME FlowInv, NEW p \in Prompts, AtWork(p), prompt[p] # "running"
  PROVE  run.phase = "none" /\ (isAgentRunActive => lastAssistant = None)
<1>1. run.phase = "none"
  <2>1. SUFFICES ASSUME NEW q \in Prompts, prompt[q] = "running" PROVE FALSE
    BY RunIsActive
  <2>2. AtWork(q)
    BY <2>1 DEF AtWork
  <2>3. QED
    BY <2>1, <2>2 DEF FlowInv, Control, OneAtWork
<1>2. QED
  BY <1>1 DEF FlowInv, Heard

LEMMA RestHolds ==
  ASSUME FlowInv, UNCHANGED <<unheard, displayed, cleared, text, compaction, waiting, bounds, used>>,
         retryAttempt' \in {0, retryAttempt}, overflowAttempted' \in BOOLEAN, large' \in Nat, nextId' \in Nat \ {0}
  PROVE  Rest
  BY AgentSessionAssumption DEF FlowInv, TypeInv, Rest

LEMMA RetryBeginsOutcome ==
  ASSUME FlowInv, NEW p \in Prompts, RetryBegins(p)
  PROVE  /\ prompt[p] = "sleep" /\ (Starts(p, context, branch) \/ Stops(p, context, branch))
         /\ InRuns(p) /\ Rest /\ auto = None /\ auto' = None /\ lastAssistant' = None
         /\ context # <<>> /\ run.phase = "none"
         /\ UNCHANGED <<retryAttempt, overflowAttempted, nextId>>
<1>1. prompt[p] = "sleep" /\ InRuns(p) /\ AtWork(p) /\ ~Compacting(p)
  BY DEF RetryBegins, InRuns, AtWork, Compacting
<1>2. auto = None /\ isAgentRunActive /\ run.phase = "none" /\ lastAssistant = None
  BY <1>1, NoAutoInRun, BetweenRuns DEF FlowInv, Control, ActiveFits
<1>3. UNCHANGED <<unheard, displayed, cleared, lastAssistant, retryAttempt, overflowAttempted,
                  text, auto, compaction, waiting, bounds, nextId, used, large>>
  BY DEF RetryBegins, ids
<1>4. Starts(p, context, branch) \/ Stops(p, context, branch)
  BY ContinueOutcome DEF RetryBegins, FlowInv, TypeInv
<1>5. Rest
  BY <1>3, RestHolds DEF FlowInv, TypeInv
<1>6. context # <<>>
  BY <1>2 DEF FlowInv, ContextEnds
<1>7. QED
  BY <1>1, <1>2, <1>3, <1>4, <1>5, <1>6

LEMMA RetryBeginsFlow ==
  ASSUME FlowInv, NEW p \in Prompts, RetryBegins(p)
  PROVE  FlowInv'
<1>1. /\ Starts(p, context, branch) \/ Stops(p, context, branch)
      /\ InRuns(p) /\ Rest /\ auto' = None /\ lastAssistant' = None
      /\ context \in Seq(Entry) /\ branch \in Seq(Entry)
  BY RetryBeginsOutcome DEF FlowInv, TypeInv
<1>2. CASE Starts(p, context, branch)
  BY <1>1, <1>2, StartsFlow
<1>3. CASE Stops(p, context, branch)
  BY <1>1, <1>3, FinishFlow DEF Stops
<1>4. QED
  BY <1>1, <1>2, <1>3

LEMMA RetryCancelledOutcome ==
  ASSUME FlowInv, NEW p \in Prompts, RetryCancelled(p)
  PROVE  /\ prompt[p] = "cancelled" /\ retryAttempt' = 0
         /\ \/ /\ Starts(p, context, branch) \/ Stops(p, context, branch)
               /\ auto' = None
            \/ /\ At(p, "authorizing") /\ UNCHANGED <<context, branch, run, agentEndSeen, isAgentRunActive,
                                                     pendingBash, steering, followUp>>
               /\ auto' \in AutoCompaction /\ ~auto'.pre /\ auto'.prep = None /\ ~auto'.willRetry
         /\ InRuns(p) /\ Rest /\ auto = None /\ lastAssistant' = None /\ run.phase = "none"
         /\ context # <<>>
         /\ UNCHANGED <<overflowAttempted, nextId>>
<1>1. prompt[p] = "cancelled" /\ InRuns(p) /\ AtWork(p) /\ ~Compacting(p)
  BY DEF RetryCancelled, InRuns, AtWork, Compacting
<1>2. auto = None /\ isAgentRunActive /\ run.phase = "none" /\ lastAssistant = None
  BY <1>1, NoAutoInRun, BetweenRuns DEF FlowInv, Control, ActiveFits
<1>3. UNCHANGED <<unheard, displayed, cleared, lastAssistant, text, compaction, waiting, bounds, nextId, used>>
      /\ retryAttempt' = 0
  BY DEF RetryCancelled, ids
<1>4. context # <<>> /\ context \in Seq(Entry) /\ branch \in Seq(Entry) /\ nextId \in Nat \ {0}
      /\ large \in Nat /\ overflowAttempted \in BOOLEAN
  BY <1>2 DEF FlowInv, ContextEnds, TypeInv
<1>5. CASE ContinueOrFinish(p, context, branch) /\ UNCHANGED <<overflowAttempted, auto, large>>
  <2>1. Starts(p, context, branch) \/ Stops(p, context, branch)
    BY <1>4, <1>5, ContinueOrFinishOutcome DEF FlowInv
  <2>2. Rest
    BY <1>3, <1>4, <1>5, RestHolds
  <2>3. QED
    BY <1>1, <1>2, <1>3, <1>4, <1>5, <2>1, <2>2
<1>6. CASE /\ Compacts(p, "threshold", FALSE, context)
           /\ UNCHANGED <<branch, run, agentEndSeen, isAgentRunActive, pendingBash, steering, followUp>>
  <2>1. /\ auto' \in AutoCompaction /\ auto'.pre = FALSE /\ auto'.prep = None
        /\ auto'.willRetry = ("threshold" = "recover")
        /\ large' \in Nat /\ overflowAttempted' \in BOOLEAN /\ At(p, "authorizing")
        /\ context' = context
    BY <1>4, <1>6, CompactsFacts
  <2>2. UNCHANGED overflowAttempted
    BY <1>6 DEF Compacts
  <2>3. Rest
    BY <1>3, <1>4, <2>1, RestHolds
  <2>4. QED
    BY <1>1, <1>2, <1>3, <1>4, <1>6, <2>1, <2>2, <2>3
<1>7. QED
  BY <1>5, <1>6 DEF RetryCancelled

LEMMA RetryCancelledFlow ==
  ASSUME FlowInv, NEW p \in Prompts, RetryCancelled(p)
  PROVE  FlowInv'
<1>1. /\ InRuns(p) /\ Rest /\ auto = None /\ lastAssistant' = None /\ context # <<>>
      /\ context \in Seq(Entry) /\ branch \in Seq(Entry) /\ agentEndSeen \in BOOLEAN /\ run.phase = "none"
  BY RetryCancelledOutcome DEF FlowInv, TypeInv
<1>2. CASE Starts(p, context, branch) /\ auto' = None
  BY <1>1, <1>2, StartsFlow
<1>3. CASE Stops(p, context, branch) /\ auto' = None
  BY <1>1, <1>3, FinishFlow DEF Stops
<1>4. CASE /\ At(p, "authorizing") /\ UNCHANGED <<context, branch, run, agentEndSeen, isAgentRunActive,
                                                 pendingBash, steering, followUp>>
           /\ auto' \in AutoCompaction /\ ~auto'.pre /\ auto'.prep = None /\ ~auto'.willRetry
  <2>0. AtWork(p) /\ isAgentRunActive
    BY <1>1 DEF FlowInv, Control, ActiveFits, InRuns, AtWork, Compacting
  <2>m. /\ prompt' \in [Prompts -> Steps] /\ prompt'[p] = "authorizing"
        /\ \A q \in Prompts : q # p => prompt[q] \in {"idle", "settling"} /\ prompt'[q] \in {"idle", "settling"}
    BY <1>4, <2>0, MovesOn DEF FlowInv, Control, Steps
  <2>u. UNCHANGED <<unheard, displayed, cleared, text, manual, manualPrep, connected, waiting, bounds, used>>
    BY <1>1 DEF Rest, compaction
  <2>a. auto' \in {None} \cup AutoCompaction /\ auto' # None
    BY <1>4, NoneAssumption
  <2>1. TypeInv'
    BY <1>1, <1>4, <2>m, <2>u, <2>a DEF FlowInv, TypeInv, Rest
  <2>2. OneAtWork' /\ AutoFits'
    BY <2>m, <2>a DEF OneAtWork, AutoFits, AtWork, Compacting
  <2>3. ActiveFits'
    BY <1>4, <2>0, <2>m DEF ActiveFits, InRuns, Compacting
  <2>4. RunFits'
    BY <1>1, <1>4, <2>m DEF RunFits, FlowInv, Control
  <2>5. ManualFits'
    BY <1>4, <2>0, <2>m, <2>u DEF FlowInv, Control, ManualFits
  <2>6. Heard'
    BY <1>1, <1>4 DEF Heard
  <2>7. ContextEnds'
    BY <1>1, <1>4 DEF ContextEnds
  <2>8. LastHeard'
    BY <1>1, <1>4 DEF LastHeard
  <2>9. QED
    BY <2>1, <2>2, <2>3, <2>4, <2>5, <2>6, <2>7, <2>8 DEF FlowInv, Control
<1>5. QED
  BY <1>2, <1>3, <1>4, RetryCancelledOutcome

\* A call that checks whether to compact, before its message is sent.
LEMMA BeforeRunFlow ==
  ASSUME FlowInv, NEW p \in Prompts, manual = "idle", ~isAgentRunActive,
         \A q \in Prompts : q # p => ~AtWork(q),
         NEW step \in {"preflight", "authorizing", "summarizing"}, At(p, step),
         IF step = "preflight" THEN auto' = None
         ELSE auto' \in AutoCompaction /\ auto'.pre /\ (step = "summarizing" => auto'.prep # None),
         UNCHANGED <<run, lastAssistant, agentEndSeen, isAgentRunActive, steering, followUp,
                     unheard, displayed, cleared, compaction, waiting, bounds>>,
         context' \in Seq(Entry), branch' \in Seq(Entry), pendingBash' = <<>>,
         text' \in [Prompts -> Nat], retryAttempt' \in 0 .. MaxRetries, overflowAttempted' \in BOOLEAN,
         large' \in Nat, nextId' \in Nat \ {0}, used' \in Counters
  PROVE  FlowInv'
<1>0. run.phase = "none"
  BY RunIsActive
<1>m. /\ prompt' \in [Prompts -> Steps] /\ prompt'[p] = step
      /\ \A q \in Prompts : q # p => prompt'[q] \in {"idle", "settling"}
  <2>1. prompt \in [Prompts -> Steps] /\ step \in Steps
    BY DEF FlowInv, TypeInv, Steps
  <2>2. QED
    BY <2>1 DEF At, AtWork
<1>a. auto' \in {None} \cup AutoCompaction /\ (step # "preflight" => auto' # None /\ auto'.pre)
      /\ (step = "preflight" => auto' = None)
  BY NoneAssumption
<1>u. UNCHANGED <<manual, manualPrep, connected>> /\ pendingBash' \in Seq(Entry)
  BY EmptySeq DEF compaction
<1>1. TypeInv'
  BY <1>m, <1>u, <1>a DEF FlowInv, TypeInv
<1>2. OneAtWork' /\ AutoFits'
  BY <1>m, <1>a DEF OneAtWork, AutoFits, AtWork, Compacting
<1>3. ActiveFits'
  BY <1>m, <1>a DEF ActiveFits, InRuns, Compacting
<1>4. RunFits'
  BY <1>0, <1>m DEF RunFits, FlowInv, Control
<1>5. ManualFits'
  BY <1>m, <1>u DEF FlowInv, Control, ManualFits
<1>6. Heard'
  BY <1>0, <1>u DEF Heard, FlowInv
<1>7. ContextEnds'
  BY <1>0 DEF ContextEnds
<1>8. LastHeard'
  BY <1>0 DEF LastHeard
<1>9. QED
  BY <1>1, <1>2, <1>3, <1>4, <1>5, <1>6, <1>7, <1>8 DEF FlowInv, Control

LEMMA SettlesFlow ==
  ASSUME FlowInv, NEW p \in Prompts, Settles(p)
  PROVE  FlowInv'
<1>u. /\ UNCHANGED <<context, branch, unheard, run, steering, followUp, displayed, cleared, lastAssistant,
                     agentEndSeen, retryAttempt, overflowAttempted, text, auto, manualPrep, connected,
                     isAgentRunActive, pendingBash, nextId, bounds, used, large>>
      /\ prompt[p] = "settling" /\ At(p, "idle")
      /\ waiting' = waiting \ Released
      /\ manual' = IF "compact" \in Released THEN "authorizing" ELSE manual
  BY DEF Settles, log, queues, outcome, ids
<1>m. /\ prompt' \in [Prompts -> Steps] /\ prompt'[p] = "idle"
      /\ \A q \in Prompts : q # p => prompt'[q] = prompt[q]
  <2>1. prompt \in [Prompts -> Steps]
    BY DEF FlowInv, TypeInv
  <2>2. QED
    BY <1>u, <2>1 DEF At, Steps
<1>1. TypeInv'
  BY <1>m, <1>u DEF FlowInv, TypeInv
<1>2. OneAtWork' /\ AutoFits'
  BY <1>m, <1>u DEF FlowInv, Control, OneAtWork, AutoFits, AtWork, Compacting
<1>3. ActiveFits'
  BY <1>m, <1>u DEF FlowInv, Control, ActiveFits, InRuns, Compacting
<1>4. RunFits'
  BY <1>m, <1>u DEF RunFits, FlowInv, Control
<1>5. ManualFits'
  <2>1. CASE "compact" \in Released
    <3>1. ~isAgentRunActive /\ manual = "waiting" /\ ~connected
      BY <2>1 DEF Released, FlowInv, Control, ManualFits
    <3>2. ASSUME NEW q \in Prompts PROVE ~AtWork(q)
      <4>1. ~InRuns(q) /\ prompt[q] # "preflight" /\ prompt[q] \in Steps
        BY <3>1 DEF FlowInv, Control, ActiveFits, ManualFits, TypeInv
      <4>2. Compacting(q) => ~auto.pre
        BY <3>1 DEF FlowInv, Control, AutoFits, ManualFits
      <4>3. QED
        BY <4>1, <4>2 DEF AtWork, InRuns, Compacting, Steps
    <3>3. \A q \in Prompts : ~AtWork(q)'
      BY <1>m, <3>2 DEF AtWork
    <3>4. QED
      BY <1>u, <2>1, <3>1, <3>3 DEF ManualFits
  <2>2. CASE "compact" \notin Released
    BY <1>m, <1>u, <2>2 DEF ManualFits, FlowInv, Control, AtWork
  <2>3. QED
    BY <2>1, <2>2
<1>6. Heard'
  BY <1>u DEF Heard, FlowInv
<1>7. ContextEnds'
  BY <1>u DEF ContextEnds, FlowInv
<1>8. LastHeard'
  BY <1>u DEF LastHeard, FlowInv
<1>9. QED
  BY <1>1, <1>2, <1>3, <1>4, <1>5, <1>6, <1>7, <1>8 DEF FlowInv, Control

LEMMA CompactionPreparedFlow ==
  ASSUME FlowInv, NEW p \in Prompts, CompactionPrepared(p)
  PROVE  FlowInv'
<1> DEFINE prep == PrepareCompaction(branch, KeepRecent, None)
<1>0. prep \in Preparation /\ prompt[p] = "authorizing" /\ auto \in AutoCompaction /\ prep # None
  <2>1. branch \in Seq(Entry) /\ prep # None /\ prompt[p] = "authorizing"
    BY DEF CompactionPrepared, FlowInv, TypeInv
  <2>2. auto \in AutoCompaction
    BY <2>1 DEF FlowInv, TypeInv, Control, AutoFits, Compacting
  <2>3. QED
    BY <2>1, <2>2, PreparedFits
<1> HIDE DEF prep
<1>u. /\ UNCHANGED <<context, branch, unheard, run, steering, followUp, displayed, cleared, lastAssistant,
                     agentEndSeen, retryAttempt, overflowAttempted, text, manual, manualPrep, connected,
                     isAgentRunActive, waiting, pendingBash, nextId, bounds, used, large>>
      /\ At(p, "summarizing")
      /\ auto' = [auto EXCEPT !.prep = prep]
  BY DEF CompactionPrepared, log, queues, outcome, ids, compaction, flow, prep
<1>a. auto' \in AutoCompaction /\ auto' # None /\ auto'.prep # None /\ auto'.prep = prep
      /\ auto'.pre = auto.pre /\ auto'.willRetry = auto.willRetry
  <2>1. auto' \in AutoCompaction /\ auto'.prep = prep /\ auto'.pre = auto.pre /\ auto'.willRetry = auto.willRetry
    BY <1>0, <1>u DEF AutoCompaction
  <2>2. QED
    BY <1>0, <2>1, NoneAssumption
<1>m. /\ prompt' \in [Prompts -> Steps] /\ prompt'[p] = "summarizing" /\ AtWork(p)
      /\ \A q \in Prompts : q # p => prompt[q] \in {"idle", "settling"} /\ prompt'[q] = prompt[q]
  <2>1. AtWork(p)
    BY <1>0 DEF AtWork
  <2>2. QED
    BY <1>u, <2>1, MovesOn DEF FlowInv, Control, Steps
<1>1. TypeInv'
  BY <1>m, <1>u, <1>a DEF FlowInv, TypeInv
<1>2. OneAtWork' /\ AutoFits'
  BY <1>m, <1>a DEF OneAtWork, AutoFits, AtWork, Compacting
<1>3. ActiveFits'
  <2>1. InRuns(p)' <=> InRuns(p)
    BY <1>0, <1>m, <1>a DEF InRuns, Compacting
  <2>2. \A q \in Prompts : q # p => ~InRuns(q) /\ ~InRuns(q)'
    BY <1>m DEF InRuns, Compacting
  <2>3. QED
    BY <1>u, <2>1, <2>2 DEF FlowInv, Control, ActiveFits
<1>4. RunFits'
  <2>1. run.phase = "none"
    BY <1>0, <1>m, BetweenRuns
  <2>2. QED
    BY <1>u, <1>m, <2>1 DEF RunFits, FlowInv, Control
<1>5. ManualFits'
  <2>1. manual \notin {"authorizing", "summarizing"} /\ (manual = "waiting" => ~auto.pre)
    BY <1>0, <1>m, NoneAssumption DEF FlowInv, Control, ManualFits
  <2>2. QED
    BY <1>u, <1>m, <1>a, <2>1 DEF FlowInv, Control, ManualFits
<1>6. Heard'
  BY <1>u DEF Heard, FlowInv
<1>7. ContextEnds'
  BY <1>u DEF ContextEnds, FlowInv
<1>8. LastHeard'
  BY <1>u DEF LastHeard, FlowInv
<1>9. QED
  BY <1>1, <1>2, <1>3, <1>4, <1>5, <1>6, <1>7, <1>8 DEF FlowInv, Control

\* What follows an automatic compaction, done or failed.
ResumesCases(p, ctx, path) ==
  /\ auto' = None /\ UNCHANGED <<lastAssistant, retryAttempt, overflowAttempted>>
  /\ \/ /\ auto.pre /\ manual = "idle" /\ ~isAgentRunActive
        /\ At(p, "preflight")
        /\ context' = ctx /\ branch' = path
        /\ UNCHANGED <<run, agentEndSeen, isAgentRunActive, pendingBash, steering, followUp>>
     \/ /\ ~auto.pre /\ InRuns(p) /\ lastAssistant = None
        /\ Starts(p, ctx, path) \/ Stops(p, ctx, path)

LEMMA ResumesOutcome ==
  ASSUME FlowInv, NEW p \in Prompts, Compacting(p), NEW again \in BOOLEAN, NEW ctx \in Seq(Entry),
         NEW path \in Seq(Entry), Resumes(p, again, ctx, path),
         UNCHANGED <<lastAssistant, retryAttempt, overflowAttempted>>
  PROVE  ResumesCases(p, ctx, path) /\ run.phase = "none" /\ AtWork(p)
<1>0. AtWork(p) /\ run.phase = "none" /\ auto # None
  <2>1. AtWork(p) /\ prompt[p] # "running"
    BY DEF AtWork, Compacting
  <2>2. QED
    BY <2>1, BetweenRuns DEF FlowInv, Control, AutoFits
<1>1. CASE auto.pre
  <2>1. manual = "idle"
    BY <1>0, <1>1 DEF FlowInv, TypeInv, Control, ManualFits
  <2>2. ~isAgentRunActive
    <3>1. SUFFICES ASSUME NEW q \in Prompts, InRuns(q) PROVE FALSE
      BY DEF FlowInv, Control, ActiveFits
    <3>2. AtWork(q)
      BY <3>1 DEF InRuns, AtWork, Compacting
    <3>3. q = p
      BY <1>0, <3>2 DEF FlowInv, Control, OneAtWork
    <3>4. QED
      BY <1>1, <3>1, <3>3 DEF InRuns, Compacting
  <2>3. QED
    BY <1>0, <1>1, <2>1, <2>2 DEF Resumes, ResumesCases
<1>2. CASE ~auto.pre
  <2>1. InRuns(p) /\ isAgentRunActive
    BY <1>2 DEF InRuns, FlowInv, Control, ActiveFits
  <2>2. lastAssistant = None
    BY <1>0, <2>1 DEF FlowInv, Heard
  <2>3. Starts(p, ctx, path) \/ Stops(p, ctx, path)
    BY <1>2, ContinueOutcome, ContinueOrFinishOutcome DEF Resumes, FlowInv
  <2>4. QED
    BY <1>0, <1>2, <2>1, <2>2, <2>3 DEF Resumes, ResumesCases
<1>3. QED
  BY <1>1, <1>2

LEMMA ResumesFlow ==
  ASSUME FlowInv, NEW p \in Prompts, AtWork(p), NEW ctx \in Seq(Entry), NEW path \in Seq(Entry),
         ResumesCases(p, ctx, path),
         UNCHANGED <<unheard, displayed, cleared, text, compaction, waiting, bounds, used, large>>,
         nextId' \in Nat \ {0}
  PROVE  FlowInv'
<1>1. Rest
  <2>1. overflowAttempted' \in BOOLEAN /\ large' \in Nat /\ retryAttempt' = retryAttempt
    BY DEF ResumesCases, FlowInv, TypeInv
  <2>2. QED
    BY <2>1, RestHolds
<1>2. CASE auto.pre
  <2>1. /\ auto.pre /\ manual = "idle" /\ ~isAgentRunActive
        /\ At(p, "preflight")
        /\ context' = ctx /\ branch' = path
        /\ UNCHANGED <<run, agentEndSeen, isAgentRunActive, pendingBash, steering, followUp>>
        /\ auto' = None /\ UNCHANGED lastAssistant
    BY <1>2 DEF ResumesCases
  <2>2. pendingBash' = <<>> /\ text' \in [Prompts -> Nat] /\ used' \in Counters
    BY <2>1 DEF FlowInv, TypeInv, Control, ActiveFits
  <2>3. \A q \in Prompts : q # p => ~AtWork(q)
    BY DEF FlowInv, Control, OneAtWork
  <2>4. QED
    BY <1>1, <2>1, <2>2, <2>3, BeforeRunFlow DEF Rest
<1>3. CASE ~auto.pre /\ Starts(p, ctx, path)
  BY <1>1, <1>3, StartsFlow DEF ResumesCases
<1>4. CASE ~auto.pre /\ Stops(p, ctx, path)
  BY <1>1, <1>4, FinishFlow DEF ResumesCases, Stops
<1>5. QED
  BY <1>2, <1>3, <1>4 DEF ResumesCases

LEMMA CompactionFailsOutcome ==
  ASSUME FlowInv, NEW p \in Prompts, CompactionFails(p)
  PROVE  ResumesCases(p, context, branch) /\ AtWork(p) /\ Compacting(p) /\ run.phase = "none"
<1>1. FALSE \in BOOLEAN /\ Compacting(p) /\ context \in Seq(Entry) /\ branch \in Seq(Entry)
  BY DEF CompactionFails, Compacting, FlowInv, TypeInv
<1>2. Resumes(p, FALSE, context, branch) /\ UNCHANGED <<lastAssistant, retryAttempt, overflowAttempted>>
  BY DEF CompactionFails
<1>3. QED
  BY <1>1, <1>2, ResumesOutcome

LEMMA CompactionFailsFlow ==
  ASSUME FlowInv, NEW p \in Prompts, CompactionFails(p)
  PROVE  FlowInv'
<1>1. ResumesCases(p, context, branch) /\ AtWork(p)
  BY CompactionFailsOutcome
<1>2. /\ context \in Seq(Entry) /\ branch \in Seq(Entry) /\ nextId' \in Nat \ {0}
      /\ UNCHANGED <<unheard, displayed, cleared, text, compaction, waiting, bounds, used, large>>
  BY DEF CompactionFails, FlowInv, TypeInv, ids
<1>3. QED
  BY <1>1, <1>2, ResumesFlow

\* The path with a compaction, and its context, are made of entries.
LEMMA CompactedFacts ==
  ASSUME TypeInv, NEW prep \in Preparation
  PROVE  LET e == CompactionEntry(prep)
             path == CompactedPath(prep)
             ctx == ContextEntries(path)
         IN  /\ e \in Entry /\ e.id = nextId /\ e.kind = "compaction" /\ e.stop = "none"
             /\ e.ref = prep.firstKept
             /\ path = Append(branch, e) /\ path \in Seq(Entry)
             /\ ctx \in Seq(Entry) /\ ctx # <<>> /\ ctx[1] = e /\ RetryContext(ctx) \in Seq(Entry)
             /\ RetryContext(ctx) # <<>>
<1> DEFINE e == CompactionEntry(prep)
           path == CompactedPath(prep)
           ctx == ContextEntries(path)
           n == Len(branch)
<1>1. e \in Entry /\ e.id = nextId /\ e.kind = "compaction" /\ e.stop = "none" /\ e.ref = prep.firstKept
  BY DEF CompactionEntry, Entry, TypeInv, Preparation
<1>2. path = Append(branch, e)
  BY DEF CompactedPath
<1> HIDE DEF e
<1>3. /\ path \in Seq(Entry) /\ Len(path) = n + 1 /\ path[n + 1] = e /\ n \in Nat
  BY <1>1, <1>2, AppendProperties, LenProperties DEF TypeInv
<1> HIDE DEF path, n
<1>4. LastCompaction(path) = n + 1
  <2>1. LastCompaction(path) \in 0 .. n + 1 /\ n + 1 <= LastCompaction(path)
    BY <1>1, <1>3, LastCompactionFound
  <2>2. QED
    BY <1>3, <2>1
<1>5. ContextLength(path) \in Nat \ {0}
  <2>1. Kept(path) \in 0 .. n
    BY <1>3, <1>4, KeptFacts
  <2>2. QED
    BY <1>3, <1>4, <2>1 DEF ContextLength
<1>6. ctx \in Seq(Entry) /\ ctx # <<>> /\ ctx[1] = e
  <2>1. ctx \in Seq(Entry) /\ Len(ctx) = ContextLength(path) /\ 1 \in 1 .. ContextLength(path)
    BY <1>3, <1>5, ContextFacts
  <2>2. ctx[1] = path[Source(path, 1)] /\ Source(path, 1) = n + 1
    BY <1>3, <1>4, <2>1, ContextFacts DEF Source
  <2>3. QED
    BY <1>3, <1>5, <2>1, <2>2, EmptySeq
<1> HIDE DEF ctx
<1>7. RetryContext(ctx) \in Seq(Entry) /\ RetryContext(ctx) # <<>>
  <2>1. CASE Len(ctx) >= 2
    BY <1>6, <2>1, WithoutFacts
  <2>2. CASE ~(Len(ctx) >= 2)
    <3>1. Len(ctx) = 1
      <4> DEFINE k == Len(ctx)
      <4>1. k \in Nat /\ k # 0 /\ ~(k >= 2)
        BY <1>6, <2>2, EmptySeq, LenProperties
      <4> HIDE DEF k
      <4>2. k = 1
        BY <4>1
      <4>3. QED
        BY <4>2 DEF k
    <3>2. Last(ctx) = e
      BY <1>6, <3>1 DEF Last
    <3>3. QED
      BY <1>1, <1>6, <3>2 DEF RetryContext
  <2>3. QED
    BY <2>1, <2>2
<1>8. QED
  BY <1>1, <1>2, <1>3, <1>6, <1>7 DEF ctx, e, path

LEMMA CompactionDoneOutcome ==
  ASSUME FlowInv, NEW p \in Prompts, CompactionDone(p)
  PROVE  LET path == CompactedPath(auto.prep)
             ctx == IF auto.willRetry THEN RetryContext(ContextEntries(path)) ELSE ContextEntries(path)
         IN  /\ ResumesCases(p, ctx, path) /\ AtWork(p) /\ Compacting(p) /\ run.phase = "none"
             /\ prompt[p] = "summarizing" /\ auto \in AutoCompaction /\ auto.prep \in Preparation
             /\ ctx \in Seq(Entry) /\ path \in Seq(Entry) /\ ctx # <<>>
<1> DEFINE path == CompactedPath(auto.prep)
           ctx == IF auto.willRetry THEN RetryContext(ContextEntries(path)) ELSE ContextEntries(path)
<1>1. prompt[p] = "summarizing" /\ Compacting(p)
  BY DEF CompactionDone, Compacting
<1>2. auto \in AutoCompaction /\ auto.prep \in Preparation
  BY <1>1 DEF FlowInv, TypeInv, Control, AutoFits, AutoCompaction
<1>3. ctx \in Seq(Entry) /\ path \in Seq(Entry) /\ ctx # <<>>
  BY <1>2, CompactedFacts DEF FlowInv
<1>4. Resumes(p, auto.willRetry, ctx, path) /\ UNCHANGED <<lastAssistant, retryAttempt, overflowAttempted>>
  BY DEF CompactionDone
<1>5. auto.willRetry \in BOOLEAN
  BY <1>2 DEF AutoCompaction
<1> HIDE DEF ctx, path
<1>6. ResumesCases(p, ctx, path) /\ run.phase = "none" /\ AtWork(p)
  BY <1>1, <1>3, <1>4, <1>5, ResumesOutcome
<1>7. QED
  BY <1>1, <1>2, <1>3, <1>6 DEF ctx, path

LEMMA CompactionDoneFlow ==
  ASSUME FlowInv, NEW p \in Prompts, CompactionDone(p)
  PROVE  FlowInv'
<1> DEFINE path == CompactedPath(auto.prep)
           ctx == IF auto.willRetry THEN RetryContext(ContextEntries(path)) ELSE ContextEntries(path)
<1>1. ResumesCases(p, ctx, path) /\ AtWork(p) /\ ctx \in Seq(Entry) /\ path \in Seq(Entry)
  BY CompactionDoneOutcome
<1>2. /\ nextId' \in Nat \ {0}
      /\ UNCHANGED <<unheard, displayed, cleared, text, compaction, waiting, bounds, used, large>>
  BY DEF CompactionDone, FlowInv, TypeInv, NewId
<1> HIDE DEF ctx, path
<1>3. QED
  BY <1>1, <1>2, ResumesFlow

-----------------------------------------------------------------------------
(* What clients call *)

LEMMA PromptRunsFlow ==
  ASSUME FlowInv, NEW p \in Prompts, PromptRuns(p)
  PROVE  FlowInv'
<1>0. prompt[p] = "preflight" /\ AtWork(p) /\ ~Compacting(p) /\ text[p] \in Nat
  BY DEF PromptRuns, AtWork, Compacting, FlowInv, TypeInv
<1>a. auto = None /\ manual = "idle" /\ connected
  BY <1>0, NoAutoInRun DEF FlowInv, TypeInv, Control, ManualFits
<1>u. UNCHANGED <<context, branch, unheard, steering, followUp, displayed, cleared, lastAssistant,
                  retryAttempt, overflowAttempted, text, auto, manual, manualPrep, connected, waiting,
                  pendingBash, nextId, bounds, used, large>> /\ isAgentRunActive' = TRUE /\ agentEndSeen' = FALSE
  BY <1>a DEF PromptRuns, log, queues, compaction, ids
<1>r. run' \in Runs /\ run'.phase = "prompts" /\ run'.termination = "none" /\ run'.pending # <<>>
  <2>1. <<text[p]>> \in Seq(Nat) /\ <<text[p]>> # <<>>
    BY <1>0
  <2>2. StartRun(<<text[p]>>, FALSE)
    BY DEF PromptRuns
  <2>3. QED
    BY <2>1, <2>2, StartRunFacts
<1>m. /\ prompt' \in [Prompts -> Steps] /\ prompt'[p] = "running"
      /\ \A q \in Prompts : q # p => prompt[q] \in {"idle", "settling"} /\ prompt'[q] = prompt[q]
  <2>1. At(p, "running") /\ "running" \in Steps
    BY DEF PromptRuns, Steps
  <2>2. QED
    BY <1>0, <2>1, MovesOn DEF FlowInv, Control
<1>1. TypeInv'
  BY <1>m, <1>u, <1>r DEF FlowInv, TypeInv
<1>2. OneAtWork' /\ AutoFits'
  BY <1>m, <1>a, <1>u DEF OneAtWork, AutoFits, AtWork, Compacting
<1>3. ActiveFits'
  BY <1>m, <1>u DEF ActiveFits, InRuns, Compacting
<1>4. RunFits'
  BY <1>m, <1>r DEF RunFits
<1>5. ManualFits'
  BY <1>u, <1>a DEF FlowInv, Control, ManualFits
<1>6. Heard'
  BY <1>u, <1>r DEF Heard
<1>7. ContextEnds'
  BY <1>r DEF ContextEnds
<1>8. LastHeard'
  BY <1>r DEF LastHeard
<1>9. QED
  BY <1>1, <1>2, <1>3, <1>4, <1>5, <1>6, <1>7, <1>8 DEF FlowInv, Control

\* A call is made while no run is active: it checks whether to compact.
PromptCalledCases(p, ctx) ==
  /\ prompt[p] = "idle" /\ ~isAgentRunActive /\ manual = "idle"
  /\ \A q \in Prompts : prompt[q] \in {"idle", "settling"}
  /\ text' = [text EXCEPT ![p] = nextId] /\ nextId' = nextId + 1
  /\ used.texts < bounds.texts /\ used' = [used EXCEPT !.texts = @ + 1]
  /\ branch' = branch \o pendingBash /\ pendingBash' = <<>>
  /\ \/ At(p, "preflight") /\ context' = ctx /\ UNCHANGED <<overflowAttempted, auto>>
     \/ /\ At(p, "authorizing")
        /\ auto' \in AutoCompaction /\ auto'.pre /\ auto'.prep = None
        /\ context' \in {ctx, WithoutLastAssistant(ctx)}
        /\ \/ context' = ctx /\ UNCHANGED overflowAttempted
           \/ /\ overflowAttempted' /\ ~overflowAttempted
              /\ \E i \in 1 .. Len(ctx) : /\ ctx[i].kind = "assistant" /\ Overflowed(ctx[i])
                                          /\ \A j \in 1 .. Len(ctx) : ctx[j].kind = "assistant" => j <= i
  /\ UNCHANGED <<unheard, run, queues, lastAssistant, agentEndSeen, retryAttempt, compaction, flow, bounds>>

LEMMA UsesFacts ==
  ASSUME used \in Counters, NEW what \in {"texts", "tools", "bash", "aborts", "compacts"}, Uses(what)
  PROVE  /\ used' \in Counters /\ used' = [used EXCEPT ![what] = @ + 1]
  BY DEF Uses, Counters

LEMMA PromptCalledOutcome ==
  ASSUME FlowInv, NEW p \in Prompts, PromptCalled(p)
  PROVE  /\ PromptCalledCases(p, context \o pendingBash)
         /\ overflowAttempted' \in BOOLEAN /\ large' \in Nat /\ used' \in Counters
         /\ context \o pendingBash \in Seq(Entry) /\ auto = None
<1> DEFINE ctx == context \o pendingBash
           i == LastAssistantIn(ctx)
<1>0. ctx \in Seq(Entry) /\ overflowAttempted \in BOOLEAN /\ large \in Nat /\ used \in Counters
  BY ConcatProperties DEF FlowInv, TypeInv
<1>1. /\ prompt[p] = "idle" /\ ~isAgentRunActive /\ manual = "idle"
      /\ \A q \in Prompts : prompt[q] \in {"idle", "settling"}
      /\ text' = [text EXCEPT ![p] = nextId] /\ nextId' = nextId + 1 /\ UNCHANGED bounds
      /\ branch' = branch \o pendingBash /\ pendingBash' = <<>> /\ Uses("texts")
      /\ UNCHANGED <<unheard, run, queues, lastAssistant, agentEndSeen, retryAttempt, compaction, flow>>
  BY DEF PromptCalled, NewId, SavedBash
<1>2. used' \in Counters /\ used.texts < bounds.texts /\ used' = [used EXCEPT !.texts = @ + 1]
  <2>1. used' \in Counters
    BY <1>0, <1>1, UsesFacts
  <2>2. QED
    BY <1>1, <2>1 DEF Uses
<1>3. PICK verdict \in (IF i = 0 THEN {"none"} ELSE CheckCompaction(ctx[i], FALSE)) :
        \/ /\ verdict = "none"
           /\ At(p, "preflight")
           /\ context' = ctx
           /\ UNCHANGED <<overflowAttempted, auto, large>>
        \/ verdict # "none" /\ Compacts(p, verdict, TRUE, ctx)
  BY DEF PromptCalled
<1>4. auto = None
  BY <1>1 DEF FlowInv, Control, AutoFits, Compacting
<1>5. CASE verdict = "none"
  BY <1>0, <1>1, <1>2, <1>3, <1>4, <1>5 DEF PromptCalledCases
<1>6. CASE verdict # "none"
  <2>1. i # 0 /\ verdict \in {"recover", "threshold"}
    BY <1>3, <1>6, Verdicts
  <2>2. /\ auto' \in AutoCompaction /\ auto'.pre = TRUE /\ auto'.prep = None
        /\ large' \in Nat /\ overflowAttempted' \in BOOLEAN /\ At(p, "authorizing")
        /\ context' = IF verdict = "threshold" THEN ctx ELSE WithoutLastAssistant(ctx)
    BY <1>0, <1>3, <1>6, <2>1, CompactsFacts
  <2>3. verdict = "recover" => Overflowed(ctx[i]) /\ ~overflowAttempted /\ overflowAttempted' = TRUE
    BY <1>3, <1>6, <2>1 DEF CheckCompaction, Compacts
  <2>4. verdict = "threshold" => UNCHANGED overflowAttempted
    BY <1>3, <1>6 DEF Compacts
  <2>5. /\ i \in 1 .. Len(ctx) /\ ctx[i].kind = "assistant"
        /\ \A j \in 1 .. Len(ctx) : ctx[j].kind = "assistant" => j <= i
    <3> DEFINE I == {j \in 1 .. Len(ctx) : ctx[j].kind = "assistant"}
    <3>1. i = IF I # {} THEN Max(I) ELSE 0
      BY DEF LastAssistantIn, SelectLastInSubSeq
    <3>2. Len(ctx) \in Nat /\ I \in SUBSET (0 .. Len(ctx))
      BY <1>0, LenProperties
    <3>3. I # {} => Max(I) \in I /\ \A j \in I : j <= Max(I)
      BY <3>2, MaxIsGreatest
    <3> HIDE DEF i
    <3>4. QED
      BY <2>1, <3>1, <3>3
  <2> HIDE DEF ctx, i
  <2>6. PromptCalledCases(p, ctx)
    BY <1>1, <1>2, <2>1, <2>2, <2>3, <2>4, <2>5 DEF PromptCalledCases
  <2>7. QED
    BY <1>0, <1>2, <1>4, <2>2, <2>6 DEF ctx
<1>7. QED
  BY <1>5, <1>6

LEMMA PromptCalledFlow ==
  ASSUME FlowInv, NEW p \in Prompts, PromptCalled(p)
  PROVE  FlowInv'
<1> DEFINE ctx == context \o pendingBash
<1>1. /\ PromptCalledCases(p, ctx)
      /\ overflowAttempted' \in BOOLEAN /\ large' \in Nat /\ used' \in Counters
      /\ ctx \in Seq(Entry) /\ auto = None
  BY PromptCalledOutcome
<1> HIDE DEF ctx
<1>2. manual = "idle" /\ ~isAgentRunActive /\ (\A q \in Prompts : q # p => ~AtWork(q)) /\ pendingBash' = <<>>
  BY <1>1 DEF PromptCalledCases, AtWork
<1>3. UNCHANGED <<run, lastAssistant, agentEndSeen, isAgentRunActive, steering, followUp,
                  unheard, displayed, cleared, compaction, waiting, bounds>>
  BY <1>1 DEF PromptCalledCases, queues, flow
<1>4. branch' \in Seq(Entry) /\ context' \in Seq(Entry)
  <2>1. branch' = branch \o pendingBash /\ context' \in {ctx, WithoutLastAssistant(ctx)}
    BY <1>1 DEF PromptCalledCases
  <2>2. QED
    BY <1>1, <2>1, ConcatProperties, WithoutFacts DEF FlowInv, TypeInv
<1>5. text' \in [Prompts -> Nat] /\ nextId' \in Nat \ {0} /\ retryAttempt' \in 0 .. MaxRetries
  BY <1>1 DEF PromptCalledCases, FlowInv, TypeInv
<1>6. CASE At(p, "preflight") /\ UNCHANGED auto
  BY <1>1, <1>2, <1>3, <1>4, <1>5, <1>6, BeforeRunFlow
<1>7. CASE At(p, "authorizing") /\ auto' \in AutoCompaction /\ auto'.pre /\ auto'.prep = None
  BY <1>1, <1>2, <1>3, <1>4, <1>5, <1>7, BeforeRunFlow
<1>8. QED
  BY <1>1, <1>6, <1>7 DEF PromptCalledCases

LEMMA QueueFlow ==
  ASSUME FlowInv, Queue
  PROVE  FlowInv'
<1>u. UNCHANGED <<log, run, cleared, outcome, calls, compaction, flow, pendingBash, large, bounds>>
      /\ nextId' = nextId + 1 /\ displayed' = displayed \cup {nextId}
  BY DEF Queue, NewId
<1>a. steering' \in Seq(Nat) /\ followUp' \in Seq(Nat) /\ used' \in Counters /\ nextId' \in Nat \ {0}
      /\ displayed' \subseteq Nat
  <2>1. Append(steering, nextId) \in Seq(Nat) /\ Append(followUp, nextId) \in Seq(Nat)
    BY AppendProperties DEF FlowInv, TypeInv
  <2>2. used' \in Counters
    BY UsesFacts DEF Queue, FlowInv, TypeInv
  <2>3. nextId \in Nat \ {0} /\ displayed \subseteq Nat /\ steering \in Seq(Nat) /\ followUp \in Seq(Nat)
    BY DEF FlowInv, TypeInv
  <2>4. steering' \in Seq(Nat) /\ followUp' \in Seq(Nat)
    BY <2>1, <2>3 DEF Queue
  <2>5. nextId' \in Nat \ {0} /\ displayed' \subseteq Nat
    BY <1>u, <2>3
  <2>6. QED
    BY <2>2, <2>4, <2>5
<1>1. TypeInv'
  BY <1>u, <1>a DEF FlowInv, TypeInv, log, outcome, calls, compaction, flow
<1>2. (OneAtWork /\ AutoFits /\ ActiveFits /\ ManualFits)'
  BY <1>u, ControlKept
<1>3. UNCHANGED <<run, context, prompt, connected, isAgentRunActive, agentEndSeen, lastAssistant>>
  BY <1>u DEF calls, compaction, flow, outcome, log
<1>4. RunFits' /\ Heard' /\ ContextEnds' /\ LastHeard'
  BY <1>3 DEF FlowInv, Control, RunFits, Heard, ContextEnds, LastHeard
<1>5. QED
  BY <1>1, <1>2, <1>4 DEF FlowInv, Control

LEMMA ClearQueueFlow ==
  ASSUME FlowInv, ClearQueue
  PROVE  FlowInv'
<1>u. UNCHANGED <<log, run, outcome, calls, compaction, flow, pendingBash, ids, used, large>>
  BY DEF ClearQueue
<1>a. steering' \in Seq(Nat) /\ followUp' \in Seq(Nat) /\ displayed' \subseteq Nat /\ cleared' \subseteq Nat
  <2>1. Range(steering) \subseteq Nat /\ Range(followUp) \subseteq Nat
    BY DEF Range, FlowInv, TypeInv
  <2>2. QED
    BY <2>1, EmptySeq DEF ClearQueue, FlowInv, TypeInv
<1>1. TypeInv'
  BY <1>u, <1>a DEF FlowInv, TypeInv, log, outcome, calls, compaction, flow, ids
<1>2. (OneAtWork /\ AutoFits /\ ActiveFits /\ ManualFits)'
  BY <1>u, ControlKept
<1>3. UNCHANGED <<run, context, prompt, connected, isAgentRunActive, agentEndSeen, lastAssistant>>
  BY <1>u DEF calls, compaction, flow, outcome, log
<1>4. RunFits' /\ Heard' /\ ContextEnds' /\ LastHeard'
  BY <1>3 DEF FlowInv, Control, RunFits, Heard, ContextEnds, LastHeard
<1>5. QED
  BY <1>1, <1>2, <1>4 DEF FlowInv, Control

LEMMA RecordBashResultFlow ==
  ASSUME FlowInv, RecordBashResult
  PROVE  FlowInv'
<1> DEFINE m == Message(nextId, "bash", "none")
<1>u. UNCHANGED <<unheard, run, queues, outcome, calls, compaction, flow, large, bounds>> /\ nextId' = nextId + 1
  BY DEF RecordBashResult, NewId
<1>m. m \in Entry
  BY MessageTyped DEF FlowInv, TypeInv
<1>b. IF isAgentRunActive
      THEN pendingBash' = Append(pendingBash, m) /\ UNCHANGED <<context, branch>>
      ELSE context' = Append(context, m) /\ branch' = Append(branch, m) /\ UNCHANGED pendingBash
  BY DEF RecordBashResult, BashWaits
<1> HIDE DEF m
<1>a. /\ context' \in Seq(Entry) /\ branch' \in Seq(Entry) /\ pendingBash' \in Seq(Entry)
      /\ used' \in Counters /\ nextId' \in Nat \ {0}
  <2>1. /\ Append(context, m) \in Seq(Entry) /\ Append(branch, m) \in Seq(Entry)
        /\ Append(pendingBash, m) \in Seq(Entry)
    BY <1>m, AppendProperties DEF FlowInv, TypeInv
  <2>2. used' \in Counters
    BY UsesFacts DEF RecordBashResult, FlowInv, TypeInv
  <2>3. nextId' \in Nat \ {0}
    BY <1>u DEF FlowInv, TypeInv
  <2>4. context \in Seq(Entry) /\ branch \in Seq(Entry) /\ pendingBash \in Seq(Entry)
    BY DEF FlowInv, TypeInv
  <2>5. context' \in Seq(Entry) /\ branch' \in Seq(Entry) /\ pendingBash' \in Seq(Entry)
    BY <1>b, <2>1, <2>4
  <2>6. QED
    BY <2>2, <2>3, <2>5
<1>1. TypeInv'
  BY <1>u, <1>a DEF FlowInv, TypeInv, queues, outcome, calls, compaction, flow
<1>3. UNCHANGED <<run, prompt, auto, manual, manualPrep, connected, isAgentRunActive, waiting, agentEndSeen, lastAssistant>>
  BY <1>u DEF calls, compaction, flow, outcome
<1>2. OneAtWork' /\ AutoFits' /\ ManualFits'
  BY <1>3 DEF FlowInv, Control, OneAtWork, AutoFits, ManualFits, AtWork, Compacting
<1>4. ActiveFits'
  BY <1>3, <1>b DEF FlowInv, Control, ActiveFits, InRuns, Compacting
<1>5. RunFits' /\ Heard'
  BY <1>3 DEF FlowInv, Control, RunFits, Heard
<1>6. ContextEnds' /\ LastHeard'
  <2>1. CASE isAgentRunActive
    BY <1>3, <1>b, <2>1 DEF FlowInv, ContextEnds, LastHeard
  <2>2. CASE ~isAgentRunActive
    <3>1. run.phase = "none"
      BY <2>2, RunIsActive
    <3>2. QED
      BY <1>3, <2>2, <3>1 DEF ContextEnds, LastHeard
  <2>3. QED
    BY <2>1, <2>2
<1>7. QED
  BY <1>1, <1>2, <1>4, <1>5, <1>6 DEF FlowInv, Control

\* abortRetry changes nothing but that a call no longer waits to retry.
LEMMA RetryAbortsFacts ==
  ASSUME FlowInv, RetryAborts
  PROVE  /\ prompt' \in [Prompts -> Steps]
         /\ \A q \in Prompts : prompt'[q] = IF prompt[q] = "sleep" THEN "cancelled" ELSE prompt[q]
  BY DEF RetryAborts, FlowInv, TypeInv, Steps

LEMMA AbortRetryFlow ==
  ASSUME FlowInv, AbortRetry
  PROVE  FlowInv'
<1>u. UNCHANGED <<log, run, queues, outcome, text, auto, compaction, flow, pendingBash, ids, large>>
  BY DEF AbortRetry
<1>m. /\ prompt' \in [Prompts -> Steps]
      /\ \A q \in Prompts : prompt'[q] = IF prompt[q] = "sleep" THEN "cancelled" ELSE prompt[q]
  BY RetryAbortsFacts DEF AbortRetry
<1>a. used' \in Counters
  BY UsesFacts DEF AbortRetry, FlowInv, TypeInv
<1>1. TypeInv'
  BY <1>u, <1>a, <1>m DEF FlowInv, TypeInv, log, queues, outcome, compaction, flow, ids
<1>3. UNCHANGED <<run, context, auto, manual, manualPrep, connected, isAgentRunActive, waiting, pendingBash,
                  agentEndSeen, lastAssistant>>
  BY <1>u DEF compaction, flow, outcome, log
<1>2. OneAtWork' /\ AutoFits'
  BY <1>3, <1>m DEF FlowInv, Control, OneAtWork, AutoFits, AtWork, Compacting
<1>4. ActiveFits'
  BY <1>3, <1>m DEF FlowInv, Control, ActiveFits, InRuns, Compacting
<1>5. RunFits' /\ Heard'
  BY <1>3, <1>m DEF FlowInv, Control, RunFits, Heard
<1>6. ManualFits'
  BY <1>3, <1>m DEF FlowInv, Control, ManualFits, AtWork
<1>7. ContextEnds' /\ LastHeard'
  BY <1>3 DEF FlowInv, ContextEnds, LastHeard
<1>8. QED
  BY <1>1, <1>2, <1>4, <1>5, <1>6, <1>7 DEF FlowInv, Control

LEMMA AbortsFacts ==
  ASSUME FlowInv, NEW who \in {"abort", "compact"}, Aborts(who)
  PROVE  /\ prompt' \in [Prompts -> Steps]
         /\ \A q \in Prompts : prompt'[q] = IF prompt[q] = "sleep" THEN "cancelled" ELSE prompt[q]
         /\ run' \in Runs /\ run'.phase = run.phase /\ run'.pending = run.pending
         /\ run'.termination = run.termination
         /\ waiting' = IF isAgentRunActive THEN waiting \cup {who} ELSE waiting
<1>1. run \in Runs
  BY DEF FlowInv, TypeInv
<1>2. /\ run' \in Runs /\ run'.phase = run.phase /\ run'.pending = run.pending
      /\ run'.termination = run.termination
  BY <1>1 DEF Aborts, Runs
<1>3. QED
  BY <1>2, RetryAbortsFacts DEF Aborts

LEMMA AbortFlow ==
  ASSUME FlowInv, Abort
  PROVE  FlowInv'
<1>u. UNCHANGED <<log, queues, outcome, text, auto, compaction, isAgentRunActive, pendingBash, ids, large>>
  BY DEF Abort
<1>m. /\ prompt' \in [Prompts -> Steps]
      /\ \A q \in Prompts : prompt'[q] = IF prompt[q] = "sleep" THEN "cancelled" ELSE prompt[q]
      /\ run' \in Runs /\ run'.phase = run.phase /\ run'.pending = run.pending
      /\ run'.termination = run.termination
      /\ waiting' = IF isAgentRunActive THEN waiting \cup {"abort"} ELSE waiting
  BY AbortsFacts DEF Abort
<1>a. used' \in Counters
  BY UsesFacts DEF Abort, FlowInv, TypeInv
<1>1. TypeInv'
  BY <1>u, <1>a, <1>m DEF FlowInv, TypeInv, log, queues, outcome, compaction, ids
<1>3. UNCHANGED <<context, auto, manual, manualPrep, connected, isAgentRunActive, pendingBash,
                  agentEndSeen, lastAssistant>>
  BY <1>u DEF compaction, outcome, log
<1>2. OneAtWork' /\ AutoFits'
  BY <1>3, <1>m DEF FlowInv, Control, OneAtWork, AutoFits, AtWork, Compacting
<1>4. ActiveFits'
  BY <1>3, <1>m DEF FlowInv, Control, ActiveFits, InRuns, Compacting
<1>5. RunFits' /\ Heard'
  BY <1>3, <1>m DEF FlowInv, Control, RunFits, Heard
<1>6. ManualFits'
  BY <1>3, <1>m DEF FlowInv, Control, ManualFits, AtWork
<1>7. ContextEnds' /\ LastHeard'
  BY <1>3, <1>m DEF FlowInv, ContextEnds, LastHeard
<1>8. QED
  BY <1>1, <1>2, <1>4, <1>5, <1>6, <1>7 DEF FlowInv, Control

LEMMA CompactFlow ==
  ASSUME FlowInv, Compact
  PROVE  FlowInv'
<1>u. /\ UNCHANGED <<log, queues, outcome, text, auto, manualPrep, isAgentRunActive, pendingBash, ids, large>>
      /\ manual = "idle" /\ connected' = FALSE
      /\ manual' = IF isAgentRunActive THEN "waiting" ELSE "authorizing"
      /\ isAgentRunActive \/ \A p \in Prompts : prompt[p] \in {"idle", "settling"}
  BY DEF Compact
<1>m. /\ prompt' \in [Prompts -> Steps]
      /\ \A q \in Prompts : prompt'[q] = IF prompt[q] = "sleep" THEN "cancelled" ELSE prompt[q]
      /\ run' \in Runs /\ run'.phase = run.phase /\ run'.pending = run.pending
      /\ run'.termination = run.termination
      /\ waiting' = IF isAgentRunActive THEN waiting \cup {"compact"} ELSE waiting
  BY AbortsFacts DEF Compact
<1>a. used' \in Counters
  BY UsesFacts DEF Compact, FlowInv, TypeInv
<1>1. TypeInv'
  BY <1>u, <1>a, <1>m DEF FlowInv, TypeInv, log, queues, outcome, ids
<1>3. UNCHANGED <<context, auto, manualPrep, isAgentRunActive, pendingBash, agentEndSeen, lastAssistant>>
  BY <1>u DEF outcome, log
<1>2. OneAtWork' /\ AutoFits'
  BY <1>3, <1>m DEF FlowInv, Control, OneAtWork, AutoFits, AtWork, Compacting
<1>4. ActiveFits'
  BY <1>3, <1>m DEF FlowInv, Control, ActiveFits, InRuns, Compacting
<1>5. RunFits' /\ Heard'
  BY <1>u, <1>3, <1>m DEF FlowInv, Control, RunFits, Heard
<1>6. ManualFits'
  <2>1. "compact" \notin waiting
    BY <1>u DEF FlowInv, Control, ManualFits
  <2>2. CASE isAgentRunActive
    <3>1. PICK p \in Prompts : InRuns(p)
      BY <2>2 DEF FlowInv, Control, ActiveFits
    <3>2. AtWork(p) /\ prompt[p] # "preflight"
      BY <3>1 DEF InRuns, AtWork, Compacting
    <3>3. \A q \in Prompts : prompt[q] # "preflight"
      BY <3>2 DEF FlowInv, Control, OneAtWork, AtWork
    <3>4. auto # None => ~auto.pre
      <4>1. auto # None => Compacting(p)
        BY <3>2, NoAutoInRun
      <4>2. QED
        BY <3>1, <4>1 DEF InRuns, Compacting
    <3>5. QED
      BY <1>u, <1>3, <1>m, <2>2, <3>3, <3>4 DEF ManualFits
  <2>3. CASE ~isAgentRunActive
    BY <1>u, <1>3, <1>m, <2>1, <2>3 DEF ManualFits, AtWork
  <2>4. QED
    BY <2>2, <2>3
<1>7. ContextEnds' /\ LastHeard'
  BY <1>u, <1>3, <1>m DEF FlowInv, ContextEnds, LastHeard
<1>8. QED
  BY <1>1, <1>2, <1>4, <1>5, <1>6, <1>7 DEF FlowInv, Control

LEMMA ManualPreparedFlow ==
  ASSUME FlowInv, ManualPrepared
  PROVE  FlowInv'
<1> DEFINE prep == PrepareCompaction(branch, KeepRecent, None)
<1>u. /\ UNCHANGED <<log, run, queues, outcome, calls, connected, flow, pendingBash, ids, used, large>>
      /\ manual = "authorizing" /\ manual' = "summarizing" /\ manualPrep' = prep /\ prep # None
  BY DEF ManualPrepared
<1>a. prep \in Preparation
  BY <1>u, PreparedFits DEF FlowInv, TypeInv
<1> HIDE DEF prep
<1>1. TypeInv'
  BY <1>u, <1>a DEF FlowInv, TypeInv, log, queues, outcome, calls, flow, ids
<1>3. UNCHANGED <<context, run, prompt, auto, connected, isAgentRunActive, waiting, pendingBash, agentEndSeen, lastAssistant>>
  BY <1>u DEF calls, flow, outcome, log
<1>2. OneAtWork' /\ AutoFits'
  BY <1>3 DEF FlowInv, Control, OneAtWork, AutoFits, AtWork, Compacting
<1>4. ActiveFits'
  BY <1>3 DEF FlowInv, Control, ActiveFits, InRuns, Compacting
<1>5. RunFits' /\ Heard' /\ ContextEnds' /\ LastHeard'
  BY <1>3 DEF FlowInv, Control, RunFits, Heard, ContextEnds, LastHeard
<1>6. ManualFits'
  BY <1>u, <1>3 DEF FlowInv, Control, ManualFits, AtWork
<1>7. QED
  BY <1>1, <1>2, <1>4, <1>5, <1>6 DEF FlowInv, Control

\* While compact() is at work itself, no run is active.
LEMMA ManualIsAlone ==
  ASSUME FlowInv, manual \in {"authorizing", "summarizing"}
  PROVE  /\ \A p \in Prompts : ~AtWork(p)
         /\ ~isAgentRunActive /\ run.phase = "none" /\ pendingBash = <<>> /\ auto = None
         /\ "compact" \notin waiting
<1>1. \A p \in Prompts : ~AtWork(p) /\ ~InRuns(p) /\ ~Compacting(p)
  BY DEF FlowInv, Control, ManualFits, AtWork, InRuns, Compacting
<1>2. ~isAgentRunActive /\ auto = None /\ "compact" \notin waiting
  BY <1>1 DEF FlowInv, Control, ActiveFits, AutoFits, ManualFits
<1>3. QED
  BY <1>1, <1>2, RunIsActive DEF FlowInv, Control, ActiveFits

\* compact() has come to its end: it listens again to an agent that does not run.
LEMMA ReconnectsFlow ==
  ASSUME FlowInv, manual \in {"authorizing", "summarizing"}, Reconnects,
         UNCHANGED <<unheard, run, queues, outcome, calls, flow, pendingBash, bounds, used, large>>,
         context' \in Seq(Entry), branch' \in Seq(Entry), nextId' \in Nat \ {0}
  PROVE  FlowInv'
<1>0. /\ \A p \in Prompts : ~AtWork(p)
      /\ ~isAgentRunActive /\ run.phase = "none" /\ pendingBash = <<>> /\ "compact" \notin waiting
  BY ManualIsAlone
<1>3. UNCHANGED <<run, prompt, auto, isAgentRunActive, waiting, pendingBash, agentEndSeen, lastAssistant>>
      /\ manual' = "idle" /\ manualPrep' = None /\ connected' = TRUE
  BY DEF calls, flow, outcome, Reconnects
<1>1. TypeInv'
  BY <1>3 DEF FlowInv, TypeInv, queues, outcome, calls, flow
<1>2. OneAtWork' /\ AutoFits'
  BY <1>3 DEF FlowInv, Control, OneAtWork, AutoFits, AtWork, Compacting
<1>4. ActiveFits'
  BY <1>3 DEF FlowInv, Control, ActiveFits, InRuns, Compacting
<1>5. RunFits' /\ Heard' /\ ContextEnds' /\ LastHeard'
  BY <1>0, <1>3 DEF FlowInv, Control, RunFits, Heard, ContextEnds, LastHeard
<1>6. ManualFits'
  BY <1>0, <1>3 DEF ManualFits
<1>7. QED
  BY <1>1, <1>2, <1>4, <1>5, <1>6 DEF FlowInv, Control

LEMMA ManualFailsFlow ==
  ASSUME FlowInv, ManualFails
  PROVE  FlowInv'
<1>1. /\ manual \in {"authorizing", "summarizing"} /\ Reconnects
      /\ UNCHANGED <<context, branch, unheard, run, queues, outcome, calls, flow, pendingBash, nextId, bounds, used, large>>
  BY DEF ManualFails, log, ids
<1>2. context' \in Seq(Entry) /\ branch' \in Seq(Entry) /\ nextId' \in Nat \ {0}
  BY <1>1 DEF FlowInv, TypeInv
<1>3. QED
  BY <1>1, <1>2, ReconnectsFlow

LEMMA ManualDoneFlow ==
  ASSUME FlowInv, ManualDone
  PROVE  FlowInv'
<1>1. /\ manual \in {"authorizing", "summarizing"} /\ Reconnects
      /\ UNCHANGED <<unheard, run, queues, outcome, calls, flow, pendingBash, bounds, used, large>>
      /\ nextId' = nextId + 1
      /\ branch' = CompactedPath(manualPrep) /\ context' = ContextEntries(branch')
  BY DEF ManualDone, NewId
<1>2. manualPrep \in Preparation
  BY DEF ManualDone, FlowInv, TypeInv, Control, ManualFits
<1>3. context' \in Seq(Entry) /\ branch' \in Seq(Entry) /\ nextId' \in Nat \ {0}
  BY <1>1, <1>2, CompactedFacts DEF FlowInv, TypeInv
<1>4. QED
  BY <1>1, <1>3, ReconnectsFlow

LEMMA StutterFlow ==
  ASSUME FlowInv, UNCHANGED vars
  PROVE  FlowInv'
<1>1. UNCHANGED <<context, branch, unheard, run, steering, followUp, displayed, cleared, lastAssistant,
                  agentEndSeen, retryAttempt, overflowAttempted, prompt, text, auto, manual, manualPrep,
                  connected, isAgentRunActive, waiting, pendingBash, nextId, bounds, used, large>>
  BY DEF vars, log, queues, outcome, calls, compaction, flow, ids
<1>2. TypeInv' /\ OneAtWork' /\ AutoFits' /\ RunFits' /\ ManualFits'
  BY <1>1 DEF FlowInv, TypeInv, Control, OneAtWork, AutoFits, RunFits, ManualFits, AtWork, Compacting
<1>3. ActiveFits' /\ Heard' /\ ContextEnds' /\ LastHeard'
  BY <1>1 DEF FlowInv, Control, ActiveFits, InRuns, Compacting, Heard, ContextEnds, LastHeard
<1>4. QED
  BY <1>2, <1>3 DEF FlowInv, Control

-----------------------------------------------------------------------------
(* The flow of calls and runs *)

LEMMA InitFlow ==
  ASSUME Init
  PROVE  FlowInv
<1>1. TypeInv
  BY TypeInit
<1>2. run.phase = "none" /\ run.termination = "none" /\ run.pending = <<>> /\ ~isAgentRunActive
      /\ (\A p \in Prompts : prompt[p] = "idle")
  BY DEF Init, NoRun
<1>3. OneAtWork /\ AutoFits /\ ActiveFits
  BY <1>2 DEF Init, OneAtWork, AutoFits, ActiveFits, AtWork, Compacting, InRuns
<1>4. RunFits /\ ManualFits
  BY <1>2 DEF Init, RunFits, ManualFits, AtWork
<1>5. Heard /\ ContextEnds /\ LastHeard
  BY <1>2 DEF Init, Heard, ContextEnds, LastHeard
<1>6. QED
  BY <1>1, <1>3, <1>4, <1>5 DEF FlowInv, Control

LEMMA NextFlow ==
  ASSUME FlowInv, [Next]_vars
  PROVE  FlowInv'
<1>1. CASE RunStep
  BY <1>1, MessageAddedFlow, TurnBeginsFlow, TurnEndsFlow, RespondsFlow, ToolReturnsFlow DEF RunStep
<1>2. CASE ManualStep
  BY <1>2, ManualPreparedFlow, ManualFailsFlow, ManualDoneFlow DEF ManualStep
<1>3. ASSUME NEW p \in Prompts, PromptStep(p) PROVE FlowInv'
  BY <1>3, RunEndsFlow, RetryBeginsFlow, RetryCancelledFlow, SettlesFlow, CompactionPreparedFlow,
     CompactionFailsFlow, CompactionDoneFlow, PromptRunsFlow DEF PromptStep
<1>4. CASE ClientStep
  BY <1>4, PromptCalledFlow, QueueFlow, ClearQueueFlow, RecordBashResultFlow, AbortFlow, AbortRetryFlow,
     CompactFlow DEF ClientStep
<1>5. CASE UNCHANGED vars
  BY <1>5, StutterFlow
<1>6. QED
  BY <1>1, <1>2, <1>3, <1>4, <1>5 DEF Next, Proceed

\* One call of prompt() is at work at a time; what is active, retrying, compacting or
\* waiting fits it, and so does what the session has heard of its run.
THEOREM FlowHolds == Spec => []FlowInv
<1>1. FlowInv /\ [Next]_vars => FlowInv'
  BY NextFlow
<1>2. QED
  BY <1>1, InitFlow, PTL DEF Spec

\* Only the end of its run takes a run from its phase "end".
LEMMA OnlyRunEnds ==
  ASSUME FlowInv, [Next]_vars, NEW p \in Prompts, prompt[p] = "running", run.phase = "end", run'.phase # "end"
  PROVE  RunEnds(p)
<1>0. run \in Runs /\ AtWork(p) /\ isAgentRunActive
  BY RunIsActive DEF FlowInv, TypeInv, AtWork
<1>1. CASE RunStep
  BY <1>1 DEF RunStep, MessageAdded, TurnBegins, TurnEnds, Responds, ToolReturns
<1>2. CASE ManualStep
  <2>1. UNCHANGED run
    BY <1>2 DEF ManualStep, ManualPrepared, ManualFails, ManualDone
  <2>2. QED
    BY <2>1
<1>3. ASSUME NEW q \in Prompts, PromptStep(q) PROVE RunEnds(p)
  <2>1. CASE RunEnds(q)
    <3>1. AtWork(q)
      BY <2>1 DEF RunEnds, AtWork
    <3>2. QED
      BY <1>0, <2>1, <3>1 DEF FlowInv, Control, OneAtWork
  <2>2. CASE Settles(q) \/ CompactionPrepared(q)
    <3>1. UNCHANGED run
      BY <2>2 DEF Settles, CompactionPrepared
    <3>2. QED
      BY <3>1
  <2>3. CASE RetryBegins(q) \/ RetryCancelled(q) \/ CompactionFails(q) \/ CompactionDone(q) \/ PromptRuns(q)
    <3>1. prompt[q] # "running" /\ AtWork(q)
      BY <2>3 DEF RetryBegins, RetryCancelled, CompactionFails, CompactionDone, PromptRuns, AtWork
    <3>2. QED
      BY <1>0, <3>1 DEF FlowInv, Control, OneAtWork
  <2>4. QED
    BY <1>3, <2>1, <2>2, <2>3 DEF PromptStep
<1>4. CASE ClientStep
  <2>1. UNCHANGED run \/ run'.phase = run.phase
    BY <1>0, <1>4 DEF ClientStep, PromptCalled, Queue, ClearQueue, RecordBashResult, Abort, AbortRetry, Compact,
       Aborts, Runs
  <2>2. QED
    BY <2>1
<1>5. CASE UNCHANGED vars
  <2>1. UNCHANGED run
    BY <1>5 DEF vars
  <2>2. QED
    BY <2>1
<1>6. QED
  BY <1>1, <1>2, <1>3, <1>4, <1>5 DEF Next, Proceed

RetryStep ==
  \A p \in Prompts :
    prompt[p] = "running" /\ run.phase = "end" /\ run'.phase # "end" /\ connected =>
      (prompt'[p] = "sleep" <=> WillRetryAfterAgentEnd)

LEMMA RetryIsTrue ==
  ASSUME FlowInv, [Next]_vars
  PROVE  RetryStep
<1> SUFFICES ASSUME NEW p \in Prompts, prompt[p] = "running", run.phase = "end", run'.phase # "end", connected
             PROVE  prompt'[p] = "sleep" <=> WillRetryAfterAgentEnd
  BY DEF RetryStep
<1>1. RunEndsCases(p) /\ prompt \in [Prompts -> Steps]
  BY OnlyRunEnds, RunEndsOutcome DEF FlowInv, TypeInv
<1>2. run.termination \in {"completed", "error", "aborted"} /\ context # <<>> /\ context \in Seq(Entry)
  BY RunIsActive DEF FlowInv, TypeInv, Runs, Control, RunFits, ContextEnds
<1>3. Last(context) \in Entry
  BY <1>2, FrontFacts
<1>4. \A step : At(p, step) => prompt'[p] = step
  BY <1>1 DEF At
<1>5. CASE run.termination = "aborted"
  <2>1. ~Retryable(Last(context))
    BY <1>5 DEF FlowInv, ContextEnds, FailedStop, Retryable
  <2>2. Finish(p, context, branch)
    BY <1>1, <1>5 DEF RunEndsCases
  <2>3. QED
    BY <1>4, <2>1, <2>2 DEF Finish, WillRetryAfterAgentEnd
<1>6. CASE run.termination # "aborted"
  <2>1. lastAssistant = Last(context) /\ lastAssistant # None
    BY <1>3, <1>6, NoneAssumption DEF FlowInv, LastHeard
  <2>2. WillRetryAfterAgentEnd <=> (Retryable(lastAssistant) /\ MayRetry)
    BY <2>1 DEF WillRetryAfterAgentEnd, MayRetry
  <2>3. CASE Retryable(lastAssistant) /\ MayRetry
    BY <1>1, <1>4, <1>6, <2>1, <2>2, <2>3 DEF RunEndsCases
  <2>4. CASE ~(Retryable(lastAssistant) /\ MayRetry)
    <3>1. At(p, "running") \/ At(p, "settling") \/ At(p, "authorizing")
      BY <1>1, <1>6, <2>1, <2>4 DEF RunEndsCases, Starts, Stops, Finish
    <3>2. QED
      BY <1>4, <2>2, <2>4, <3>1
  <2>5. QED
    BY <2>3, <2>4
<1>7. QED
  BY <1>5, <1>6

IdleStep ==
  ~(waiting \subseteq waiting') =>
     /\ ~isAgentRunActive /\ run.phase = "none"
     /\ \A p \in Prompts : \/ prompt[p] \in {"idle", "settling", "preflight"}
                          \/ (auto # None /\ auto.pre)

LEMMA WaitersIdle ==
  ASSUME FlowInv, [Next]_vars
  PROVE  IdleStep
<1> SUFFICES ASSUME ~(waiting \subseteq waiting')
             PROVE  /\ ~isAgentRunActive /\ run.phase = "none"
                    /\ \A p \in Prompts : \/ prompt[p] \in {"idle", "settling", "preflight"}
                                         \/ (auto # None /\ auto.pre)
  BY DEF IdleStep
<1>1. ~RunStep
  BY DEF RunStep, MessageAdded, TurnBegins, TurnEnds, Responds, ToolReturns, flow
<1>2. ~ManualStep /\ ~UNCHANGED vars
  BY DEF ManualStep, ManualPrepared, ManualFails, ManualDone, vars, flow
<1>3. ~ClientStep
  BY DEF ClientStep, PromptCalled, Queue, ClearQueue, RecordBashResult, Abort, AbortRetry, Compact, Aborts, flow
<1>4. PICK q \in Prompts : PromptStep(q)
  BY <1>1, <1>2, <1>3 DEF Next, Proceed
<1>5. Settles(q)
  BY <1>4 DEF PromptStep, RunEnds, RetryBegins, RetryCancelled, CompactionPrepared, CompactionFails,
     CompactionDone, PromptRuns, flow
<1>6. ~isAgentRunActive
  BY <1>5 DEF Settles, Released
<1>7. run.phase = "none"
  BY <1>6, RunIsActive
<1>8. ASSUME NEW p \in Prompts
      PROVE  prompt[p] \in {"idle", "settling", "preflight"} \/ (auto # None /\ auto.pre)
  <2>1. ~InRuns(p) /\ prompt[p] \in Steps
    BY <1>6 DEF FlowInv, TypeInv, Control, ActiveFits
  <2>2. Compacting(p) => auto # None /\ auto.pre
    BY <2>1 DEF FlowInv, Control, AutoFits, InRuns
  <2>3. QED
    BY <2>1, <2>2 DEF InRuns, Compacting, Steps
<1>9. QED
  BY <1>6, <1>7, <1>8

StrandStep ==
  \A p \in Prompts :
    prompt[p] # "settling" /\ prompt'[p] = "settling" =>
      \/ steering' = <<>> /\ followUp' = <<>>
      \/ run.termination = "aborted" \/ manual # "idle"

LEMMA StopsEmpty ==
  ASSUME NEW p, NEW ctx, NEW path, Stops(p, ctx, path), ctx # <<>>
  PROVE  steering' = <<>> /\ followUp' = <<>>
  BY DEF Stops, HasQueuedMessages

LEMMA NoneStranded ==
  ASSUME FlowInv, [Next]_vars
  PROVE  StrandStep
<1> SUFFICES ASSUME NEW p \in Prompts, prompt[p] # "settling", prompt'[p] = "settling", manual = "idle",
                    run.termination # "aborted"
             PROVE  steering' = <<>> /\ followUp' = <<>>
  BY DEF StrandStep
<1>0. prompt \in [Prompts -> Steps] /\ connected
  BY DEF FlowInv, TypeInv, Control, ManualFits
<1>1. ~RunStep
  BY DEF RunStep, MessageAdded, TurnBegins, TurnEnds, Responds, ToolReturns, calls
<1>2. ~ManualStep /\ ~UNCHANGED vars
  BY DEF ManualStep, ManualPrepared, ManualFails, ManualDone, vars, calls
<1>3. ~ClientStep
  <2>1. ASSUME NEW q \in Prompts, PromptCalled(q) PROVE FALSE
    <3>1. At(q, "preflight") \/ At(q, "authorizing")
      BY <2>1, PromptCalledOutcome DEF PromptCalledCases
    <3>2. QED
      BY <1>0, <3>1 DEF At
  <2>2. ~Queue /\ ~ClearQueue /\ ~RecordBashResult
    BY DEF Queue, ClearQueue, RecordBashResult, calls
  <2>3. ~Abort /\ ~AbortRetry /\ ~Compact
    BY RetryAbortsFacts DEF Abort, AbortRetry, Compact, Aborts
  <2>4. QED
    BY <2>1, <2>2, <2>3 DEF ClientStep
<1>4. PICK q \in Prompts : PromptStep(q)
  BY <1>1, <1>2, <1>3 DEF Next, Proceed
<1>5. \A step : At(q, step) => (q = p /\ step = "settling")
  BY <1>0 DEF At
<1>6. CASE RunEnds(q)
  <2>1. RunEndsCases(q) /\ context # <<>>
    BY <1>6, RunEndsOutcome, RunIsActive DEF RunEndsCases, FlowInv, ContextEnds
  <2>2. run.phase = "end" /\ context \in Seq(Entry) /\ run \in Runs
    BY <2>1 DEF RunEndsCases, FlowInv, TypeInv
  <2>3. lastAssistant = Last(context) /\ Last(context) \in Entry
    BY <1>0, <2>1, <2>2, FrontFacts DEF FlowInv, LastHeard
  <2>4. lastAssistant # None
    BY <2>3, NoneAssumption
  <2>5. ~Starts(q, context, branch) /\ ~At(q, "sleep") /\ ~At(q, "authorizing")
    BY <1>5 DEF Starts
  <2>6. Stops(q, context, branch)
    BY <1>0, <2>1, <2>4, <2>5 DEF RunEndsCases
  <2>7. QED
    BY <2>1, <2>6, StopsEmpty
<1>7. CASE RetryBegins(q)
  <2>1. Stops(q, context, branch) /\ context # <<>>
    BY <1>5, <1>7, RetryBeginsOutcome DEF Starts
  <2>2. QED
    BY <2>1, StopsEmpty
<1>8. CASE RetryCancelled(q)
  <2>1. Stops(q, context, branch) /\ context # <<>>
    BY <1>5, <1>8, RetryCancelledOutcome DEF Starts
  <2>2. QED
    BY <2>1, StopsEmpty
<1>9. CASE CompactionFails(q)
  <2>1. ResumesCases(q, context, branch)
    BY <1>9, CompactionFailsOutcome
  <2>2. Stops(q, context, branch) /\ InRuns(q)
    BY <1>5, <2>1 DEF ResumesCases, Starts
  <2>3. context # <<>>
    BY <1>9, <2>2, CompactionFailsOutcome DEF FlowInv, Control, ActiveFits, ContextEnds
  <2>4. QED
    BY <2>2, <2>3, StopsEmpty
<1>10. CASE CompactionDone(q)
  <2> DEFINE path == CompactedPath(auto.prep)
             ctx == IF auto.willRetry THEN RetryContext(ContextEntries(path)) ELSE ContextEntries(path)
  <2>1. ResumesCases(q, ctx, path) /\ ctx # <<>>
    BY <1>10, CompactionDoneOutcome
  <2> HIDE DEF ctx, path
  <2>2. Stops(q, ctx, path)
    BY <1>5, <2>1 DEF ResumesCases, Starts
  <2>3. QED
    BY <2>1, <2>2, StopsEmpty
<1>11. CASE Settles(q) \/ CompactionPrepared(q) \/ PromptRuns(q)
  <2>1. At(q, "idle") \/ At(q, "summarizing") \/ At(q, "running")
    BY <1>11 DEF Settles, CompactionPrepared, PromptRuns
  <2>2. QED
    BY <1>5, <2>1
<1>12. QED
  BY <1>4, <1>6, <1>7, <1>8, <1>9, <1>10, <1>11 DEF PromptStep

\* What clients are told of the end of the work is so: agent_end announces a retry exactly
\* when one follows, who waited for the session to be idle finds it so, and no call ends
\* with messages in the queues, unless it was aborted or compact() interrupts it.
THEOREM EndAnnounced == Spec => EndIsTold
<1>1. FlowInv /\ [Next]_vars => RetryStep /\ IdleStep /\ StrandStep
  BY RetryIsTrue, WaitersIdle, NoneStranded
<1>2. Spec => [][RetryStep]_vars /\ [][IdleStep]_vars /\ [][StrandStep]_vars
  BY <1>1, FlowHolds, PTL DEF Spec
<1>3. QED
  BY <1>2 DEF EndIsTold, WillRetryIsTrue, WaitersSeeIdle, NothingStranded, RetryStep, IdleStep, StrandStep

-----------------------------------------------------------------------------
(* Where the messages are *)

Distinct(q) == \A i, j \in 1 .. Len(q) : q[i] = q[j] => i = j
DistinctIds(es) == \A i, j \in 1 .. Len(es) : es[i].id = es[j].id => i = j
UserIds(es) == {es[i].id : i \in {j \in DOMAIN es : es[j].kind = "user"}}

\* The calls whose message is not sent yet.
Early == {p \in Prompts : prompt[p] = "preflight" \/ (Compacting(p) /\ auto.pre)}

Places == {"steering", "followUp", "pending", "cleared", "lost", "branch", "bash", "early"}

\* The ids of the messages in a place.
In(place) ==
  CASE place = "steering" -> Range(steering)
    [] place = "followUp" -> Range(followUp)
    [] place = "pending" -> Range(run.pending)
    [] place = "cleared" -> cleared
    [] place = "lost" -> {m.id : m \in unheard}
    [] place = "branch" -> Ids(branch)
    [] place = "bash" -> Ids(pendingBash)
    [] place = "early" -> {text[p] : p \in Early}

\* No message is in two places.
Apart == \A b, c \in Places : b # c => In(b) \cap In(c) = {}

\* The messages of the user.
Told ==
  UNION {Range(steering), Range(followUp), Range(run.pending), UserIds(branch), cleared,
         {m.id : m \in {n \in unheard : n.kind = "user"}}, {text[p] : p \in Early}}

PlacesFit ==
  /\ Distinct(steering) /\ Distinct(followUp) /\ Distinct(run.pending)
  /\ DistinctIds(branch) /\ DistinctIds(pendingBash)
  /\ Apart
  /\ \A c \in Places : In(c) \subseteq 1 .. (nextId - 1)
  /\ \A i \in 1 .. Len(context) : context[i] \in unheard \/ \E j \in 1 .. Len(branch) : context[i] = branch[j]
  /\ \A i \in 1 .. Len(pendingBash) : pendingBash[i].kind = "bash"
  /\ IsFiniteSet(Told) /\ Cardinality(Told) = used.texts

\* Messages are where they should be, and nowhere else.
PlaceInv == PlacesFit /\ DisplayedIsQueued

LEMMA InFacts ==
  /\ In("steering") = Range(steering) /\ In("followUp") = Range(followUp)
  /\ In("pending") = Range(run.pending) /\ In("cleared") = cleared
  /\ In("lost") = {m.id : m \in unheard} /\ In("branch") = Ids(branch)
  /\ In("bash") = Ids(pendingBash) /\ In("early") = {text[p] : p \in Early}
  /\ In("steering")' = Range(steering') /\ In("followUp")' = Range(followUp')
  /\ In("pending")' = Range(run'.pending) /\ In("cleared")' = cleared'
  /\ In("lost")' = {m.id : m \in unheard'} /\ In("branch")' = Ids(branch')
  /\ In("bash")' = Ids(pendingBash') /\ In("early")' = {text[p] : p \in Early}'
  BY DEF In

LEMMA Moved ==
  ASSUME Apart, NEW b1 \in Places, NEW b2 \in Places, b1 # b2, NEW X1, NEW X2,
         X1 \cap X2 = {}, X1 \cap In(b2) = {}, X2 \cap In(b1) = {},
         In(b1)' \subseteq In(b1) \cup X1, In(b2)' \subseteq In(b2) \cup X2,
         \A c \in Places \ {b1, b2} : In(c)' \subseteq In(c) \ (X1 \cup X2)
  PROVE  Apart'
<1> SUFFICES ASSUME NEW b \in Places, NEW c \in Places, b # c, NEW x, x \in In(b)', x \in In(c)' PROVE FALSE
  BY DEF Apart
<1>1. \A d, e \in Places : \A y : d # e /\ y \in In(d) => y \notin In(e)
  BY DEF Apart
<1>2. \A d \in Places : \A y \in In(d)' :
        \/ y \in In(d) /\ (d \notin {b1, b2} => y \notin X1 /\ y \notin X2)
        \/ d = b1 /\ y \in X1
        \/ d = b2 /\ y \in X2
  OBVIOUS
<1>3. QED
  BY <1>1, <1>2

LEMMA MovedTo ==
  ASSUME Apart, NEW b \in Places, NEW X,
         In(b)' \subseteq In(b) \cup X, \A c \in Places \ {b} : In(c)' \subseteq In(c) \ X
  PROVE  Apart'
<1> SUFFICES ASSUME NEW d \in Places, NEW c \in Places, d # c, NEW x, x \in In(d)', x \in In(c)' PROVE FALSE
  BY DEF Apart
<1>1. \A e, f \in Places : \A y : e # f /\ y \in In(e) => y \notin In(f)
  BY DEF Apart
<1>2. \A e \in Places : \A y \in In(e)' :
        \/ y \in In(e) /\ (e # b => y \notin X)
        \/ e = b /\ y \in X
  OBVIOUS
<1>3. QED
  BY <1>1, <1>2

LEMMA EmptyPlaces == Range(<<>>) = {} /\ Ids(<<>>) = {} /\ UserIds(<<>>) = {} /\ Distinct(<<>>) /\ DistinctIds(<<>>)
<1>1. DOMAIN <<>> = {} /\ Len(<<>>) = 0
  OBVIOUS
<1>2. QED
  BY <1>1 DEF Range, Ids, UserIds, Distinct, DistinctIds

LEMMA SinglePlace == ASSUME NEW x PROVE Range(<<x>>) = {x} /\ Distinct(<<x>>)
<1>1. DOMAIN <<x>> = {1} /\ Len(<<x>>) = 1 /\ <<x>>[1] = x
  OBVIOUS
<1>2. QED
  BY <1>1 DEF Range, Distinct

LEMMA TailPlaces ==
  ASSUME NEW q \in Seq(Nat), q # <<>>, Distinct(q)
  PROVE  /\ Head(q) \in Range(q) /\ Head(q) \in Nat
         /\ Tail(q) \in Seq(Nat) /\ Distinct(Tail(q)) /\ Range(Tail(q)) = Range(q) \ {Head(q)}
<1>1. /\ Len(q) \in Nat \ {0} /\ DOMAIN q = 1 .. Len(q) /\ Head(q) = q[1] /\ Head(q) \in Nat
      /\ Tail(q) \in Seq(Nat) /\ Len(Tail(q)) = Len(q) - 1
      /\ \A i \in 1 .. Len(Tail(q)) : Tail(q)[i] = q[i + 1]
      /\ DOMAIN Tail(q) = 1 .. Len(Tail(q))
  BY EmptySeq, HeadTailProperties, LenProperties
<1>2. \A i, j \in 1 .. Len(q) : q[i] = q[j] => i = j
  BY DEF Distinct
<1>3. Distinct(Tail(q))
  <2>1. SUFFICES ASSUME NEW i \in 1 .. Len(Tail(q)), NEW j \in 1 .. Len(Tail(q)), Tail(q)[i] = Tail(q)[j] PROVE i = j
    BY DEF Distinct
  <2>2. i + 1 \in 1 .. Len(q) /\ j + 1 \in 1 .. Len(q)
    BY <1>1
  <2>3. i + 1 = j + 1
    BY <1>1, <1>2, <2>1, <2>2
  <2>4. QED
    BY <2>3
<1>4. ASSUME NEW x \in Range(Tail(q)) PROVE x \in Range(q) /\ x # Head(q)
  <2>1. PICK i \in 1 .. Len(Tail(q)) : x = Tail(q)[i]
    BY <1>1 DEF Range
  <2>2. i + 1 \in 1 .. Len(q) /\ i + 1 # 1 /\ x = q[i + 1] /\ 1 \in 1 .. Len(q)
    BY <1>1, <2>1
  <2>3. QED
    BY <1>1, <1>2, <2>2 DEF Range
<1>5. ASSUME NEW x \in Range(q), x # Head(q) PROVE x \in Range(Tail(q))
  <2>1. PICK i \in 1 .. Len(q) : x = q[i]
    BY <1>1 DEF Range
  <2>2. i # 1
    BY <1>1, <1>5, <2>1
  <2>3. i - 1 \in 1 .. Len(Tail(q)) /\ (i - 1) + 1 = i
    BY <1>1, <2>2
  <2>4. Tail(q)[i - 1] = x
    BY <1>1, <2>1, <2>3
  <2>5. QED
    BY <1>1, <2>3, <2>4 DEF Range
<1>6. Head(q) \in Range(q)
  BY <1>1 DEF Range
<1>7. QED
  BY <1>1, <1>3, <1>4, <1>5, <1>6

LEMMA AppendPlaces ==
  ASSUME NEW q \in Seq(Nat), NEW x \in Nat
  PROVE  /\ Append(q, x) \in Seq(Nat) /\ Range(Append(q, x)) = Range(q) \cup {x}
         /\ Distinct(q) /\ x \notin Range(q) => Distinct(Append(q, x))
<1>1. /\ Append(q, x) \in Seq(Nat) /\ Len(Append(q, x)) = Len(q) + 1 /\ Len(q) \in Nat
      /\ \A i \in 1 .. Len(q) : Append(q, x)[i] = q[i]
      /\ Append(q, x)[Len(q) + 1] = x
      /\ DOMAIN Append(q, x) = 1 .. Len(q) + 1 /\ DOMAIN q = 1 .. Len(q)
  BY AppendProperties, LenProperties
<1>2. \A i \in 1 .. Len(q) + 1 : i \in 1 .. Len(q) \/ i = Len(q) + 1
  BY <1>1
<1>3. \A i \in 1 .. Len(q) : i \in 1 .. Len(q) + 1
  BY <1>1
<1>a. Len(q) + 1 \in 1 .. Len(q) + 1
  BY <1>1
<1>4. Range(Append(q, x)) = Range(q) \cup {x}
  BY <1>1, <1>2, <1>3, <1>a DEF Range
<1>5. ASSUME Distinct(q), x \notin Range(q) PROVE Distinct(Append(q, x))
  <2>1. \A i \in 1 .. Len(q) : q[i] # x
    BY <1>1, <1>5 DEF Range
  <2>2. QED
    BY <1>1, <1>2, <1>5, <2>1 DEF Distinct
<1>6. QED
  BY <1>1, <1>4, <1>5

LEMMA ConcatPlaces ==
  ASSUME NEW s \in Seq(Entry), NEW t \in Seq(Entry)
  PROVE  /\ s \o t \in Seq(Entry) /\ Ids(s \o t) = Ids(s) \cup Ids(t)
         /\ UserIds(s \o t) = UserIds(s) \cup UserIds(t)
         /\ DistinctIds(s) /\ DistinctIds(t) /\ Ids(s) \cap Ids(t) = {} => DistinctIds(s \o t)
         /\ \A i \in 1 .. Len(s \o t) :
              \/ i \in 1 .. Len(s) /\ (s \o t)[i] = s[i]
              \/ i - Len(s) \in 1 .. Len(t) /\ (s \o t)[i] = t[i - Len(s)]
         /\ \A i \in 1 .. Len(s) : i \in 1 .. Len(s \o t) /\ (s \o t)[i] = s[i]
         /\ \A i \in 1 .. Len(t) : Len(s) + i \in 1 .. Len(s \o t) /\ (s \o t)[Len(s) + i] = t[i]
<1> DEFINE u == s \o t
           m == Len(s)
           n == Len(t)
<1>1. /\ u \in Seq(Entry) /\ Len(u) = m + n /\ m \in Nat /\ n \in Nat
      /\ \A i \in 1 .. m + n : u[i] = IF i <= m THEN s[i] ELSE t[i - m]
      /\ DOMAIN u = 1 .. m + n /\ DOMAIN s = 1 .. m /\ DOMAIN t = 1 .. n
  BY ConcatProperties, LenProperties
<1> HIDE DEF u, m, n
<1>2. ASSUME NEW i \in 1 .. m + n
      PROVE  (i \in 1 .. m /\ u[i] = s[i]) \/ (i - m \in 1 .. n /\ u[i] = t[i - m])
  <2>1. u[i] = IF i <= m THEN s[i] ELSE t[i - m]
    BY <1>1
  <2>2. i <= m => i \in 1 .. m
    BY <1>1
  <2>3. ~(i <= m) => i - m \in 1 .. n
    BY <1>1
  <2>4. QED
    BY <2>1, <2>2, <2>3
<1>3. ASSUME NEW i \in 1 .. m PROVE i \in 1 .. m + n /\ u[i] = s[i]
  <2>1. i \in 1 .. m + n /\ i <= m
    BY <1>1
  <2>2. QED
    BY <1>1, <2>1
<1>4. ASSUME NEW i \in 1 .. n PROVE m + i \in 1 .. m + n /\ u[m + i] = t[i]
  <2>1. m + i \in 1 .. m + n /\ ~(m + i <= m) /\ (m + i) - m = i
    BY <1>1
  <2>2. u[m + i] = IF m + i <= m THEN s[m + i] ELSE t[(m + i) - m]
    BY <1>1, <2>1
  <2>3. QED
    BY <2>1, <2>2
<1>5. Ids(u) = Ids(s) \cup Ids(t)
  <2>1. ASSUME NEW x \in Ids(u) PROVE x \in Ids(s) \cup Ids(t)
    <3>1. PICK i \in 1 .. m + n : x = u[i].id
      BY <1>1 DEF Ids
    <3>2. QED
      BY <1>1, <1>2, <3>1 DEF Ids
  <2>2. ASSUME NEW x \in Ids(s) PROVE x \in Ids(u)
    BY <1>1, <1>3, <2>2 DEF Ids
  <2>3. ASSUME NEW x \in Ids(t) PROVE x \in Ids(u)
    <3>1. PICK i \in 1 .. n : x = t[i].id
      BY <1>1, <2>3 DEF Ids
    <3>2. m + i \in DOMAIN u /\ u[m + i].id = x
      BY <1>1, <1>4, <3>1
    <3>3. QED
      BY <3>2 DEF Ids
  <2>4. QED
    BY <2>1, <2>2, <2>3
<1>6. UserIds(u) = UserIds(s) \cup UserIds(t)
  <2>1. ASSUME NEW x \in UserIds(u) PROVE x \in UserIds(s) \cup UserIds(t)
    <3>1. PICK i \in 1 .. m + n : x = u[i].id /\ u[i].kind = "user"
      BY <1>1 DEF UserIds
    <3>2. QED
      BY <1>1, <1>2, <3>1 DEF UserIds
  <2>2. ASSUME NEW x \in UserIds(s) PROVE x \in UserIds(u)
    <3>1. PICK i \in 1 .. m : x = s[i].id /\ s[i].kind = "user"
      BY <1>1 DEF UserIds
    <3>2. QED
      BY <1>1, <1>3, <3>1 DEF UserIds
  <2>3. ASSUME NEW x \in UserIds(t) PROVE x \in UserIds(u)
    <3>1. PICK i \in 1 .. n : x = t[i].id /\ t[i].kind = "user"
      BY <1>1 DEF UserIds
    <3>2. QED
      BY <1>1, <1>4, <3>1 DEF UserIds
  <2>4. QED
    BY <2>1, <2>2, <2>3
<1>7. ASSUME DistinctIds(s), DistinctIds(t), Ids(s) \cap Ids(t) = {} PROVE DistinctIds(u)
  <2>1. SUFFICES ASSUME NEW i \in 1 .. m + n, NEW j \in 1 .. m + n, u[i].id = u[j].id PROVE i = j
    BY <1>1 DEF DistinctIds
  <2>2. /\ \A k, l \in 1 .. m : s[k].id = s[l].id => k = l
        /\ \A k, l \in 1 .. n : t[k].id = t[l].id => k = l
        /\ \A k \in 1 .. m : \A l \in 1 .. n : s[k].id # t[l].id
    <3>1. /\ \A k, l \in 1 .. m : s[k].id = s[l].id => k = l
          /\ \A k, l \in 1 .. n : t[k].id = t[l].id => k = l
      BY <1>7 DEF DistinctIds, m, n
    <3>2. \A k \in 1 .. m : s[k].id \in Ids(s)
      BY <1>1 DEF Ids
    <3>3. \A l \in 1 .. n : t[l].id \in Ids(t)
      BY <1>1 DEF Ids
    <3>4. QED
      BY <1>7, <3>1, <3>2, <3>3
  <2>3. CASE i \in 1 .. m /\ u[i] = s[i]
    BY <1>2, <2>1, <2>2, <2>3
  <2>4. CASE i - m \in 1 .. n /\ u[i] = t[i - m]
    <3>1. j - m \in 1 .. n /\ u[j] = t[j - m]
      BY <1>2, <2>1, <2>2, <2>4
    <3>2. i - m = j - m
      BY <2>1, <2>2, <2>4, <3>1
    <3>3. QED
      BY <1>1, <3>2
  <2>5. QED
    BY <1>2, <2>3, <2>4
<1>8. QED
  BY <1>1, <1>2, <1>3, <1>4, <1>5, <1>6, <1>7 DEF u, m, n

LEMMA OnePlace ==
  ASSUME NEW m \in Entry
  PROVE  /\ <<m>> \in Seq(Entry) /\ Ids(<<m>>) = {m.id} /\ DistinctIds(<<m>>) /\ Len(<<m>>) = 1 /\ <<m>>[1] = m
         /\ UserIds(<<m>>) = IF m.kind = "user" THEN {m.id} ELSE {}
<1>1. DOMAIN <<m>> = {1} /\ Len(<<m>>) = 1 /\ <<m>>[1] = m /\ <<m>> \in Seq(Entry)
  OBVIOUS
<1>2. QED
  BY <1>1 DEF Ids, UserIds, DistinctIds

LEMMA AddedPlaces ==
  ASSUME NEW s \in Seq(Entry), NEW m \in Entry
  PROVE  /\ Append(s, m) \in Seq(Entry) /\ Ids(Append(s, m)) = Ids(s) \cup {m.id}
         /\ UserIds(Append(s, m)) = IF m.kind = "user" THEN UserIds(s) \cup {m.id} ELSE UserIds(s)
         /\ DistinctIds(s) /\ m.id \notin Ids(s) => DistinctIds(Append(s, m))
         /\ \A i \in 1 .. Len(Append(s, m)) :
              \/ i \in 1 .. Len(s) /\ Append(s, m)[i] = s[i]
              \/ i = Len(s) + 1 /\ Append(s, m)[i] = m
         /\ \A i \in 1 .. Len(s) : i \in 1 .. Len(Append(s, m)) /\ Append(s, m)[i] = s[i]
         /\ Len(s) + 1 \in 1 .. Len(Append(s, m)) /\ Append(s, m)[Len(s) + 1] = m
         /\ Len(Append(s, m)) = Len(s) + 1 /\ Len(s) \in Nat
<1> DEFINE t == <<m>>
<1>1. Append(s, m) = s \o t
  BY AppendIsConcat
<1>t. /\ t \in Seq(Entry) /\ Ids(t) = {m.id} /\ DistinctIds(t)
      /\ UserIds(t) = IF m.kind = "user" THEN {m.id} ELSE {}
  BY OnePlace
<1> HIDE DEF t
<1>2. /\ Append(s, m) \in Seq(Entry) /\ Len(Append(s, m)) = Len(s) + 1 /\ Len(s) \in Nat
      /\ \A i \in 1 .. Len(s) : Append(s, m)[i] = s[i]
      /\ Append(s, m)[Len(s) + 1] = m
  BY AppendProperties, LenProperties
<1>3. Ids(Append(s, m)) = Ids(s) \cup {m.id}
      /\ UserIds(Append(s, m)) = IF m.kind = "user" THEN UserIds(s) \cup {m.id} ELSE UserIds(s)
  <2>1. Ids(s \o t) = Ids(s) \cup {m.id}
        /\ UserIds(s \o t) = UserIds(s) \cup (IF m.kind = "user" THEN {m.id} ELSE {})
    BY <1>t, ConcatPlaces
  <2>2. QED
    BY <1>1, <2>1
<1>4. DistinctIds(s) /\ m.id \notin Ids(s) => DistinctIds(Append(s, m))
  <2>1. m.id \notin Ids(s) => Ids(s) \cap Ids(t) = {}
    BY <1>t
  <2>2. QED
    BY <1>1, <1>t, <2>1, ConcatPlaces
<1>5. \A i \in 1 .. Len(s) + 1 : i \in 1 .. Len(s) \/ i = Len(s) + 1
  BY <1>2
<1>6. \A i \in 1 .. Len(s) : i \in 1 .. Len(s) + 1
  BY <1>2
<1>7. Len(s) + 1 \in 1 .. Len(s) + 1
  BY <1>2
<1>8. QED
  BY <1>2, <1>3, <1>4, <1>5, <1>6, <1>7

LEMMA Apartness ==
  ASSUME Apart
  PROVE  \A b, c \in Places : \A x : b # c /\ x \in In(b) => x \notin In(c)
  BY DEF Apart

\* What follows a run, or a compaction, takes at most one message from a queue, adds at
\* most a compaction to the path, and saves what waited or leaves it.
GoesOn(path, flushed) ==
  /\ run.pending = <<>> /\ Taken
  /\ \/ path = branch /\ UNCHANGED nextId
     \/ /\ \E e \in Entry : e.kind = "compaction" /\ e.id = nextId /\ path = Append(branch, e)
        /\ nextId' = nextId + 1
  /\ \/ flushed = <<>> /\ UNCHANGED pendingBash
     \/ flushed = pendingBash /\ pendingBash' = <<>>
  /\ branch' = path \o flushed
  /\ \A i \in 1 .. Len(context') :
       \/ \E j \in 1 .. Len(context) : context'[i] = context[j]
       \/ \E j \in 1 .. Len(branch') : context'[i] = branch'[j]
  /\ In("early")' = In("early")
  /\ UNCHANGED <<displayed, cleared, unheard>> /\ used'.texts = used.texts

\* What a run takes from the queues comes from one of them.
LEMMA TakenPlaces ==
  ASSUME TypeInv, PlacesFit, run.pending = <<>>, Taken
  PROVE  /\ Distinct(steering') /\ Distinct(followUp') /\ Distinct(run'.pending)
         /\ Range(run'.pending) \subseteq Range(steering) \cup Range(followUp)
         /\ Range(steering') = Range(steering) \ Range(run'.pending)
         /\ Range(followUp') = Range(followUp) \ Range(run'.pending)
<1>0. steering \in Seq(Nat) /\ followUp \in Seq(Nat) /\ Distinct(steering) /\ Distinct(followUp)
  BY DEF TypeInv, PlacesFit
<1>a. \A x : ~(x \in Range(steering) /\ x \in Range(followUp))
  BY InFacts, Apartness DEF PlacesFit, Places
<1>1. CASE run'.pending = <<>> /\ UNCHANGED <<steering, followUp>>
  BY <1>0, <1>1, EmptyPlaces
<1>2. CASE steering # <<>> /\ run'.pending = <<Head(steering)>> /\ steering' = Tail(steering) /\ UNCHANGED followUp
  <2>1. /\ Head(steering) \in Range(steering) /\ Distinct(steering')
        /\ Range(steering') = Range(steering) \ {Head(steering)}
    BY <1>0, <1>2, TailPlaces
  <2>2. Range(run'.pending) = {Head(steering)} /\ Distinct(run'.pending)
    BY <1>2, SinglePlace
  <2>3. QED
    BY <1>0, <1>a, <1>2, <2>1, <2>2
<1>3. CASE followUp # <<>> /\ run'.pending = <<Head(followUp)>> /\ followUp' = Tail(followUp) /\ UNCHANGED steering
  <2>1. /\ Head(followUp) \in Range(followUp) /\ Distinct(followUp')
        /\ Range(followUp') = Range(followUp) \ {Head(followUp)}
    BY <1>0, <1>3, TailPlaces
  <2>2. Range(run'.pending) = {Head(followUp)} /\ Distinct(run'.pending)
    BY <1>3, SinglePlace
  <2>3. QED
    BY <1>0, <1>a, <1>3, <2>1, <2>2
<1>4. QED
  BY <1>1, <1>2, <1>3 DEF Taken

LEMMA GoesOnPlaces ==
  ASSUME TypeInv, PlaceInv, NEW path, NEW flushed, GoesOn(path, flushed)
  PROVE  PlaceInv'
<1> DEFINE fresh == IF path = branch THEN {} ELSE {nextId}
           X1 == fresh \cup Ids(flushed)
           X2 == Range(run'.pending)
<1>0. /\ branch \in Seq(Entry) /\ pendingBash \in Seq(Entry) /\ nextId \in Nat \ {0} /\ <<>> \in Seq(Entry)
      /\ run.pending = <<>> /\ Range(run.pending) = {}
  BY EmptyPlaces, EmptySeq DEF TypeInv, GoesOn
<1>t. /\ Distinct(steering') /\ Distinct(followUp') /\ Distinct(run'.pending)
      /\ X2 \subseteq Range(steering) \cup Range(followUp)
      /\ Range(steering') = Range(steering) \ X2
      /\ Range(followUp') = Range(followUp) \ X2
  BY TakenPlaces DEF GoesOn, PlaceInv
<1>l. \A c \in Places : \A x \in In(c) : x \in 1 .. (nextId - 1) /\ x # nextId /\ x \in 1 .. nextId
  <2>1. \A c \in Places : \A x \in In(c) : x \in 1 .. (nextId - 1)
    BY DEF PlaceInv, PlacesFit
  <2>2. \A x \in 1 .. (nextId - 1) : x # nextId /\ x \in 1 .. nextId
    BY <1>0
  <2>3. QED
    BY <2>1, <2>2
<1>p. /\ path \in Seq(Entry) /\ Ids(path) = Ids(branch) \cup fresh /\ DistinctIds(path)
      /\ UserIds(path) = UserIds(branch)
      /\ \A i \in 1 .. Len(branch) : i \in 1 .. Len(path) /\ path[i] = branch[i]
      /\ IF fresh = {} THEN nextId' = nextId ELSE fresh = {nextId} /\ nextId' = nextId + 1
  <2>1. CASE path = branch /\ UNCHANGED nextId
    BY <1>0, <2>1 DEF PlaceInv, PlacesFit
  <2>2. ASSUME NEW e \in Entry, e.kind = "compaction", e.id = nextId, path = Append(branch, e), nextId' = nextId + 1
        PROVE  /\ path \in Seq(Entry) /\ Ids(path) = Ids(branch) \cup fresh /\ DistinctIds(path)
               /\ UserIds(path) = UserIds(branch)
               /\ \A i \in 1 .. Len(branch) : i \in 1 .. Len(path) /\ path[i] = branch[i]
               /\ IF fresh = {} THEN nextId' = nextId ELSE fresh = {nextId} /\ nextId' = nextId + 1
    <3>1. nextId \notin Ids(branch)
      BY <1>l, InFacts DEF Places
    <3>2. Len(path) # Len(branch)
      <4>1. Len(Append(branch, e)) = Len(branch) + 1 /\ Len(branch) \in Nat
        BY <1>0, AddedPlaces
      <4>2. QED
        BY <2>2, <4>1
    <3>3. fresh = {nextId}
      BY <3>2
    <3>4. DistinctIds(branch)
      BY DEF PlaceInv, PlacesFit
    <3>5. QED
      BY <1>0, <2>2, <3>1, <3>3, <3>4, AddedPlaces
  <2>3. QED
    BY <2>1, <2>2 DEF GoesOn
<1> HIDE DEF fresh
<1>f. /\ flushed \in Seq(Entry) /\ DistinctIds(flushed) /\ Ids(flushed) \subseteq Ids(pendingBash)
      /\ Ids(pendingBash') = Ids(pendingBash) \ Ids(flushed) /\ DistinctIds(pendingBash')
      /\ UserIds(flushed) = {}
      /\ \A i \in 1 .. Len(pendingBash') : pendingBash'[i].kind = "bash"
  <2>1. UserIds(pendingBash) = {} /\ \A i \in 1 .. Len(pendingBash) : pendingBash[i].kind = "bash"
    <3>1. \A i \in 1 .. Len(pendingBash) : pendingBash[i].kind = "bash"
      BY DEF PlaceInv, PlacesFit
    <3>2. DOMAIN pendingBash = 1 .. Len(pendingBash)
      BY <1>0
    <3>3. QED
      BY <3>1, <3>2 DEF UserIds
  <2>2. DistinctIds(pendingBash)
    BY DEF PlaceInv, PlacesFit
  <2>3. CASE flushed = <<>> /\ UNCHANGED pendingBash
    BY <1>0, <2>1, <2>2, <2>3, EmptyPlaces
  <2>4. CASE flushed = pendingBash /\ pendingBash' = <<>>
    <3>1. Len(pendingBash') = 0 /\ Ids(pendingBash') = {} /\ DistinctIds(pendingBash')
      BY <2>4, EmptyPlaces
    <3>2. QED
      BY <1>0, <2>1, <2>2, <2>4, <3>1
  <2>5. QED
    BY <2>3, <2>4 DEF GoesOn
<1>a. \A b, c \in Places : \A x : b # c /\ x \in In(b) => x \notin In(c)
  BY Apartness DEF PlaceInv, PlacesFit
<1>b. /\ branch' = path \o flushed /\ Ids(branch') = Ids(branch) \cup X1 /\ DistinctIds(branch')
      /\ UserIds(branch') = UserIds(branch)
      /\ \A i \in 1 .. Len(branch) : i \in 1 .. Len(branch') /\ branch'[i] = branch[i]
  <2>1. branch' = path \o flushed
    BY DEF GoesOn
  <2>2. Ids(path) \cap Ids(flushed) = {}
    <3>1. SUFFICES ASSUME NEW x \in Ids(flushed), x \in Ids(path) PROVE FALSE
      OBVIOUS
    <3>2. x \in In("bash")
      BY <1>f, InFacts
    <3>3. x \notin Ids(branch) /\ x # nextId
      BY <1>a, <1>l, <3>2, InFacts DEF Places
    <3>4. QED
      BY <1>p, <3>1, <3>3
  <2>3. /\ Ids(branch') = Ids(path) \cup Ids(flushed) /\ DistinctIds(branch')
        /\ UserIds(branch') = UserIds(path) \cup UserIds(flushed)
        /\ \A i \in 1 .. Len(path) : i \in 1 .. Len(branch') /\ branch'[i] = path[i]
    <3>1. path \in Seq(Entry) /\ flushed \in Seq(Entry) /\ DistinctIds(path) /\ DistinctIds(flushed)
      BY <1>p, <1>f
    <3>2. /\ Ids(path \o flushed) = Ids(path) \cup Ids(flushed)
          /\ UserIds(path \o flushed) = UserIds(path) \cup UserIds(flushed)
          /\ \A i \in 1 .. Len(path) : i \in 1 .. Len(path \o flushed) /\ (path \o flushed)[i] = path[i]
      BY <3>1, ConcatPlaces
    <3>3. DistinctIds(path \o flushed)
      BY <2>2, <3>1, ConcatPlaces
    <3>4. QED
      BY <2>1, <3>2, <3>3
  <2>4. QED
    BY <1>p, <1>f, <2>1, <2>3
<1>u. /\ In("cleared")' = In("cleared") /\ In("lost")' = In("lost") /\ In("early")' = In("early")
      /\ In("steering")' = In("steering") \ X2 /\ In("followUp")' = In("followUp") \ X2
      /\ In("pending")' = X2 /\ In("branch")' = In("branch") \cup X1 /\ In("bash")' = In("bash") \ Ids(flushed)
      /\ X2 \subseteq In("steering") \cup In("followUp") /\ Ids(flushed) \subseteq In("bash")
      /\ X1 = fresh \cup Ids(flushed) /\ fresh \subseteq {nextId}
      /\ In("pending") = {}
  <2>1. UNCHANGED <<cleared, unheard>> /\ In("early")' = In("early")
    BY DEF GoesOn
  <2>2. In("cleared")' = In("cleared") /\ In("lost")' = In("lost")
    BY <2>1, InFacts
  <2>3. QED
    BY <1>0, <1>t, <1>b, <1>f, <1>p, <2>1, <2>2, InFacts
<1> HIDE DEF X1, X2
<1>2. Apart'
  <2>1. X1 \cap X2 = {} /\ X1 \cap In("pending") = {} /\ X2 \cap In("branch") = {}
    BY <1>u, <1>a, <1>l DEF Places
  <2>2. \A c \in Places \ {"branch", "pending"} : In(c)' \subseteq In(c) \ (X1 \cup X2)
    <3>1. ASSUME NEW c \in {"cleared", "lost", "early"} PROVE In(c)' \subseteq In(c) \ (X1 \cup X2)
      <4>1. In(c)' = In(c) /\ c \in Places
        BY <1>u, <3>1 DEF Places
      <4>2. QED
        BY <1>u, <1>a, <1>l, <3>1, <4>1 DEF Places
    <3>2. ASSUME NEW c \in {"steering", "followUp"} PROVE In(c)' \subseteq In(c) \ (X1 \cup X2)
      <4>1. In(c)' = In(c) \ X2 /\ c \in Places
        BY <1>u, <3>2 DEF Places
      <4>2. QED
        BY <1>u, <1>a, <1>l, <3>2, <4>1 DEF Places
    <3>3. In("bash")' \subseteq In("bash") \ (X1 \cup X2)
      BY <1>u, <1>a, <1>l DEF Places
    <3>4. QED
      BY <3>1, <3>2, <3>3 DEF Places
  <2>3. "branch" \in Places /\ "pending" \in Places
    BY DEF Places
  <2>4. Apart
    BY DEF PlaceInv, PlacesFit
  <2>5. QED
    <3>1. In("branch")' \subseteq In("branch") \cup X1 /\ In("pending")' \subseteq In("pending") \cup X2
          /\ "branch" # "pending"
      BY <1>u
    <3>2. QED
      BY <2>1, <2>2, <2>3, <2>4, <3>1, Moved
<1>3. \A c \in Places : In(c)' \subseteq 1 .. (nextId' - 1)
  <2>1. ASSUME NEW c \in Places, NEW x \in In(c)'
        PROVE  (\E d \in Places : x \in In(d)) \/ (x = nextId /\ nextId' = nextId + 1)
    <3>1. CASE c \in {"cleared", "lost", "early", "steering", "followUp", "bash"}
      BY <1>u, <2>1, <3>1 DEF Places
    <3>2. CASE c = "pending"
      BY <1>u, <2>1, <3>2 DEF Places
    <3>3. CASE c = "branch"
      BY <1>u, <1>p, <2>1, <3>3 DEF Places
    <3>4. QED
      BY <3>1, <3>2, <3>3 DEF Places
  <2>2. \A x \in 1 .. (nextId - 1) : x \in 1 .. (nextId' - 1)
    BY <1>0, <1>p
  <2>3. nextId' = nextId + 1 => nextId \in 1 .. (nextId' - 1)
    BY <1>0
  <2>4. QED
    BY <1>l, <2>1, <2>2, <2>3
<1>4. \A i \in 1 .. Len(context') : context'[i] \in unheard' \/ \E j \in 1 .. Len(branch') : context'[i] = branch'[j]
  <2>1. \A i \in 1 .. Len(context) : context[i] \in unheard \/ \E j \in 1 .. Len(branch) : context[i] = branch[j]
    BY DEF PlaceInv, PlacesFit
  <2>2. \A i \in 1 .. Len(context') :
          \/ \E j \in 1 .. Len(context) : context'[i] = context[j]
          \/ \E j \in 1 .. Len(branch') : context'[i] = branch'[j]
    BY DEF GoesOn
  <2>3. UNCHANGED unheard
    BY DEF GoesOn
  <2>4. QED
    BY <1>b, <2>1, <2>2, <2>3
<1>5. Told' = Told /\ used'.texts = used.texts
  <2>1. {m.id : m \in {n \in unheard : n.kind = "user"}}' = {m.id : m \in {n \in unheard : n.kind = "user"}}
        /\ cleared' = cleared /\ used'.texts = used.texts /\ {text[p] : p \in Early}' = {text[p] : p \in Early}
    BY InFacts DEF GoesOn
  <2>2. Range(steering') \cup Range(followUp') \cup Range(run'.pending) = Range(steering) \cup Range(followUp) \cup Range(run.pending)
    BY <1>0, <1>t DEF X2
  <2>3. QED
    BY <1>b, <2>1, <2>2 DEF Told
<1>6. PlacesFit'
  BY <1>t, <1>b, <1>f, <1>2, <1>3, <1>4, <1>5 DEF PlaceInv, PlacesFit
<1>7. DisplayedIsQueued'
  <2>1. UNCHANGED <<displayed, unheard>>
    BY DEF GoesOn
  <2>2. QED
    BY <1>0, <1>t, <2>1 DEF PlaceInv, DisplayedIsQueued, X2
<1>8. QED
  BY <1>6, <1>7 DEF PlaceInv

LEMMA EarlyKept ==
  ASSUME UNCHANGED text, Early' = Early
  PROVE  In("early")' = In("early")
<1>1. {text[p] : p \in Early}' = {text'[p] : p \in Early'}
  OBVIOUS
<1>2. QED
  BY <1>1, InFacts

\* A call between or in runs has sent its message, and is the only one at work.
LEMMA NotEarly ==
  ASSUME FlowInv, NEW p \in Prompts, InRuns(p),
         \A q \in Prompts : q # p => prompt'[q] = prompt[q],
         \/ prompt'[p] \in {"running", "sleep", "cancelled", "settling"}
         \/ prompt'[p] \in {"authorizing", "summarizing"} /\ ~auto'.pre
  PROVE  Early = {} /\ Early' = {}
<1>1. AtWork(p) /\ prompt[p] # "preflight" /\ (Compacting(p) => ~auto.pre)
  BY DEF InRuns, AtWork, Compacting
<1>2. \A q \in Prompts : q # p => prompt[q] \notin {"preflight", "authorizing", "summarizing"}
  BY <1>1 DEF FlowInv, Control, OneAtWork, AtWork
<1>3. QED
  BY <1>1, <1>2 DEF Early, Compacting

\* The entries of ctx are of the context or of the path.
From(ctx, path) ==
  \A i \in 1 .. Len(ctx) :
    \/ \E j \in 1 .. Len(context) : ctx[i] = context[j]
    \/ \E j \in 1 .. Len(path) : ctx[i] = path[j]

LEMMA FromFront ==
  ASSUME NEW ctx \in Seq(Entry), NEW path, From(ctx, path)
  PROVE  From(WithoutLastAssistant(ctx), path) /\ From(RetryContext(ctx), path)
<1>1. ASSUME ctx # <<>> PROVE From(Front(ctx), path)
  <2>1. Len(Front(ctx)) = Len(ctx) - 1 /\ \A i \in 1 .. Len(ctx) - 1 : Front(ctx)[i] = ctx[i]
    BY <1>1, FrontFacts
  <2>2. Len(ctx) \in Nat
    OBVIOUS
  <2>3. \A i \in 1 .. Len(ctx) - 1 : i \in 1 .. Len(ctx)
    BY <2>2
  <2>4. QED
    BY <2>1, <2>3 DEF From
<1>2. QED
  BY <1>1 DEF WithoutLastAssistant, RetryContext

LEMMA FromContext == ASSUME NEW path PROVE From(context, path)
  BY DEF From

LEMMA FromPath == ASSUME NEW path \in Seq(Entry) PROVE From(ContextEntries(path), path)
  BY ContextFacts DEF From

\* A path that is the branch, or longer by the entry of a compaction.
Longer(path) ==
  \/ path = branch /\ UNCHANGED nextId
  \/ /\ \E e \in Entry : e.kind = "compaction" /\ e.id = nextId /\ path = Append(branch, e)
     /\ nextId' = nextId + 1

StayPlaces == UNCHANGED <<displayed, cleared, unheard>> /\ used'.texts = used.texts

LEMMA StartsPlaces ==
  ASSUME TypeInv, PlaceInv, run.pending = <<>>, NEW p \in Prompts, NEW path \in Seq(Entry), NEW ctx \in Seq(Entry),
         Longer(path), From(ctx, path), Taken, context' = ctx, branch' = path, UNCHANGED pendingBash,
         In("early")' = In("early"), StayPlaces
  PROVE  PlaceInv'
<1>1. branch' = path \o <<>>
  OBVIOUS
<1>2. GoesOn(path, <<>>)
  BY <1>1 DEF GoesOn, Longer, From, StayPlaces
<1>3. QED
  BY <1>2, GoesOnPlaces

LEMMA FinishPlaces ==
  ASSUME TypeInv, PlaceInv, run.pending = <<>>, NEW p \in Prompts, NEW path \in Seq(Entry), NEW ctx \in Seq(Entry),
         Longer(path), From(ctx, path), Finish(p, ctx, path), UNCHANGED <<steering, followUp>>,
         In("early")' = In("early"), StayPlaces
  PROVE  PlaceInv'
<1>1. branch' = path \o pendingBash /\ context' = ctx \o pendingBash /\ pendingBash' = <<>> /\ run'.pending = <<>>
  BY DEF Finish, FlushBash, SavedBash, NoRun
<1>2. pendingBash \in Seq(Entry)
  BY DEF TypeInv
<1>3. \A i \in 1 .. Len(context') :
        \/ \E j \in 1 .. Len(context) : context'[i] = context[j]
        \/ \E j \in 1 .. Len(branch') : context'[i] = branch'[j]
  <2>1. SUFFICES ASSUME NEW i \in 1 .. Len(context')
                 PROVE  \/ \E j \in 1 .. Len(context) : context'[i] = context[j]
                        \/ \E j \in 1 .. Len(branch') : context'[i] = branch'[j]
    OBVIOUS
  <2>2. CASE i \in 1 .. Len(ctx) /\ context'[i] = ctx[i]
    <3>1. \A j \in 1 .. Len(path) : j \in 1 .. Len(branch') /\ branch'[j] = path[j]
      BY <1>1, <1>2, ConcatPlaces
    <3>2. QED
      BY <2>2, <3>1 DEF From
  <2>3. CASE i - Len(ctx) \in 1 .. Len(pendingBash) /\ context'[i] = pendingBash[i - Len(ctx)]
    <3>1. \A j \in 1 .. Len(pendingBash) :
            Len(path) + j \in 1 .. Len(branch') /\ branch'[Len(path) + j] = pendingBash[j]
      BY <1>1, <1>2, ConcatPlaces
    <3>2. QED
      BY <2>3, <3>1
  <2>4. QED
    BY <1>1, <1>2, <2>2, <2>3, ConcatPlaces
<1>4. GoesOn(path, pendingBash)
  BY <1>1, <1>3 DEF GoesOn, Longer, StayPlaces, Taken
<1>5. QED
  BY <1>4, GoesOnPlaces

LEMMA TurnBeginsPlaces ==
  ASSUME FlowInv, PlaceInv, TurnBegins
  PROVE  PlaceInv'
<1>1. run.pending = <<>> /\ TypeInv /\ context \in Seq(Entry) /\ branch \in Seq(Entry) /\ run \in Runs
      /\ steering \in Seq(Nat) /\ <<>> \in Seq(Nat)
  BY EmptySeq DEF TurnBegins, FlowInv, TypeInv
<1>2. Taken
  <2>1. CASE steering # <<>> /\ ~run.skip
    <3>1. run'.pending = <<Head(steering)>> /\ steering' = Tail(steering) /\ UNCHANGED followUp
      BY <1>1, <2>1, QueueFacts, RequestsFacts DEF TurnBegins, AfterFirst
    <3>2. QED
      BY <2>1, <3>1 DEF Taken
  <2>2. CASE ~(steering # <<>> /\ ~run.skip)
    <3>1. run'.pending = <<>> /\ UNCHANGED <<steering, followUp>>
      BY <1>1, <2>2, RequestsFacts, EndsFacts DEF TurnBegins
    <3>2. QED
      BY <3>1 DEF Taken
  <2>3. QED
    BY <2>1, <2>2
<1>3. UNCHANGED <<context, branch, unheard, displayed, cleared, pendingBash, nextId, text, prompt, auto, used>>
  BY DEF TurnBegins, log, calls, ids
<1>4. In("early")' = In("early")
  BY <1>3, EarlyKept DEF Early, Compacting
<1>5. \E p \in Prompts : TRUE
  BY <1>1, RunIsActive DEF TurnBegins
<1>6. QED
  BY <1>1, <1>2, <1>3, <1>4, <1>5, FromContext, StartsPlaces DEF Longer, StayPlaces

LEMMA TurnEndsPlaces ==
  ASSUME FlowInv, PlaceInv, TurnEnds
  PROVE  PlaceInv'
<1>1. run.pending = <<>> /\ TypeInv /\ context \in Seq(Entry) /\ branch \in Seq(Entry) /\ run \in Runs
      /\ steering \in Seq(Nat) /\ followUp \in Seq(Nat)
  BY DEF TurnEnds, FlowInv, TypeInv, Control, RunFits
<1>2. Taken
  <2>1. CASE steering # <<>>
    <3>1. run'.pending = <<Head(steering)>> /\ steering' = Tail(steering) /\ UNCHANGED followUp
      BY <1>1, <2>1, QueueFacts, RequestsFacts DEF TurnEnds, AfterFirst
    <3>2. QED
      BY <2>1, <3>1 DEF Taken
  <2>2. CASE steering = <<>> /\ followUp # <<>>
    <3>1. run'.pending = <<Head(followUp)>> /\ followUp' = Tail(followUp) /\ UNCHANGED steering
      BY <1>1, <2>2, QueueFacts, RequestsFacts DEF TurnEnds, AfterFirst
    <3>2. QED
      BY <2>2, <3>1 DEF Taken
  <2>3. CASE steering = <<>> /\ followUp = <<>>
    <3>1. run'.pending = run.pending /\ UNCHANGED <<steering, followUp>>
      BY <1>1, <2>3 DEF TurnEnds, Ends, Runs
    <3>2. QED
      BY <1>1, <3>1 DEF Taken
  <2>4. QED
    BY <2>1, <2>2, <2>3
<1>3. UNCHANGED <<context, branch, unheard, displayed, cleared, pendingBash, nextId, text, prompt, auto, used>>
  BY DEF TurnEnds, log, calls, ids
<1>4. In("early")' = In("early")
  BY <1>3, EarlyKept DEF Early, Compacting
<1>5. \E p \in Prompts : TRUE
  BY <1>1, RunIsActive DEF TurnEnds
<1>6. QED
  BY <1>1, <1>2, <1>3, <1>4, <1>5, FromContext, StartsPlaces DEF Longer, StayPlaces

LEMMA RunEndsPlaces ==
  ASSUME FlowInv, PlaceInv, NEW p \in Prompts, RunEnds(p)
  PROVE  PlaceInv'
<1>1. RunEndsCases(p) /\ Rest /\ InRuns(p) /\ auto = None /\ UNCHANGED nextId
  BY RunEndsOutcome
<1>2. /\ context \in Seq(Entry) /\ branch \in Seq(Entry) /\ TypeInv /\ prompt \in [Prompts -> Steps]
      /\ run.pending = <<>>
  BY <1>1 DEF FlowInv, TypeInv, RunEndsCases, Control, RunFits
<1>3. StayPlaces /\ UNCHANGED text
  BY <1>1 DEF Rest, StayPlaces
<1>4. Longer(branch)
  BY <1>1 DEF Longer
<1>5. \A step : At(p, step) => prompt'[p] = step /\ \A q \in Prompts : q # p => prompt'[q] = prompt[q]
  BY <1>2 DEF At
<1>6. ASSUME Early' = {} /\ Early = {} PROVE In("early")' = In("early")
  BY <1>3, <1>6, EarlyKept
<1>7. CASE Finish(p, context, branch) /\ UNCHANGED <<steering, followUp>>
  <2>1. Early' = {} /\ Early = {}
    BY <1>1, <1>5, <1>7, NotEarly DEF Finish
  <2>2. QED
    BY <1>2, <1>3, <1>4, <1>6, <1>7, <2>1, FromContext, FinishPlaces
<1>8. CASE Starts(p, context, branch)
  <2>1. Early' = {} /\ Early = {}
    BY <1>1, <1>5, <1>8, NotEarly DEF Starts
  <2>2. QED
    BY <1>2, <1>3, <1>4, <1>6, <1>8, <2>1, FromContext, StartsPlaces DEF Starts
<1>9. CASE /\ At(p, "sleep") \/ (At(p, "authorizing") /\ ~auto'.pre)
           /\ run' = NoRun /\ context' \in {context, WithoutLastAssistant(context)}
           /\ UNCHANGED <<branch, pendingBash, steering, followUp>>
  <2>1. Early' = {} /\ Early = {}
    BY <1>1, <1>5, <1>9, NotEarly
  <2>2. Taken
    BY <1>9 DEF Taken, NoRun
  <2>3. From(context', branch) /\ context' \in Seq(Entry)
    <3>1. From(context, branch)
      BY FromContext
    <3>2. From(WithoutLastAssistant(context), branch) /\ WithoutLastAssistant(context) \in Seq(Entry)
      BY <1>2, <3>1, FromFront, WithoutFacts
    <3>3. CASE context' = context
      BY <1>2, <3>1, <3>3
    <3>4. CASE context' = WithoutLastAssistant(context)
      BY <3>2, <3>4
    <3>5. QED
      BY <1>9, <3>3, <3>4
  <2>4. QED
    BY <1>2, <1>3, <1>4, <1>6, <1>9, <2>1, <2>2, <2>3, StartsPlaces
<1>10. QED
  BY <1>1, <1>7, <1>8, <1>9 DEF RunEndsCases, Stops

LEMMA RetryBeginsPlaces ==
  ASSUME FlowInv, PlaceInv, NEW p \in Prompts, RetryBegins(p)
  PROVE  PlaceInv'
<1>1. /\ Starts(p, context, branch) \/ Stops(p, context, branch)
      /\ InRuns(p) /\ Rest /\ run.phase = "none" /\ UNCHANGED nextId
  BY RetryBeginsOutcome
<1>2. /\ context \in Seq(Entry) /\ branch \in Seq(Entry) /\ TypeInv /\ prompt \in [Prompts -> Steps]
      /\ run.pending = <<>> /\ StayPlaces /\ UNCHANGED text /\ Longer(branch)
  BY <1>1 DEF FlowInv, TypeInv, Control, RunFits, Rest, StayPlaces, Longer
<1>3. Early' = {} /\ Early = {}
  <2>1. At(p, "running") \/ At(p, "settling")
    BY <1>1 DEF Starts, Stops, Finish
  <2>2. QED
    BY <1>1, <1>2, <2>1, NotEarly DEF At
<1>4. In("early")' = In("early")
  BY <1>2, <1>3, EarlyKept
<1>5. CASE Starts(p, context, branch)
  BY <1>2, <1>4, <1>5, FromContext, StartsPlaces DEF Starts
<1>6. CASE Stops(p, context, branch)
  BY <1>2, <1>4, <1>6, FromContext, FinishPlaces DEF Stops
<1>7. QED
  BY <1>1, <1>5, <1>6

LEMMA RetryCancelledPlaces ==
  ASSUME FlowInv, PlaceInv, NEW p \in Prompts, RetryCancelled(p)
  PROVE  PlaceInv'
<1>1. /\ \/ Starts(p, context, branch) \/ Stops(p, context, branch)
         \/ /\ At(p, "authorizing") /\ ~auto'.pre
            /\ UNCHANGED <<context, branch, run, pendingBash, steering, followUp>>
      /\ InRuns(p) /\ Rest /\ run.phase = "none" /\ UNCHANGED nextId
  BY RetryCancelledOutcome
<1>2. /\ context \in Seq(Entry) /\ branch \in Seq(Entry) /\ TypeInv /\ prompt \in [Prompts -> Steps]
      /\ run.pending = <<>> /\ StayPlaces /\ UNCHANGED text /\ Longer(branch)
  BY <1>1 DEF FlowInv, TypeInv, Control, RunFits, Rest, StayPlaces, Longer
<1>3. Early' = {} /\ Early = {}
  <2>1. At(p, "running") \/ At(p, "settling") \/ (At(p, "authorizing") /\ ~auto'.pre)
    BY <1>1 DEF Starts, Stops, Finish
  <2>2. QED
    BY <1>1, <1>2, <2>1, NotEarly DEF At
<1>4. In("early")' = In("early")
  BY <1>2, <1>3, EarlyKept
<1>5. CASE Starts(p, context, branch)
  BY <1>2, <1>4, <1>5, FromContext, StartsPlaces DEF Starts
<1>6. CASE Stops(p, context, branch)
  BY <1>2, <1>4, <1>6, FromContext, FinishPlaces DEF Stops
<1>7. CASE UNCHANGED <<context, branch, run, pendingBash, steering, followUp>>
  <2>1. Taken
    BY <1>2, <1>7 DEF Taken
  <2>2. QED
    BY <1>2, <1>4, <1>7, <2>1, FromContext, StartsPlaces
<1>8. QED
  BY <1>1, <1>5, <1>6, <1>7

LEMMA ResumesPlaces ==
  ASSUME FlowInv, PlaceInv, NEW p \in Prompts, Compacting(p), run.phase = "none",
         NEW path \in Seq(Entry), NEW ctx \in Seq(Entry), ResumesCases(p, ctx, path),
         Longer(path), From(ctx, path), StayPlaces, UNCHANGED text
  PROVE  PlaceInv'
<1>1. /\ TypeInv /\ prompt \in [Prompts -> Steps] /\ run.pending = <<>>
  BY DEF FlowInv, TypeInv, Control, RunFits
<1>5. \A step : At(p, step) => prompt'[p] = step /\ \A q \in Prompts : q # p => prompt'[q] = prompt[q]
  BY <1>1 DEF At
<1>6. \A q \in Prompts : q # p => prompt[q] \in {"idle", "settling"}
  <2>1. AtWork(p)
    BY DEF Compacting, AtWork
  <2>2. QED
    BY <2>1 DEF FlowInv, Control, OneAtWork, AtWork
<1>7. CASE /\ auto.pre /\ At(p, "preflight")
           /\ context' = ctx /\ branch' = path
           /\ UNCHANGED <<run, pendingBash, steering, followUp>>
  <2>1. Early = {p} /\ Early' = {p}
    BY <1>5, <1>6, <1>7 DEF Early, Compacting
  <2>2. Taken
    BY <1>1, <1>7 DEF Taken
  <2>3. In("early")' = In("early")
    BY <2>1, EarlyKept
  <2>4. QED
    BY <1>1, <1>7, <2>2, <2>3, StartsPlaces
<1>8. CASE InRuns(p) /\ Starts(p, ctx, path)
  <2>1. Early' = {} /\ Early = {}
    BY <1>5, <1>8, NotEarly DEF Starts
  <2>2. In("early")' = In("early")
    BY <2>1, EarlyKept
  <2>3. QED
    BY <1>1, <1>8, <2>2, StartsPlaces DEF Starts
<1>9. CASE InRuns(p) /\ Stops(p, ctx, path)
  <2>1. Early' = {} /\ Early = {}
    BY <1>5, <1>9, NotEarly DEF Stops, Finish
  <2>2. In("early")' = In("early")
    BY <2>1, EarlyKept
  <2>3. QED
    BY <1>1, <1>9, <2>2, FinishPlaces DEF Stops
<1>10. QED
  BY <1>7, <1>8, <1>9 DEF ResumesCases

LEMMA CompactionFailsPlaces ==
  ASSUME FlowInv, PlaceInv, NEW p \in Prompts, CompactionFails(p)
  PROVE  PlaceInv'
<1>1. ResumesCases(p, context, branch) /\ Compacting(p) /\ run.phase = "none"
  BY CompactionFailsOutcome
<1>2. StayPlaces /\ UNCHANGED <<text, nextId>> /\ context \in Seq(Entry) /\ branch \in Seq(Entry)
  BY DEF CompactionFails, ids, StayPlaces, FlowInv, TypeInv
<1>3. QED
  BY <1>1, <1>2, FromContext, ResumesPlaces DEF Longer

LEMMA CompactionDonePlaces ==
  ASSUME FlowInv, PlaceInv, NEW p \in Prompts, CompactionDone(p)
  PROVE  PlaceInv'
<1> DEFINE path == CompactedPath(auto.prep)
           ctx == IF auto.willRetry THEN RetryContext(ContextEntries(path)) ELSE ContextEntries(path)
<1>1. /\ ResumesCases(p, ctx, path) /\ Compacting(p) /\ run.phase = "none" /\ auto.prep \in Preparation
      /\ ctx \in Seq(Entry) /\ path \in Seq(Entry)
  BY CompactionDoneOutcome
<1>2. StayPlaces /\ UNCHANGED text /\ nextId' = nextId + 1
  BY DEF CompactionDone, NewId, StayPlaces
<1>3. Longer(path)
  BY <1>1, <1>2, CompactedFacts DEF Longer, FlowInv
<1>4. From(ctx, path)
  <2>1. From(ContextEntries(path), path) /\ ContextEntries(path) \in Seq(Entry)
    BY <1>1, FromPath, ContextFacts
  <2>2. QED
    BY <2>1, FromFront
<1> HIDE DEF ctx, path
<1>5. QED
  BY <1>1, <1>2, <1>3, <1>4, ResumesPlaces

LEMMA ManualDonePlaces ==
  ASSUME FlowInv, PlaceInv, ManualDone
  PROVE  PlaceInv'
<1> DEFINE path == CompactedPath(manualPrep)
<1>1. /\ UNCHANGED <<unheard, run, steering, followUp, displayed, cleared, text, prompt, auto, pendingBash, used>>
      /\ branch' = path /\ context' = ContextEntries(path) /\ nextId' = nextId + 1
  BY DEF ManualDone, queues, calls, NewId
<1>2. manualPrep \in Preparation /\ TypeInv /\ run.pending = <<>>
  BY ManualIsAlone DEF ManualDone, FlowInv, TypeInv, Control, ManualFits, RunFits
<1>3. path \in Seq(Entry) /\ Longer(path)
  BY <1>1, <1>2, CompactedFacts DEF Longer
<1> HIDE DEF path
<1>4. From(ContextEntries(path), path) /\ ContextEntries(path) \in Seq(Entry)
  BY <1>3, FromPath, ContextFacts
<1>5. Taken
  BY <1>1, <1>2 DEF Taken
<1>6. In("early")' = In("early")
  BY <1>1, EarlyKept DEF Early, Compacting
<1>7. GoesOn(path, <<>>)
  <2>1. branch' = path \o <<>>
    BY <1>1, <1>3
  <2>2. QED
    BY <1>1, <1>2, <1>3, <1>4, <1>5, <1>6, <2>1 DEF GoesOn, Longer, From
<1>8. QED
  BY <1>2, <1>7, GoesOnPlaces

LEMMA KeptPlaces ==
  ASSUME PlaceInv, run'.pending = run.pending, used'.texts = used.texts, Early' = Early,
         UNCHANGED <<steering, followUp, cleared, unheard, branch, pendingBash, displayed, nextId, context, text>>
  PROVE  PlaceInv'
<1>1. \A c \in Places : In(c)' = In(c)
  <2>1. In("early")' = In("early")
    BY EarlyKept
  <2>2. QED
    BY <2>1, InFacts DEF Places
<1>2. Apart' /\ \A c \in Places : In(c)' \subseteq 1 .. (nextId' - 1)
  BY <1>1 DEF PlaceInv, PlacesFit, Apart
<1>3. Told' = Told
  <2>1. {text[p] : p \in Early}' = {text[p] : p \in Early}
    BY <1>1, InFacts DEF Places
  <2>2. QED
    BY <2>1 DEF Told
<1>4. PlacesFit'
  BY <1>2, <1>3 DEF PlaceInv, PlacesFit, Distinct, DistinctIds
<1>5. DisplayedIsQueued'
  BY DEF PlaceInv, DisplayedIsQueued
<1>6. QED
  BY <1>4, <1>5 DEF PlaceInv

\* A message that is made is in one place.
LEMMA FreshPlace ==
  ASSUME TypeInv, PlacesFit, nextId' = nextId + 1, NEW b \in Places, In(b)' \subseteq In(b) \cup {nextId},
         \A c \in Places \ {b} : In(c)' \subseteq In(c)
  PROVE  Apart' /\ \A c \in Places : In(c)' \subseteq 1 .. (nextId' - 1)
<1>0. nextId \in Nat \ {0} /\ \A c \in Places : In(c) \subseteq 1 .. (nextId - 1)
  BY DEF TypeInv, PlacesFit
<1>1. \A x \in 1 .. (nextId - 1) : x # nextId /\ x \in 1 .. (nextId' - 1)
  BY <1>0
<1>2. nextId \in 1 .. (nextId' - 1)
  BY <1>0
<1>3. \A c \in Places \ {b} : In(c)' \subseteq In(c) \ {nextId}
  BY <1>0, <1>1
<1>4. Apart'
  BY <1>3, MovedTo DEF PlacesFit
<1>5. \A c \in Places : In(c)' \subseteq 1 .. (nextId' - 1)
  BY <1>0, <1>1, <1>2
<1>6. QED
  BY <1>4, <1>5

\* A message of the user is in a place.
LEMMA ToldPlaced ==
  ASSUME TypeInv
  PROVE  \A x \in Told : \E c \in Places : x \in In(c)
<1>1. UserIds(branch) \subseteq Ids(branch)
  BY DEF TypeInv, UserIds, Ids
<1>2. {m.id : m \in {n \in unheard : n.kind = "user"}} \subseteq {m.id : m \in unheard}
  OBVIOUS
<1>3. SUFFICES ASSUME NEW x \in Told PROVE \E c \in Places : x \in In(c)
  OBVIOUS
<1>4. \/ x \in In("steering") \/ x \in In("followUp") \/ x \in In("pending") \/ x \in In("branch")
      \/ x \in In("cleared") \/ x \in In("lost") \/ x \in In("early")
  BY <1>1, <1>2, InFacts DEF Told
<1>5. QED
  BY <1>4 DEF Places

\* A message of the user that is made is one more.
LEMMA ToldMore ==
  ASSUME TypeInv, PlacesFit, Told' = Told \cup {nextId}, used'.texts = used.texts + 1
  PROVE  IsFiniteSet(Told') /\ Cardinality(Told') = used'.texts
<1>1. nextId \notin Told
  <2>1. \A c \in Places : nextId \notin In(c)
    <3>1. nextId \in Nat /\ \A c \in Places : In(c) \subseteq 1 .. (nextId - 1)
      BY DEF TypeInv, PlacesFit
    <3>2. nextId \notin 1 .. (nextId - 1)
      BY <3>1
    <3>3. QED
      BY <3>1, <3>2
  <2>2. QED
    BY <2>1, ToldPlaced
<1>2. IsFiniteSet(Told) /\ Cardinality(Told) = used.texts
  BY DEF PlacesFit
<1>3. QED
  BY <1>1, <1>2, FS_AddElement

LEMMA EarlyIsKept ==
  ASSUME UNCHANGED <<prompt, auto>>
  PROVE  Early' = Early
  BY DEF Early, Compacting

LEMMA SettlesPlaces ==
  ASSUME FlowInv, PlaceInv, NEW p \in Prompts, Settles(p)
  PROVE  PlaceInv'
<1>1. UNCHANGED <<steering, followUp, cleared, unheard, branch, pendingBash, displayed, nextId, context, text, run, used, auto>>
  BY DEF Settles, log, queues, ids
<1>2. prompt[p] = "settling" /\ prompt' = [prompt EXCEPT ![p] = "idle"] /\ prompt \in [Prompts -> Steps]
  BY DEF Settles, At, FlowInv, TypeInv
<1>3. Early' = Early
  BY <1>1, <1>2 DEF Early, Compacting
<1>4. QED
  BY <1>1, <1>3, KeptPlaces

LEMMA CompactionPreparedPlaces ==
  ASSUME FlowInv, PlaceInv, NEW p \in Prompts, CompactionPrepared(p)
  PROVE  PlaceInv'
<1>1. UNCHANGED <<steering, followUp, cleared, unheard, branch, pendingBash, displayed, nextId, context, text, run, used>>
  BY DEF CompactionPrepared, log, queues, ids
<1>2. /\ prompt[p] = "authorizing" /\ prompt' = [prompt EXCEPT ![p] = "summarizing"] /\ prompt \in [Prompts -> Steps]
      /\ auto' = [auto EXCEPT !.prep = PrepareCompaction(branch, KeepRecent, None)]
  BY DEF CompactionPrepared, At, FlowInv, TypeInv
<1>3. auto \in AutoCompaction
  BY <1>2 DEF FlowInv, TypeInv, Control, AutoFits, Compacting
<1>4. auto'.pre = auto.pre
  BY <1>2, <1>3 DEF AutoCompaction
<1>5. Early' = Early
  BY <1>1, <1>2, <1>4 DEF Early, Compacting
<1>6. QED
  BY <1>1, <1>5, KeptPlaces

LEMMA RetryAbortsPlaces ==
  ASSUME TypeInv, RetryAborts, UNCHANGED auto
  PROVE  Early' = Early
  BY RetryAbortsFacts DEF TypeInv, RetryAborts, Early, Compacting

LEMMA AbortPlaces ==
  ASSUME FlowInv, PlaceInv, Abort
  PROVE  PlaceInv'
<1>1. UNCHANGED <<steering, followUp, cleared, unheard, branch, pendingBash, displayed, nextId, context, text, auto>>
  BY DEF Abort, log, queues, ids
<1>2. Aborts("abort") /\ Uses("aborts") /\ run \in Runs /\ used \in Counters /\ TypeInv
  BY DEF Abort, FlowInv, TypeInv
<1>3. run'.pending = run.pending
  BY <1>2 DEF Aborts, Runs
<1>4. used'.texts = used.texts
  BY <1>2 DEF Uses, Counters
<1>5. Early' = Early
  BY <1>1, <1>2, RetryAbortsPlaces DEF Aborts
<1>6. QED
  BY <1>1, <1>3, <1>4, <1>5, KeptPlaces

LEMMA AbortRetryPlaces ==
  ASSUME FlowInv, PlaceInv, AbortRetry
  PROVE  PlaceInv'
<1>1. UNCHANGED <<steering, followUp, cleared, unheard, branch, pendingBash, displayed, nextId, context, text, auto, run>>
  BY DEF AbortRetry, log, queues, ids
<1>2. RetryAborts /\ Uses("aborts") /\ used \in Counters /\ TypeInv
  BY DEF AbortRetry, FlowInv, TypeInv
<1>4. used'.texts = used.texts
  BY <1>2 DEF Uses, Counters
<1>5. Early' = Early
  BY <1>1, <1>2, RetryAbortsPlaces
<1>6. QED
  BY <1>1, <1>4, <1>5, KeptPlaces

LEMMA CompactPlaces ==
  ASSUME FlowInv, PlaceInv, Compact
  PROVE  PlaceInv'
<1>1. UNCHANGED <<steering, followUp, cleared, unheard, branch, pendingBash, displayed, nextId, context, text, auto>>
  BY DEF Compact, log, queues, ids
<1>2. Aborts("compact") /\ Uses("compacts") /\ run \in Runs /\ used \in Counters /\ TypeInv
  BY DEF Compact, FlowInv, TypeInv
<1>3. run'.pending = run.pending
  BY <1>2 DEF Aborts, Runs
<1>4. used'.texts = used.texts
  BY <1>2 DEF Uses, Counters
<1>5. Early' = Early
  BY <1>1, <1>2, RetryAbortsPlaces DEF Aborts
<1>6. QED
  BY <1>1, <1>3, <1>4, <1>5, KeptPlaces

LEMMA ManualPreparedPlaces ==
  ASSUME PlaceInv, ManualPrepared
  PROVE  PlaceInv'
<1>1. UNCHANGED <<steering, followUp, cleared, unheard, branch, pendingBash, displayed, nextId, context, text, auto, run, prompt, used>>
  BY DEF ManualPrepared, log, queues, ids, calls
<1>2. QED
  BY <1>1, EarlyIsKept, KeptPlaces

LEMMA ManualFailsPlaces ==
  ASSUME PlaceInv, ManualFails
  PROVE  PlaceInv'
<1>1. UNCHANGED <<steering, followUp, cleared, unheard, branch, pendingBash, displayed, nextId, context, text, auto, run, prompt, used>>
  BY DEF ManualFails, log, queues, ids, calls
<1>2. QED
  BY <1>1, EarlyIsKept, KeptPlaces

LEMMA StutterPlaces ==
  ASSUME PlaceInv, UNCHANGED vars
  PROVE  PlaceInv'
<1>1. UNCHANGED <<steering, followUp, cleared, unheard, branch, pendingBash, displayed, nextId, context, text, auto, run, prompt, used>>
  BY DEF vars, log, queues, ids, calls
<1>2. QED
  BY <1>1, EarlyIsKept, KeptPlaces

LostUsers == {m.id : m \in {n \in unheard : n.kind = "user"}}

LEMMA ToldParts ==
  /\ Told = Range(steering) \cup Range(followUp) \cup Range(run.pending) \cup UserIds(branch) \cup cleared
              \cup LostUsers \cup In("early")
  /\ Told' = Range(steering') \cup Range(followUp') \cup Range(run'.pending) \cup UserIds(branch') \cup cleared'
              \cup LostUsers' \cup In("early")'
<1>1. {text[p] : p \in Early} = In("early") /\ {text[p] : p \in Early}' = In("early")'
  BY InFacts
<1>2. Told = UNION {Range(steering), Range(followUp), Range(run.pending), UserIds(branch), cleared, LostUsers, In("early")}
  BY <1>1 DEF Told, LostUsers
<1>3. Told' = UNION {Range(steering'), Range(followUp'), Range(run'.pending), UserIds(branch'), cleared', LostUsers', In("early")'}
  BY <1>1 DEF Told, LostUsers
<1> HIDE DEF Told, LostUsers, In
<1>4. QED
  BY <1>2, <1>3

\* A message that a run adds is in the session, or unheard.
LEMMA AddedGoes ==
  ASSUME TypeInv, PlacesFit, NEW m \in Entry, Added(m), m.id \notin In("branch")
  PROVE  /\ DistinctIds(branch')
         /\ connected => In("branch")' = In("branch") \cup {m.id} /\ In("lost")' = In("lost")
         /\ ~connected => In("branch")' = In("branch") /\ In("lost")' = In("lost") \cup {m.id}
         /\ \A i \in 1 .. Len(context') :
              context'[i] \in unheard' \/ \E j \in 1 .. Len(branch') : context'[i] = branch'[j]
         /\ UserIds(branch') \cup LostUsers'
              = UserIds(branch) \cup LostUsers \cup (IF m.kind = "user" THEN {m.id} ELSE {})
         /\ In("lost")' = {n.id : n \in unheard'}
<1>1. /\ context \in Seq(Entry) /\ branch \in Seq(Entry) /\ m.id \notin Ids(branch) /\ DistinctIds(branch)
      /\ \A i \in 1 .. Len(context) : context[i] \in unheard \/ \E j \in 1 .. Len(branch) : context[i] = branch[j]
  BY InFacts DEF TypeInv, PlacesFit
<1>2. /\ Ids(Append(branch, m)) = Ids(branch) \cup {m.id} /\ DistinctIds(Append(branch, m))
      /\ UserIds(Append(branch, m)) = IF m.kind = "user" THEN UserIds(branch) \cup {m.id} ELSE UserIds(branch)
      /\ \A i \in 1 .. Len(branch) : i \in 1 .. Len(Append(branch, m)) /\ Append(branch, m)[i] = branch[i]
      /\ Len(branch) + 1 \in 1 .. Len(Append(branch, m)) /\ Append(branch, m)[Len(branch) + 1] = m
  BY <1>1, AddedPlaces
<1>3. \A i \in 1 .. Len(context') :
        \/ i \in 1 .. Len(context) /\ context'[i] = context[i]
        \/ i = Len(context) + 1 /\ context'[i] = m
  <2>1. context' = Append(context, m)
    BY DEF Added
  <2>2. QED
    BY <1>1, <2>1, AddedPlaces
<1>4. CASE connected
  <2>1. branch' = Append(branch, m) /\ unheard' = unheard
    BY <1>4 DEF Added
  <2>2. LostUsers' = LostUsers
    BY <2>1 DEF LostUsers
  <2>3. In("branch")' = In("branch") \cup {m.id} /\ In("lost")' = In("lost")
    BY <1>2, <2>1, InFacts
  <2>4. \A i \in 1 .. Len(context') :
          context'[i] \in unheard' \/ \E j \in 1 .. Len(branch') : context'[i] = branch'[j]
    BY <1>1, <1>2, <1>3, <2>1
  <2>5. QED
    BY <1>2, <1>4, <2>1, <2>2, <2>3, <2>4, InFacts
<1>5. CASE ~connected
  <2>1. branch' = branch /\ unheard' = unheard \cup {m}
    BY <1>5 DEF Added
  <2>2. LostUsers' = LostUsers \cup (IF m.kind = "user" THEN {m.id} ELSE {})
    <3>1. LostUsers' = {n.id : n \in {o \in unheard \cup {m} : o.kind = "user"}}
      BY <2>1 DEF LostUsers
    <3>2. QED
      BY <3>1 DEF LostUsers
  <2>3. In("branch")' = In("branch") /\ In("lost")' = In("lost") \cup {m.id}
    <3>1. In("lost")' = {n.id : n \in unheard \cup {m}} /\ In("lost") = {n.id : n \in unheard}
      BY <2>1, InFacts
    <3>2. {n.id : n \in unheard \cup {m}} = {n.id : n \in unheard} \cup {m.id}
      OBVIOUS
    <3>3. QED
      BY <2>1, <3>1, <3>2, InFacts
  <2>4. \A i \in 1 .. Len(context') :
          context'[i] \in unheard' \/ \E j \in 1 .. Len(branch') : context'[i] = branch'[j]
    BY <1>1, <1>3, <2>1
  <2>5. QED
    BY <1>1, <1>5, <2>1, <2>2, <2>3, <2>4, InFacts
<1>6. QED
  BY <1>4, <1>5

LEMMA FreshId ==
  ASSUME TypeInv, PlacesFit
  PROVE  nextId \in Nat \ {0} /\ \A c \in Places : nextId \notin In(c)
<1>1. nextId \in Nat \ {0} /\ \A c \in Places : In(c) \subseteq 1 .. (nextId - 1)
  BY DEF TypeInv, PlacesFit
<1>2. nextId \notin 1 .. (nextId - 1)
  BY <1>1
<1>3. QED
  BY <1>1, <1>2

\* A response or the result of a tool that a run adds.
LEMMA MadePlaces ==
  ASSUME FlowInv, PlaceInv, NEW m \in Entry, Added(m), m.id = nextId, m.kind # "user", nextId' = nextId + 1,
         run'.pending = run.pending, used'.texts = used.texts,
         UNCHANGED <<steering, followUp, cleared, pendingBash, displayed, text, prompt, auto>>
  PROVE  PlaceInv'
<1>0. TypeInv /\ PlacesFit /\ nextId \in Nat \ {0} /\ nextId \notin In("branch")
  BY FreshId DEF FlowInv, PlaceInv, Places
<1>1. /\ DistinctIds(branch')
      /\ connected => In("branch")' = In("branch") \cup {nextId} /\ In("lost")' = In("lost")
      /\ ~connected => In("branch")' = In("branch") /\ In("lost")' = In("lost") \cup {nextId}
      /\ \A i \in 1 .. Len(context') :
           context'[i] \in unheard' \/ \E j \in 1 .. Len(branch') : context'[i] = branch'[j]
      /\ UserIds(branch') \cup LostUsers' = UserIds(branch) \cup LostUsers
  <2>1. m.id \notin In("branch")
    BY <1>0
  <2>2. QED
    BY <1>0, <2>1, AddedGoes
<1>2. In("early")' = In("early")
  BY EarlyIsKept, EarlyKept
<1>3. \A c \in Places \ {"branch", "lost"} : In(c)' = In(c)
  BY <1>2, InFacts DEF Places
<1>4. Apart' /\ \A c \in Places : In(c)' \subseteq 1 .. (nextId' - 1)
  <2>1. CASE connected
    BY <1>0, <1>1, <1>3, <2>1, FreshPlace DEF Places
  <2>2. CASE ~connected
    BY <1>0, <1>1, <1>3, <2>2, FreshPlace DEF Places
  <2>3. QED
    BY <2>1, <2>2
<1>5. Told' = Told
  <2>1. Told' = (Range(steering) \cup Range(followUp) \cup Range(run.pending) \cup cleared \cup In("early"))
                  \cup (UserIds(branch') \cup LostUsers')
    BY <1>2, ToldParts
  <2>2. Told = (Range(steering) \cup Range(followUp) \cup Range(run.pending) \cup cleared \cup In("early"))
                  \cup (UserIds(branch) \cup LostUsers)
    BY ToldParts
  <2>3. QED
    BY <1>1, <2>1, <2>2
<1>6. PlacesFit'
  BY <1>0, <1>1, <1>4, <1>5 DEF PlacesFit, Distinct, DistinctIds
<1>7. DisplayedIsQueued'
  <2>1. {n.id : n \in unheard} \subseteq {n.id : n \in unheard'}
    BY DEF Added
  <2>2. QED
    BY <2>1 DEF PlaceInv, DisplayedIsQueued
<1>8. QED
  BY <1>6, <1>7 DEF PlaceInv

LEMMA RespondsPlaces ==
  ASSUME FlowInv, PlaceInv, Responds
  PROVE  PlaceInv'
<1>0. run \in Runs /\ nextId \in Nat /\ used \in Counters
  BY DEF FlowInv, TypeInv
<1>1. UNCHANGED <<steering, followUp, cleared, pendingBash, displayed, text, prompt, auto>> /\ nextId' = nextId + 1
  BY DEF Responds, queues, calls, NewId
<1>2. PICK stop \in (IF run.aborted THEN {"aborted"} ELSE bounds.stops) :
        LET m == Message(nextId, "assistant", stop)
        IN  /\ IF stop = "toolUse" THEN Uses("tools") ELSE UNCHANGED used
            /\ Added(m)
            /\ run' = AfterResponse(stop)
  BY DEF Responds
<1>3. stop \in Stop
  BY <1>2, AgentSessionAssumption DEF FlowInv, TypeInv, Stop
<1> DEFINE m == Message(nextId, "assistant", stop)
<1>4. m \in Entry /\ m.id = nextId /\ m.kind # "user" /\ Added(m)
  BY <1>0, <1>2, <1>3, MessageTyped
<1>5. run'.pending = run.pending
  BY <1>0, <1>2 DEF AfterResponse, Runs
<1>6. used'.texts = used.texts
  BY <1>0, <1>2 DEF Uses, Counters
<1> HIDE DEF m
<1>7. QED
  BY <1>1, <1>4, <1>5, <1>6, MadePlaces

LEMMA ToolReturnsPlaces ==
  ASSUME FlowInv, PlaceInv, ToolReturns
  PROVE  PlaceInv'
<1> DEFINE m == [Message(nextId, "toolResult", "none") EXCEPT !.ref = Last(context).id]
<1>0. run \in Runs /\ nextId \in Nat /\ context \in Seq(Entry)
  BY DEF FlowInv, TypeInv
<1>1. UNCHANGED <<steering, followUp, cleared, pendingBash, displayed, text, prompt, auto, used>>
      /\ nextId' = nextId + 1 /\ run' = [run EXCEPT !.phase = "turn"] /\ Added(m)
  BY DEF ToolReturns, queues, calls, NewId
<1>2. Last(context).id \in Nat
  <2>1. context # <<>>
    BY RunIsActive DEF ToolReturns, FlowInv, ContextEnds
  <2>2. QED
    BY <1>0, <2>1, FrontFacts, EntryTyped
<1>3. m \in Entry /\ m.id = nextId /\ m.kind # "user"
  BY <1>0, <1>2, MessageTyped
<1>4. run'.pending = run.pending
  BY <1>0, <1>1 DEF Runs
<1> HIDE DEF m
<1>5. QED
  BY <1>1, <1>3, <1>4, MadePlaces

\* A message that a run adds leaves what the run had taken.
LEMMA MessageAddedPlaces ==
  ASSUME FlowInv, PlaceInv, MessageAdded
  PROVE  PlaceInv'
<1> DEFINE h == Head(run.pending)
           m == User(h)
<1>0. /\ TypeInv /\ PlacesFit /\ run \in Runs /\ run.pending # <<>> /\ run.pending \in Seq(Nat) /\ Distinct(run.pending)
      /\ run' = [run EXCEPT !.pending = Tail(@)] /\ Added(m)
      /\ displayed' = IF connected THEN displayed \ {h} ELSE displayed
      /\ UNCHANGED <<steering, followUp, cleared, pendingBash, text, prompt, auto, nextId, used>>
  BY DEF MessageAdded, FlowInv, TypeInv, Runs, PlaceInv, PlacesFit, Delivered, calls, ids
<1>1. h \in Nat /\ h \in Range(run.pending) /\ Distinct(run'.pending) /\ Range(run'.pending) = Range(run.pending) \ {h}
  <2>1. run'.pending = Tail(run.pending)
    BY <1>0 DEF Runs
  <2>2. QED
    BY <1>0, <2>1, TailPlaces
<1>2. m \in Entry /\ m.id = h /\ m.kind = "user"
  BY <1>1, MessageTyped
<1>a. \A b, c \in Places : \A x : b # c /\ x \in In(b) => x \notin In(c)
  BY <1>0, Apartness DEF PlacesFit
<1> HIDE DEF m, h
<1>3. h \in In("pending") /\ "pending" \in Places /\ \A c \in Places \ {"pending"} : h \notin In(c)
  BY <1>1, <1>a, InFacts DEF Places
<1>4. /\ DistinctIds(branch')
      /\ connected => In("branch")' = In("branch") \cup {h} /\ In("lost")' = In("lost")
      /\ ~connected => In("branch")' = In("branch") /\ In("lost")' = In("lost") \cup {h}
      /\ \A i \in 1 .. Len(context') :
           context'[i] \in unheard' \/ \E j \in 1 .. Len(branch') : context'[i] = branch'[j]
      /\ UserIds(branch') \cup LostUsers' = UserIds(branch) \cup LostUsers \cup {h}
      /\ In("lost")' = {n.id : n \in unheard'}
  <2>1. m.id \notin In("branch")
    BY <1>2, <1>3 DEF Places
  <2>2. QED
    BY <1>0, <1>2, <2>1, AddedGoes
<1>5. /\ In("early")' = In("early") /\ In("steering")' = In("steering") /\ In("followUp")' = In("followUp")
      /\ In("cleared")' = In("cleared") /\ In("bash")' = In("bash") /\ In("pending")' = In("pending") \ {h}
  <2>1. In("early")' = In("early")
    BY <1>0, EarlyIsKept, EarlyKept
  <2>2. QED
    BY <1>0, <1>1, <2>1, InFacts
<1>6. Apart'
  <2>1. CASE connected
    <3>1. In("branch")' \subseteq In("branch") \cup {h} /\ \A c \in Places \ {"branch"} : In(c)' \subseteq In(c) \ {h}
      BY <1>3, <1>4, <1>5, <2>1 DEF Places
    <3>2. QED
      BY <1>0, <3>1, MovedTo DEF Places, PlacesFit
  <2>2. CASE ~connected
    <3>1. In("lost")' \subseteq In("lost") \cup {h} /\ \A c \in Places \ {"lost"} : In(c)' \subseteq In(c) \ {h}
      BY <1>3, <1>4, <1>5, <2>2 DEF Places
    <3>2. QED
      BY <1>0, <3>1, MovedTo DEF Places, PlacesFit
  <2>3. QED
    BY <2>1, <2>2
<1>7. \A c \in Places : In(c)' \subseteq 1 .. (nextId' - 1)
  <2>1. \A c \in Places : In(c) \subseteq 1 .. (nextId - 1)
    BY <1>0 DEF PlacesFit
  <2>2. h \in 1 .. (nextId - 1)
    BY <1>3, <2>1
  <2>3. \A c \in Places : In(c)' \subseteq In(c) \cup {h}
    BY <1>4, <1>5 DEF Places
  <2>4. QED
    BY <1>0, <2>1, <2>2, <2>3
<1>8. Told' = Told
  <2>1. Told' = (Range(steering) \cup Range(followUp) \cup cleared \cup In("early"))
                  \cup Range(run'.pending) \cup (UserIds(branch') \cup LostUsers')
    BY <1>0, <1>5, ToldParts
  <2>2. Told = (Range(steering) \cup Range(followUp) \cup cleared \cup In("early"))
                  \cup Range(run.pending) \cup (UserIds(branch) \cup LostUsers)
    BY ToldParts
  <2>3. Range(run'.pending) \cup {h} = Range(run.pending)
    BY <1>1
  <2>4. QED
    BY <1>4, <2>1, <2>2, <2>3
<1>9. PlacesFit'
  BY <1>0, <1>1, <1>4, <1>6, <1>7, <1>8 DEF PlacesFit, Distinct, DistinctIds
<1>10. DisplayedIsQueued'
  <2>1. h \notin Range(steering) \cup Range(followUp)
    BY <1>3, InFacts DEF Places
  <2>2. displayed \subseteq Range(steering) \cup Range(followUp) \cup Range(run.pending) \cup {n.id : n \in unheard}
        /\ Range(steering) \cup Range(followUp) \subseteq displayed
    BY DEF PlaceInv, DisplayedIsQueued
  <2>3. CASE connected
    <3>1. displayed' = displayed \ {h} /\ unheard' = unheard
      BY <1>0, <2>3 DEF Added
    <3>2. QED
      BY <1>0, <1>1, <2>1, <2>2, <3>1 DEF DisplayedIsQueued
  <2>4. CASE ~connected
    <3>1. displayed' = displayed /\ {n.id : n \in unheard'} = {n.id : n \in unheard} \cup {h}
      BY <1>0, <1>4, <2>4, InFacts
    <3>2. QED
      BY <1>0, <1>1, <2>1, <2>2, <3>1 DEF DisplayedIsQueued
  <2>5. QED
    BY <2>3, <2>4
<1>11. QED
  BY <1>9, <1>10 DEF PlaceInv

\* The message of a prompt goes to the run that the prompt starts.
LEMMA PromptRunsPlaces ==
  ASSUME FlowInv, PlaceInv, NEW p \in Prompts, PromptRuns(p)
  PROVE  PlaceInv'
<1> DEFINE h == text[p]
           q == <<h>>
<1>0. /\ TypeInv /\ PlacesFit /\ prompt[p] = "preflight" /\ prompt \in [Prompts -> Steps] /\ text \in [Prompts -> Nat]
      /\ At(p, "running") /\ StartRun(q, FALSE)
      /\ UNCHANGED <<context, branch, unheard, steering, followUp, displayed, cleared, pendingBash, text, auto, nextId, used>>
  BY DEF PromptRuns, FlowInv, TypeInv, PlaceInv, log, queues, ids
<1>1. run'.pending = q /\ Range(q) = {h} /\ Distinct(q) /\ h \in Nat
  <2>1. q \in Seq(Nat)
    BY <1>0
  <2>2. Range(q) = {h} /\ Distinct(q)
    BY SinglePlace
  <2>3. run'.pending = q
    BY <1>0, <2>1, StartRunFacts
  <2>4. QED
    BY <1>0, <2>2, <2>3
<1> HIDE DEF q
<1>2. run.phase = "none" /\ run.pending = <<>> /\ Range(run.pending) = {} /\ AtWork(p)
  <2>1. AtWork(p) /\ ~InRuns(p)
    BY <1>0 DEF AtWork, InRuns, Compacting
  <2>2. \A r \in Prompts : r # p => ~AtWork(r)
    BY <2>1 DEF FlowInv, Control, OneAtWork
  <2>3. \A r \in Prompts : prompt[r] # "running"
    BY <1>0, <2>2 DEF AtWork
  <2>4. QED
    BY <2>1, <2>3, EmptyPlaces DEF FlowInv, Control, RunFits
<1>3. Early = {p} /\ Early' = {}
  <2>1. \A r \in Prompts : r # p => prompt[r] \in {"idle", "settling"} /\ prompt'[r] = prompt[r]
    BY <1>0, <1>2 DEF FlowInv, Control, OneAtWork, AtWork, At
  <2>2. prompt'[p] = "running"
    BY <1>0 DEF At
  <2>3. QED
    BY <1>0, <2>1, <2>2 DEF Early, Compacting
<1>4. /\ In("early") = {h} /\ In("early")' = {} /\ In("pending")' = {h} /\ In("pending") = {}
      /\ \A c \in Places \ {"early", "pending"} : In(c)' = In(c)
  <2>1. {text[r] : r \in Early}' = {text'[r] : r \in Early'} /\ {text[r] : r \in {p}} = {text[p]}
    OBVIOUS
  <2>2. QED
    BY <1>0, <1>1, <1>2, <1>3, <2>1, InFacts DEF Places
<1> HIDE DEF h
<1>a. \A b, c \in Places : \A x : b # c /\ x \in In(b) => x \notin In(c)
  BY <1>0, Apartness DEF PlacesFit
<1>5. Apart'
  <2>1. In("pending")' \subseteq In("pending") \cup {h} /\ \A c \in Places \ {"pending"} : In(c)' \subseteq In(c) \ {h}
    BY <1>4, <1>a DEF Places
  <2>2. QED
    BY <1>0, <2>1, MovedTo DEF Places, PlacesFit
<1>6. \A c \in Places : In(c)' \subseteq 1 .. (nextId' - 1)
  <2>1. \A c \in Places : In(c) \subseteq 1 .. (nextId - 1)
    BY <1>0 DEF PlacesFit
  <2>2. QED
    BY <1>0, <1>4, <2>1 DEF Places
<1>7. Told' = Told
  <2>1. LostUsers' = LostUsers
    BY <1>0 DEF LostUsers
  <2>2. Range(run'.pending) = {h}
    BY <1>1
  <2>3. QED
    BY <1>0, <1>2, <1>4, <2>1, <2>2, ToldParts
<1>8. PlacesFit'
  BY <1>0, <1>1, <1>5, <1>6, <1>7 DEF PlacesFit, Distinct, DistinctIds
<1>9. DisplayedIsQueued'
  BY <1>0, <1>1, <1>2 DEF PlaceInv, DisplayedIsQueued
<1>10. QED
  BY <1>8, <1>9 DEF PlaceInv

LEMMA ClearQueuePlaces ==
  ASSUME FlowInv, PlaceInv, ClearQueue
  PROVE  PlaceInv'
<1> DEFINE X == Range(steering) \cup Range(followUp)
<1>0. /\ TypeInv /\ PlacesFit /\ cleared' = cleared \cup Range(steering) \cup Range(followUp)
      /\ steering' = <<>> /\ followUp' = <<>> /\ displayed' = {}
      /\ UNCHANGED <<context, branch, unheard, run, pendingBash, text, auto, prompt, nextId, used>>
  BY DEF ClearQueue, FlowInv, PlaceInv, log, calls, ids
<1>1. /\ In("steering") \subseteq X /\ In("followUp") \subseteq X /\ In("steering")' = {} /\ In("followUp")' = {}
      /\ In("cleared")' = In("cleared") \cup X /\ X \subseteq In("steering") \cup In("followUp")
      /\ \A c \in Places \ {"steering", "followUp", "cleared"} : In(c)' = In(c)
      /\ Range(steering') = {} /\ Range(followUp') = {} /\ Distinct(steering') /\ Distinct(followUp')
  <2>1. In("early")' = In("early")
    BY <1>0, EarlyIsKept, EarlyKept
  <2>2. QED
    BY <1>0, <2>1, InFacts, EmptyPlaces DEF Places
<1> HIDE DEF X
<1>a. \A b, c \in Places : \A x : b # c /\ x \in In(b) => x \notin In(c)
  BY <1>0, Apartness DEF PlacesFit
<1>2. Apart'
  <2>1. \A c \in Places \ {"cleared"} : In(c)' \subseteq In(c) \ X
    BY <1>1, <1>a DEF Places
  <2>2. In("cleared")' \subseteq In("cleared") \cup X
    BY <1>1
  <2>3. QED
    BY <1>0, <2>1, <2>2, MovedTo DEF Places, PlacesFit
<1>3. \A c \in Places : In(c)' \subseteq 1 .. (nextId' - 1)
  <2>1. \A c \in Places : In(c) \subseteq 1 .. (nextId - 1)
    BY <1>0 DEF PlacesFit
  <2>2. QED
    BY <1>0, <1>1, <2>1 DEF Places
<1>4. Told' = Told
  <2>1. LostUsers' = LostUsers /\ In("early")' = In("early")
    BY <1>0, <1>1 DEF LostUsers, Places
  <2>2. QED
    BY <1>0, <1>1, <2>1, ToldParts
<1>5. PlacesFit'
  BY <1>0, <1>1, <1>2, <1>3, <1>4 DEF PlacesFit, Distinct, DistinctIds
<1>6. DisplayedIsQueued'
  BY <1>0, <1>1 DEF DisplayedIsQueued
<1>7. QED
  BY <1>5, <1>6 DEF PlaceInv

LEMMA QueuePlaces ==
  ASSUME FlowInv, PlaceInv, Queue
  PROVE  PlaceInv'
<1>0. /\ TypeInv /\ PlacesFit /\ steering \in Seq(Nat) /\ followUp \in Seq(Nat) /\ Distinct(steering) /\ Distinct(followUp)
      /\ displayed' = displayed \cup {nextId} /\ nextId' = nextId + 1 /\ Uses("texts") /\ used \in Counters
      /\ UNCHANGED <<context, branch, unheard, run, cleared, pendingBash, text, auto, prompt>>
  BY DEF Queue, FlowInv, TypeInv, PlaceInv, PlacesFit, NewId, log, calls
<1>1. nextId \in Nat \ {0} /\ nextId \notin Range(steering) /\ nextId \notin Range(followUp)
  BY <1>0, FreshId, InFacts DEF Places
<1>2. used'.texts = used.texts + 1
  BY <1>0 DEF Uses, Counters
<1>3. In("early")' = In("early") /\ LostUsers' = LostUsers
  BY <1>0, EarlyIsKept, EarlyKept DEF LostUsers
<1>4. CASE steering' = Append(steering, nextId) /\ UNCHANGED followUp
  <2>1. Range(steering') = Range(steering) \cup {nextId} /\ Distinct(steering')
    BY <1>0, <1>1, <1>4, AppendPlaces
  <2>2. In("steering")' \subseteq In("steering") \cup {nextId} /\ \A c \in Places \ {"steering"} : In(c)' \subseteq In(c)
    BY <1>0, <1>3, <1>4, <2>1, InFacts DEF Places
  <2>3. Apart' /\ \A c \in Places : In(c)' \subseteq 1 .. (nextId' - 1)
    BY <1>0, <2>2, FreshPlace DEF Places
  <2>4. Told' = Told \cup {nextId}
    BY <1>0, <1>3, <1>4, <2>1, ToldParts
  <2>5. IsFiniteSet(Told') /\ Cardinality(Told') = used'.texts
    BY <1>0, <1>2, <2>4, ToldMore
  <2>6. PlacesFit'
    BY <1>0, <1>4, <2>1, <2>3, <2>5 DEF PlacesFit, Distinct, DistinctIds
  <2>7. DisplayedIsQueued'
    BY <1>0, <1>4, <2>1 DEF PlaceInv, DisplayedIsQueued
  <2>8. QED
    BY <2>6, <2>7 DEF PlaceInv
<1>5. CASE followUp' = Append(followUp, nextId) /\ UNCHANGED steering
  <2>1. Range(followUp') = Range(followUp) \cup {nextId} /\ Distinct(followUp')
    BY <1>0, <1>1, <1>5, AppendPlaces
  <2>2. In("followUp")' \subseteq In("followUp") \cup {nextId} /\ \A c \in Places \ {"followUp"} : In(c)' \subseteq In(c)
    BY <1>0, <1>3, <1>5, <2>1, InFacts DEF Places
  <2>3. Apart' /\ \A c \in Places : In(c)' \subseteq 1 .. (nextId' - 1)
    BY <1>0, <2>2, FreshPlace DEF Places
  <2>4. Told' = Told \cup {nextId}
    BY <1>0, <1>3, <1>5, <2>1, ToldParts
  <2>5. IsFiniteSet(Told') /\ Cardinality(Told') = used'.texts
    BY <1>0, <1>2, <2>4, ToldMore
  <2>6. PlacesFit'
    BY <1>0, <1>5, <2>1, <2>3, <2>5 DEF PlacesFit, Distinct, DistinctIds
  <2>7. DisplayedIsQueued'
    BY <1>0, <1>5, <2>1 DEF PlaceInv, DisplayedIsQueued
  <2>8. QED
    BY <2>6, <2>7 DEF PlaceInv
<1>6. QED
  BY <1>4, <1>5 DEF Queue

LEMMA RecordBashResultPlaces ==
  ASSUME FlowInv, PlaceInv, RecordBashResult
  PROVE  PlaceInv'
<1> DEFINE m == Message(nextId, "bash", "none")
<1>0. /\ TypeInv /\ PlacesFit /\ nextId' = nextId + 1 /\ Uses("bash") /\ used \in Counters
      /\ context \in Seq(Entry) /\ branch \in Seq(Entry) /\ pendingBash \in Seq(Entry)
      /\ UNCHANGED <<unheard, run, steering, followUp, displayed, cleared, text, auto, prompt>>
      /\ IF isAgentRunActive
         THEN pendingBash' = Append(pendingBash, m) /\ UNCHANGED <<context, branch>>
         ELSE context' = Append(context, m) /\ branch' = Append(branch, m) /\ UNCHANGED pendingBash
  BY DEF RecordBashResult, BashWaits, FlowInv, TypeInv, PlaceInv, NewId, queues, calls
<1>1. nextId \in Nat \ {0} /\ nextId \notin Ids(branch) /\ nextId \notin Ids(pendingBash)
  BY <1>0, FreshId, InFacts DEF Places
<1>2. m \in Entry /\ m.id = nextId /\ m.kind = "bash"
  BY <1>1, MessageTyped
<1> HIDE DEF m
<1>3. used'.texts = used.texts
  BY <1>0 DEF Uses, Counters
<1>4. In("early")' = In("early") /\ LostUsers' = LostUsers
  BY <1>0, EarlyIsKept, EarlyKept DEF LostUsers
<1>5. /\ DistinctIds(branch) /\ DistinctIds(pendingBash)
      /\ \A i \in 1 .. Len(pendingBash) : pendingBash[i].kind = "bash"
      /\ \A i \in 1 .. Len(context) : context[i] \in unheard \/ \E j \in 1 .. Len(branch) : context[i] = branch[j]
  BY <1>0 DEF PlacesFit
<1>6. CASE isAgentRunActive
  <2>1. pendingBash' = Append(pendingBash, m) /\ UNCHANGED <<context, branch>>
    BY <1>0, <1>6
  <2>2. Ids(pendingBash') = Ids(pendingBash) \cup {nextId} /\ DistinctIds(pendingBash')
        /\ \A i \in 1 .. Len(pendingBash') : pendingBash'[i].kind = "bash"
    BY <1>0, <1>1, <1>2, <1>5, <2>1, AddedPlaces
  <2>3. In("bash")' \subseteq In("bash") \cup {nextId} /\ \A c \in Places \ {"bash"} : In(c)' \subseteq In(c)
    BY <1>0, <1>4, <2>1, <2>2, InFacts DEF Places
  <2>4. Apart' /\ \A c \in Places : In(c)' \subseteq 1 .. (nextId' - 1)
    BY <1>0, <2>3, FreshPlace DEF Places
  <2>5. Told' = Told
    BY <1>0, <1>4, <2>1, ToldParts
  <2>6. QED
    BY <1>0, <1>3, <2>1, <2>2, <2>4, <2>5 DEF PlaceInv, PlacesFit, DisplayedIsQueued, Distinct, DistinctIds
<1>7. CASE ~isAgentRunActive
  <2>1. context' = Append(context, m) /\ branch' = Append(branch, m) /\ UNCHANGED pendingBash
    BY <1>0, <1>7
  <2>2. /\ Ids(branch') = Ids(branch) \cup {nextId} /\ DistinctIds(branch') /\ UserIds(branch') = UserIds(branch)
        /\ \A i \in 1 .. Len(branch) : i \in 1 .. Len(branch') /\ branch'[i] = branch[i]
        /\ Len(branch) + 1 \in 1 .. Len(branch') /\ branch'[Len(branch) + 1] = m
    BY <1>0, <1>1, <1>2, <1>5, <2>1, AddedPlaces
  <2>3. \A i \in 1 .. Len(context') :
          \/ i \in 1 .. Len(context) /\ context'[i] = context[i]
          \/ i = Len(context) + 1 /\ context'[i] = m
    BY <1>0, <1>2, <2>1, AddedPlaces
  <2>4. \A i \in 1 .. Len(context') :
          context'[i] \in unheard' \/ \E j \in 1 .. Len(branch') : context'[i] = branch'[j]
    BY <1>0, <1>5, <2>2, <2>3
  <2>5. In("branch")' \subseteq In("branch") \cup {nextId} /\ \A c \in Places \ {"branch"} : In(c)' \subseteq In(c)
    BY <1>0, <1>4, <2>1, <2>2, InFacts DEF Places
  <2>6. Apart' /\ \A c \in Places : In(c)' \subseteq 1 .. (nextId' - 1)
    BY <1>0, <2>5, FreshPlace DEF Places
  <2>7. Told' = Told
    BY <1>0, <1>4, <2>2, ToldParts
  <2>8. QED
    BY <1>0, <1>3, <2>1, <2>2, <2>4, <2>6, <2>7 DEF PlaceInv, PlacesFit, DisplayedIsQueued, Distinct, DistinctIds
<1>8. QED
  BY <1>6, <1>7

LEMMA PromptCalledPlaces ==
  ASSUME FlowInv, PlaceInv, NEW p \in Prompts, PromptCalled(p)
  PROVE  PlaceInv'
<1>1. PromptCalledCases(p, context \o pendingBash)
  BY PromptCalledOutcome
<1>0. /\ TypeInv /\ PlacesFit /\ context \in Seq(Entry) /\ branch \in Seq(Entry) /\ used \in Counters
      /\ nextId' = nextId + 1 /\ text' = [text EXCEPT ![p] = nextId] /\ text \in [Prompts -> Nat]
      /\ used' = [used EXCEPT !.texts = @ + 1] /\ prompt \in [Prompts -> Steps]
      /\ UNCHANGED <<unheard, run, steering, followUp, displayed, cleared>>
  BY <1>1 DEF PromptCalledCases, FlowInv, TypeInv, PlaceInv, queues
<1>2. pendingBash = <<>> /\ pendingBash' = <<>> /\ branch' = branch
      /\ context' \in {context, WithoutLastAssistant(context)}
  <2>1. pendingBash = <<>>
    BY <1>1 DEF PromptCalledCases, FlowInv, Control, ActiveFits
  <2>2. context \o pendingBash = context /\ branch \o pendingBash = branch
    BY <1>0, <2>1
  <2>3. QED
    BY <1>1, <2>1, <2>2 DEF PromptCalledCases
<1>3. Early = {} /\ Early' = {p}
  <2>1. \A q \in Prompts : prompt[q] \in {"idle", "settling"}
    BY <1>1 DEF PromptCalledCases
  <2>2. \/ At(p, "preflight")
        \/ At(p, "authorizing") /\ auto'.pre
    BY <1>1 DEF PromptCalledCases
  <2>3. \A q \in Prompts : q # p => prompt'[q] = prompt[q]
    BY <1>0, <2>2 DEF At
  <2>4. prompt'[p] = "preflight" \/ (prompt'[p] = "authorizing" /\ auto'.pre)
    BY <1>0, <2>2 DEF At
  <2>5. QED
    BY <2>1, <2>3, <2>4 DEF Early, Compacting
<1>4. In("early") = {} /\ In("early")' = {nextId}
  <2>1. {text[r] : r \in Early}' = {text'[r] : r \in Early'} /\ {text'[r] : r \in {p}} = {text'[p]}
    OBVIOUS
  <2>2. text'[p] = nextId
    BY <1>0
  <2>3. QED
    BY <1>3, <2>1, <2>2, InFacts
<1>5. \A c \in Places \ {"early"} : In(c)' \subseteq In(c)
  BY <1>0, <1>2, InFacts DEF Places
<1>6. Apart' /\ \A c \in Places : In(c)' \subseteq 1 .. (nextId' - 1)
  BY <1>0, <1>4, <1>5, FreshPlace DEF Places
<1>7. Told' = Told \cup {nextId}
  <2>1. LostUsers' = LostUsers
    BY <1>0 DEF LostUsers
  <2>2. QED
    BY <1>0, <1>2, <1>4, <2>1, ToldParts
<1>8. IsFiniteSet(Told') /\ Cardinality(Told') = used'.texts
  <2>1. used'.texts = used.texts + 1
    BY <1>0 DEF Counters
  <2>2. QED
    BY <1>0, <1>7, <2>1, ToldMore
<1>9. \A i \in 1 .. Len(context') :
        context'[i] \in unheard' \/ \E j \in 1 .. Len(branch') : context'[i] = branch'[j]
  <2>1. From(context', branch)
    <3>1. From(context, branch)
      BY FromContext
    <3>2. From(WithoutLastAssistant(context), branch)
      BY <1>0, <3>1, FromFront
    <3>3. CASE context' = context
      BY <3>1, <3>3
    <3>4. CASE context' = WithoutLastAssistant(context)
      BY <3>2, <3>4
    <3>5. QED
      BY <1>2, <3>3, <3>4
  <2>2. \A i \in 1 .. Len(context) : context[i] \in unheard \/ \E j \in 1 .. Len(branch) : context[i] = branch[j]
    BY <1>0 DEF PlacesFit
  <2>3. QED
    BY <1>0, <1>2, <2>1, <2>2 DEF From
<1>10. PlacesFit'
  BY <1>0, <1>2, <1>6, <1>8, <1>9 DEF PlacesFit, Distinct, DistinctIds
<1>11. DisplayedIsQueued'
  BY <1>0 DEF PlaceInv, DisplayedIsQueued
<1>12. QED
  BY <1>10, <1>11 DEF PlaceInv

LEMMA InitPlaces == Init => PlaceInv
<1> SUFFICES ASSUME Init PROVE PlaceInv
  OBVIOUS
<1>1. /\ context = <<>> /\ branch = <<>> /\ unheard = {} /\ run.pending = <<>> /\ steering = <<>> /\ followUp = <<>>
      /\ displayed = {} /\ cleared = {} /\ pendingBash = <<>> /\ prompt = [p \in Prompts |-> "idle"] /\ nextId = 1
      /\ used.texts = 0
  BY DEF Init, NoRun
<1>2. Early = {}
  BY <1>1 DEF Early, Compacting
<1>3. \A c \in Places : In(c) = {}
  <2>1. {text[p] : p \in Early} = {}
    BY <1>2
  <2>2. {m.id : m \in unheard} = {}
    BY <1>1
  <2>3. QED
    BY <1>1, <2>1, <2>2, InFacts, EmptyPlaces DEF Places
<1>4. Apart
  BY <1>3 DEF Apart
<1>5. Told = {}
  <2>1. LostUsers = {}
    BY <1>1 DEF LostUsers
  <2>2. In("early") = {}
    BY <1>3 DEF Places
  <2>3. QED
    BY <1>1, <2>1, <2>2, ToldParts, EmptyPlaces
<1>6. Len(context) = 0 /\ Len(pendingBash) = 0
  BY <1>1
<1>7. PlacesFit
  BY <1>1, <1>3, <1>4, <1>5, <1>6, EmptyPlaces, FS_EmptySet DEF PlacesFit
<1>8. DisplayedIsQueued
  BY <1>1, EmptyPlaces DEF DisplayedIsQueued
<1>9. QED
  BY <1>7, <1>8 DEF PlaceInv

LEMMA NextPlaces ==
  ASSUME FlowInv, PlaceInv, [Next]_vars
  PROVE  PlaceInv'
<1>1. ASSUME RunStep PROVE PlaceInv'
  BY <1>1, MessageAddedPlaces, TurnBeginsPlaces, TurnEndsPlaces, RespondsPlaces, ToolReturnsPlaces DEF RunStep
<1>2. ASSUME ManualStep PROVE PlaceInv'
  BY <1>2, ManualPreparedPlaces, ManualFailsPlaces, ManualDonePlaces DEF ManualStep
<1>3. ASSUME NEW p \in Prompts, PromptStep(p) PROVE PlaceInv'
  BY <1>3, RunEndsPlaces, RetryBeginsPlaces, RetryCancelledPlaces, SettlesPlaces, CompactionPreparedPlaces,
     CompactionFailsPlaces, CompactionDonePlaces, PromptRunsPlaces DEF PromptStep
<1>4. ASSUME ClientStep PROVE PlaceInv'
  BY <1>4, PromptCalledPlaces, QueuePlaces, ClearQueuePlaces, RecordBashResultPlaces, AbortPlaces,
     AbortRetryPlaces, CompactPlaces DEF ClientStep
<1>5. ASSUME UNCHANGED vars PROVE PlaceInv'
  BY <1>5, StutterPlaces
<1>6. QED
  BY <1>1, <1>2, <1>3, <1>4, <1>5 DEF Next, Proceed

\* No message of the user is in two places, and what is displayed as queued is queued.
THEOREM PlacesHold == Spec => []PlaceInv
<1>1. FlowInv /\ PlaceInv /\ [Next]_vars => PlaceInv'
  BY NextPlaces
<1>2. QED
  BY <1>1, InitPlaces, FlowHolds, PTL DEF Spec

-----------------------------------------------------------------------------
(* What clients are told of the messages *)

LEMMA DistinctLength ==
  ASSUME NEW q \in Seq(Nat), Distinct(q)
  PROVE  IsFiniteSet(Range(q)) /\ Cardinality(Range(q)) = Len(q)
<1> DEFINE n == Len(q)
           R == Range(q)
<1>1. n \in Nat /\ DOMAIN q = 1 .. n /\ q \in [1 .. n -> R] /\ R = {q[i] : i \in 1 .. n}
  BY LenProperties DEF Range
<1>2. \A i, j \in 1 .. n : q[i] = q[j] => i = j
  BY DEF Distinct
<1> HIDE DEF n, R
<1>3. q \in Bijection(1 .. n, R)
  BY <1>1, <1>2 DEF Bijection, Injection, Surjection, IsInjective
<1>4. ExistsBijection(1 .. n, R)
  BY <1>3 DEF ExistsBijection
<1>5. IsFiniteSet(1 .. n) /\ Cardinality(1 .. n) = n
  <2>1. 1 \in Int /\ n \in Int
    BY <1>1
  <2>2. IsFiniteSet(1 .. n) /\ Cardinality(1 .. n) = IF 1 > n THEN 0 ELSE n - 1 + 1
    BY <2>1, FS_Interval
  <2>3. QED
    BY <1>1, <2>2
<1>6. QED
  BY <1>4, <1>5, FS_Bijection DEF n, R

\* As many entries as ids.
LEMMA DistinctUsers ==
  ASSUME NEW es \in Seq(Entry), DistinctIds(es)
  PROVE  /\ IsFiniteSet(UserIds(es))
         /\ Cardinality({i \in DOMAIN es : es[i].kind = "user"}) = Cardinality(UserIds(es))
<1> DEFINE S == {i \in DOMAIN es : es[i].kind = "user"}
           f == [i \in S |-> es[i].id]
           T == UserIds(es)
<1>1. DOMAIN es = 1 .. Len(es) /\ Len(es) \in Nat
  BY LenProperties
<1>2. IsFiniteSet(S)
  <2>1. IsFiniteSet(1 .. Len(es))
    BY <1>1, FS_Interval
  <2>2. QED
    BY <1>1, <2>1, FS_Subset
<1>3. T = {f[i] : i \in S} /\ \A i, j \in S : f[i] = f[j] => i = j
  BY <1>1 DEF UserIds, DistinctIds
<1>4. f \in [S -> T]
  BY <1>3
<1> HIDE DEF S, T, f
<1>5. f \in Bijection(S, T)
  BY <1>3, <1>4 DEF Bijection, Injection, Surjection, IsInjective
<1>6. QED
  BY <1>2, <1>5, FS_Bijection DEF ExistsBijection, S, T

LEMMA DisjointUnion ==
  ASSUME NEW S, NEW T, IsFiniteSet(S), IsFiniteSet(T), S \cap T = {}
  PROVE  /\ IsFiniteSet(S \cup T) /\ Cardinality(S \cup T) = Cardinality(S) + Cardinality(T)
         /\ Cardinality(S) \in Nat /\ Cardinality(T) \in Nat
<1>1. Cardinality(S) \in Nat /\ Cardinality(T) \in Nat
  BY FS_CardinalityType
<1>2. IsFiniteSet(S \cup T) /\ Cardinality(S \cup T) = Cardinality(S) + Cardinality(T) - Cardinality({})
  BY FS_Union
<1>3. Cardinality({}) = 0
  BY FS_EmptySet
<1>4. QED
  BY <1>1, <1>2, <1>3

\* At most one call has not sent its message.
LEMMA EarlyFacts ==
  ASSUME FlowInv
  PROVE  /\ {p \in Prompts : prompt[p] \in {"preflight", "authorizing", "summarizing"}
                             /\ (auto # None => auto.pre)} = Early
         /\ IsFiniteSet(Early) /\ IsFiniteSet({text[p] : p \in Early})
         /\ Cardinality(Early) = Cardinality({text[p] : p \in Early})
<1>1. {p \in Prompts : prompt[p] \in {"preflight", "authorizing", "summarizing"} /\ (auto # None => auto.pre)} = Early
  <2>1. ASSUME NEW p \in Prompts, prompt[p] = "preflight" PROVE auto = None
    <3>1. AtWork(p) /\ ~Compacting(p)
      BY <2>1 DEF AtWork, Compacting
    <3>2. \A q \in Prompts : ~Compacting(q)
      BY <3>1 DEF FlowInv, Control, OneAtWork, AtWork, Compacting
    <3>3. QED
      BY <3>2 DEF FlowInv, Control, AutoFits
  <2>2. \A p \in Prompts : Compacting(p) => auto # None
    BY DEF FlowInv, Control, AutoFits
  <2>3. QED
    BY <2>1, <2>2 DEF Early, Compacting
<1>2. \A p, q \in Early : p = q
  BY DEF Early, FlowInv, Control, OneAtWork, AtWork, Compacting
<1>3. CASE Early = {}
  <2>1. {text[p] : p \in Early} = {}
    BY <1>3
  <2>2. QED
    BY <1>1, <1>3, <2>1, FS_EmptySet
<1>4. CASE Early # {}
  <2>1. PICK p : Early = {p}
    BY <1>2, <1>4
  <2>2. {text[q] : q \in Early} = {text[p]}
    BY <2>1
  <2>3. \A x : IsFiniteSet({x}) /\ Cardinality({x}) = 1
    BY FS_Singleton
  <2>4. IsFiniteSet({p}) /\ Cardinality({p}) = 1 /\ IsFiniteSet({text[p]}) /\ Cardinality({text[p]}) = 1
    BY <2>3
  <2>5. QED
    BY <1>1, <2>1, <2>2, <2>4
<1>5. QED
  BY <1>3, <1>4

LEMMA KeptInPlaces ==
  ASSUME FlowInv, PlaceInv
  PROVE  MessagesKept
<1> DEFINE saved == {i \in DOMAIN branch : branch[i].kind = "user"}
           A == Range(steering)
           B == Range(followUp)
           C == Range(run.pending)
           D == UserIds(branch)
           E == cleared
           F == LostUsers
           G == In("early")
<1>0. /\ TypeInv /\ PlacesFit /\ steering \in Seq(Nat) /\ followUp \in Seq(Nat) /\ run.pending \in Seq(Nat)
      /\ branch \in Seq(Entry) /\ IsFiniteSet(Told) /\ Cardinality(Told) = used.texts
  BY DEF FlowInv, TypeInv, PlaceInv, PlacesFit, Runs
<1>1. /\ IsFiniteSet(A) /\ Cardinality(A) = Len(steering) /\ IsFiniteSet(B) /\ Cardinality(B) = Len(followUp)
      /\ IsFiniteSet(C) /\ Cardinality(C) = Len(run.pending)
  BY <1>0, DistinctLength DEF PlacesFit
<1>2. IsFiniteSet(D) /\ Cardinality(saved) = Cardinality(D) /\ {branch[i].id : i \in saved} = D
  <2>1. IsFiniteSet(D) /\ Cardinality(saved) = Cardinality(D)
    BY <1>0, DistinctUsers DEF PlacesFit
  <2>2. {branch[i].id : i \in saved} = D
    BY DEF UserIds
  <2>3. QED
    BY <2>1, <2>2
<1>3. Told = A \cup B \cup C \cup D \cup E \cup F \cup G
  BY ToldParts
<1>4. /\ A = In("steering") /\ B = In("followUp") /\ C = In("pending") /\ D \subseteq In("branch")
      /\ E = In("cleared") /\ F \subseteq In("lost") /\ G = {text[p] : p \in Early}
  <2>1. D \subseteq Ids(branch)
    BY <1>0 DEF UserIds, Ids
  <2>2. F \subseteq {m.id : m \in unheard}
    BY DEF LostUsers
  <2>3. QED
    BY <2>1, <2>2, InFacts
<1>5. \A b, c \in Places : \A x : b # c /\ x \in In(b) => x \notin In(c)
  BY <1>0, Apartness DEF PlacesFit
<1>6. IsFiniteSet(G) /\ Cardinality(Early) = Cardinality(G)
  BY <1>4, EarlyFacts
<1>7. {m.id : m \in {n \in unheard : n.kind = "user"}} = F
  BY DEF LostUsers
<1> HIDE DEF saved, A, B, C, D, E, F, G
<1>8. IsFiniteSet(E) /\ IsFiniteSet(F)
  BY <1>0, <1>3, FS_Subset
<1>a. A \cap B = {} /\ (A \cup B) \cap C = {} /\ (A \cup B \cup C) \cap D = {} /\ (A \cup B \cup C \cup D) \cap E = {}
      /\ (A \cup B \cup C \cup D \cup E) \cap F = {} /\ (A \cup B \cup C \cup D \cup E \cup F) \cap G = {}
  <2>1. G = In("early")
    BY DEF G
  <2>2. QED
    BY <1>4, <1>5, <2>1 DEF Places
<1>b. Cardinality(A \cup B \cup C \cup D \cup E \cup F \cup G)
        = Len(steering) + Len(followUp) + Len(run.pending) + Cardinality(D) + Cardinality(E) + Cardinality(F) + Cardinality(G)
  <2>1. IsFiniteSet(A \cup B) /\ Cardinality(A \cup B) = Cardinality(A) + Cardinality(B)
        /\ Cardinality(A) \in Nat /\ Cardinality(B) \in Nat
    BY <1>1, <1>a, DisjointUnion
  <2>2. IsFiniteSet(A \cup B \cup C) /\ Cardinality(A \cup B \cup C) = Cardinality(A \cup B) + Cardinality(C)
        /\ Cardinality(C) \in Nat
    BY <1>1, <1>a, <2>1, DisjointUnion
  <2>3. IsFiniteSet(A \cup B \cup C \cup D) /\ Cardinality(A \cup B \cup C \cup D) = Cardinality(A \cup B \cup C) + Cardinality(D)
        /\ Cardinality(D) \in Nat
    BY <1>2, <1>a, <2>2, DisjointUnion
  <2>4. IsFiniteSet(A \cup B \cup C \cup D \cup E) /\ Cardinality(E) \in Nat
        /\ Cardinality(A \cup B \cup C \cup D \cup E) = Cardinality(A \cup B \cup C \cup D) + Cardinality(E)
    BY <1>8, <1>a, <2>3, DisjointUnion
  <2>5. IsFiniteSet(A \cup B \cup C \cup D \cup E \cup F) /\ Cardinality(F) \in Nat
        /\ Cardinality(A \cup B \cup C \cup D \cup E \cup F) = Cardinality(A \cup B \cup C \cup D \cup E) + Cardinality(F)
    BY <1>8, <1>a, <2>4, DisjointUnion
  <2>6. Cardinality(G) \in Nat
        /\ Cardinality(A \cup B \cup C \cup D \cup E \cup F \cup G) = Cardinality(A \cup B \cup C \cup D \cup E \cup F) + Cardinality(G)
    BY <1>6, <1>a, <2>5, DisjointUnion
  <2>7. QED
    BY <1>1, <2>1, <2>2, <2>3, <2>4, <2>5, <2>6
<1>c. Len(steering) + Len(followUp) + Len(run.pending) + Cardinality(saved) + Cardinality(E) + Cardinality(F)
        + Cardinality(Early) = used.texts
  BY <1>0, <1>2, <1>3, <1>6, <1>b
<1>d. Cardinality(A \cup B \cup C \cup {branch[i].id : i \in saved} \cup E \cup F \cup {text[p] : p \in Early}) = used.texts
  BY <1>0, <1>2, <1>3, <1>4
<1>e. {p \in Prompts : prompt[p] \in {"preflight", "authorizing", "summarizing"} /\ (auto # None => auto.pre)} = Early
  BY EarlyFacts
<1>f. /\ Len(steering) + Len(followUp) + Len(run.pending) + Cardinality(saved)
           + Cardinality(cleared) + Cardinality({m.id : m \in {n \in unheard : n.kind = "user"}}) + Cardinality(Early) = used.texts
      /\ Cardinality(Range(steering) \cup Range(followUp) \cup Range(run.pending)
           \cup {branch[i].id : i \in saved} \cup cleared \cup {m.id : m \in {n \in unheard : n.kind = "user"}}
           \cup {text[p] : p \in Early}) = used.texts
  BY <1>7, <1>c, <1>d DEF A, B, C, E
<1>g. QED
  BY <1>e, <1>f DEF MessagesKept, saved

LEMMA TypesKept ==
  ASSUME FlowInv, PlaceInv
  PROVE  TypeOK
<1>1. \A q \in {steering, followUp, run.pending} : Range(q) \subseteq 1 .. (nextId - 1)
  BY InFacts DEF PlaceInv, PlacesFit, Places
<1>2. (manual = "idle") = connected /\ \A p \in Prompts : prompt[p] \in {"authorizing", "summarizing"} => auto # None
  <2>1. manual = "idle" <=> connected
    BY DEF FlowInv, Control, ManualFits
  <2>2. connected \in BOOLEAN
    BY DEF FlowInv, TypeInv
  <2>3. QED
    BY <2>1, <2>2 DEF FlowInv, Control, AutoFits, Compacting
<1>3. QED
  BY <1>1, <1>2 DEF FlowInv, TypeInv, TypeOK, Runs, Phases, Steps

\* Every message of the user is kept: in a queue, with a run or a call, in the session, or
\* given back by clearQueue; and clients are shown as queued what is queued.
THEOREM MessagesHold == Spec => [](TypeOK /\ MessagesKept /\ DisplayedIsQueued)
<1>1. FlowInv /\ PlaceInv => TypeOK /\ MessagesKept /\ DisplayedIsQueued
  BY TypesKept, KeptInPlaces DEF PlaceInv
<1>2. QED
  BY <1>1, FlowHolds, PlacesHold, PTL

-----------------------------------------------------------------------------
(* What the session is opened with again *)

\* A message that neither failed nor is unheard stays in the context.
Stays(m, gone) == ~Failed(m) /\ ~Overflowed(m) /\ m \notin gone

\* s and t have the same messages that stay, in the same order.
Agree(s, t, gone) ==
  /\ \A i \in 1 .. Len(s) : Stays(s[i], gone) => \E j \in 1 .. Len(t) : s[i] = t[j]
  /\ \A j \in 1 .. Len(t) : Stays(t[j], gone) => \E i \in 1 .. Len(s) : s[i] = t[j]
  /\ \A h, i \in 1 .. Len(s) : \A j, k \in 1 .. Len(t) :
       Stays(s[h], gone) /\ Stays(s[i], gone) /\ s[h] = t[j] /\ s[i] = t[k] => (h < i <=> j < k)

LEMMA AgreeSelf ==
  ASSUME NEW t \in Seq(Entry), Distinct(t), NEW gone
  PROVE  Agree(t, t, gone)
<1>1. \A h, j \in 1 .. Len(t) : t[h] = t[j] => h = j
  BY DEF Distinct
<1>2. QED
  BY <1>1 DEF Agree

\* What both end with, new to both, does not change that they agree.
LEMMA AgreeConcat ==
  ASSUME NEW s \in Seq(Entry), NEW t \in Seq(Entry), NEW q \in Seq(Entry), NEW gone, Agree(s, t, gone), Distinct(q),
         \A i \in 1 .. Len(q) : \A j \in 1 .. Len(s) : q[i] # s[j],
         \A i \in 1 .. Len(q) : \A j \in 1 .. Len(t) : q[i] # t[j]
  PROVE  Agree(s \o q, t \o q, gone)
<1> DEFINE a == s \o q
           b == t \o q
           m == Len(s)
           n == Len(t)
           l == Len(q)
<1>1. /\ a \in Seq(Entry) /\ b \in Seq(Entry) /\ m \in Nat /\ n \in Nat /\ l \in Nat
      /\ Len(a) = m + l /\ Len(b) = n + l
  BY ConcatProperties, LenProperties
<1>2. /\ \A i \in 1 .. Len(a) : (i \in 1 .. m /\ a[i] = s[i]) \/ (i - m \in 1 .. l /\ a[i] = q[i - m])
      /\ \A i \in 1 .. m : i \in 1 .. Len(a) /\ a[i] = s[i]
      /\ \A i \in 1 .. l : m + i \in 1 .. Len(a) /\ a[m + i] = q[i]
  BY ConcatPlaces
<1>3. /\ \A i \in 1 .. Len(b) : (i \in 1 .. n /\ b[i] = t[i]) \/ (i - n \in 1 .. l /\ b[i] = q[i - n])
      /\ \A i \in 1 .. n : i \in 1 .. Len(b) /\ b[i] = t[i]
      /\ \A i \in 1 .. l : n + i \in 1 .. Len(b) /\ b[n + i] = q[i]
  BY ConcatPlaces
<1>4. /\ \A i \in 1 .. m : Stays(s[i], gone) => \E j \in 1 .. n : s[i] = t[j]
      /\ \A j \in 1 .. n : Stays(t[j], gone) => \E i \in 1 .. m : s[i] = t[j]
      /\ \A h, i \in 1 .. m : \A j, k \in 1 .. n :
           Stays(s[h], gone) /\ Stays(s[i], gone) /\ s[h] = t[j] /\ s[i] = t[k] => (h < i <=> j < k)
      /\ \A i \in 1 .. l : \A j \in 1 .. m : q[i] # s[j]
      /\ \A i \in 1 .. l : \A j \in 1 .. n : q[i] # t[j]
      /\ \A i, j \in 1 .. l : q[i] = q[j] => i = j
  BY DEF Agree, Distinct
<1> HIDE DEF a, b, m, n, l
<1>5. ASSUME NEW i \in 1 .. Len(a), Stays(a[i], gone) PROVE \E j \in 1 .. Len(b) : a[i] = b[j]
  <2>1. CASE i \in 1 .. m /\ a[i] = s[i]
    BY <1>3, <1>4, <1>5, <2>1
  <2>2. CASE i - m \in 1 .. l /\ a[i] = q[i - m]
    BY <1>3, <2>2
  <2>3. QED
    BY <1>2, <2>1, <2>2
<1>6. ASSUME NEW j \in 1 .. Len(b), Stays(b[j], gone) PROVE \E i \in 1 .. Len(a) : a[i] = b[j]
  <2>1. CASE j \in 1 .. n /\ b[j] = t[j]
    BY <1>2, <1>4, <1>6, <2>1
  <2>2. CASE j - n \in 1 .. l /\ b[j] = q[j - n]
    BY <1>2, <2>2
  <2>3. QED
    BY <1>3, <2>1, <2>2
<1>7. ASSUME NEW i \in 1 .. Len(a), NEW j \in 1 .. Len(b), a[i] = b[j]
      PROVE  \/ i \in 1 .. m /\ a[i] = s[i] /\ j \in 1 .. n /\ b[j] = t[j] /\ s[i] = t[j]
             \/ i - m \in 1 .. l /\ j - n \in 1 .. l /\ i - m = j - n
  <2>1. (j \in 1 .. n /\ b[j] = t[j]) \/ (j - n \in 1 .. l /\ b[j] = q[j - n])
    BY <1>3
  <2>2. CASE i \in 1 .. m /\ a[i] = s[i]
    <3>1. ~(j - n \in 1 .. l /\ b[j] = q[j - n])
      BY <1>4, <1>7, <2>2
    <3>2. QED
      BY <1>7, <2>1, <2>2, <3>1
  <2>3. CASE i - m \in 1 .. l /\ a[i] = q[i - m]
    <3>1. ~(j \in 1 .. n /\ b[j] = t[j])
      BY <1>4, <1>7, <2>3
    <3>2. j - n \in 1 .. l /\ b[j] = q[j - n]
      BY <2>1, <3>1
    <3>3. QED
      BY <1>4, <1>7, <2>3, <3>2
  <2>4. QED
    BY <1>2, <2>2, <2>3
<1>8. ASSUME NEW h \in 1 .. Len(a), NEW i \in 1 .. Len(a), NEW j \in 1 .. Len(b), NEW k \in 1 .. Len(b),
             Stays(a[h], gone), Stays(a[i], gone), a[h] = b[j], a[i] = b[k]
      PROVE  h < i <=> j < k
  <2>1. CASE /\ h \in 1 .. m /\ a[h] = s[h] /\ j \in 1 .. n /\ s[h] = t[j]
             /\ i \in 1 .. m /\ a[i] = s[i] /\ k \in 1 .. n /\ s[i] = t[k]
    BY <1>4, <1>8, <2>1
  <2>2. CASE h \in 1 .. m /\ j \in 1 .. n /\ i - m \in 1 .. l /\ k - n \in 1 .. l
    BY <1>1, <2>2
  <2>3. CASE i \in 1 .. m /\ k \in 1 .. n /\ h - m \in 1 .. l /\ j - n \in 1 .. l
    BY <1>1, <2>3
  <2>4. CASE h - m = j - n /\ i - m = k - n
    BY <1>1, <2>4
  <2>5. QED
    BY <1>7, <1>8, <2>1, <2>2, <2>3, <2>4
<1>9. QED
  BY <1>5, <1>6, <1>8 DEF Agree, a, b

LEMMA AgreeAppend ==
  ASSUME NEW s \in Seq(Entry), NEW t \in Seq(Entry), NEW m \in Entry, NEW gone, Agree(s, t, gone),
         \A j \in 1 .. Len(s) : m # s[j], \A j \in 1 .. Len(t) : m # t[j]
  PROVE  Agree(Append(s, m), Append(t, m), gone)
<1> DEFINE q == <<m>>
<1>1. Append(s, m) = s \o q /\ Append(t, m) = t \o q
  BY AppendIsConcat
<1>2. q \in Seq(Entry) /\ Len(q) = 1 /\ q[1] = m /\ Distinct(q)
  BY OnePlace, SinglePlace
<1> HIDE DEF q
<1>3. \A i \in 1 .. Len(q) : q[i] = m
  BY <1>2
<1>4. Agree(s \o q, t \o q, gone)
  BY <1>2, <1>3, AgreeConcat
<1>5. QED
  BY <1>1, <1>4

\* What nobody heard is only in the context.
LEMMA AgreeUnheard ==
  ASSUME NEW s \in Seq(Entry), NEW t \in Seq(Entry), NEW m \in Entry, NEW gone, Agree(s, t, gone),
         \A j \in 1 .. Len(t) : m # t[j]
  PROVE  Agree(Append(s, m), t, gone \cup {m})
<1> DEFINE a == Append(s, m)
<1>1. /\ \A i \in 1 .. Len(a) : (i \in 1 .. Len(s) /\ a[i] = s[i]) \/ a[i] = m
      /\ \A i \in 1 .. Len(s) : i \in 1 .. Len(a) /\ a[i] = s[i]
  BY AddedPlaces
<1> HIDE DEF a
<1>2. \A x : Stays(x, gone \cup {m}) => Stays(x, gone) /\ x # m
  BY DEF Stays
<1>3. \A i \in 1 .. Len(a) : Stays(a[i], gone \cup {m}) => i \in 1 .. Len(s) /\ a[i] = s[i] /\ Stays(s[i], gone)
  BY <1>1, <1>2
<1>4. \A j \in 1 .. Len(t) : Stays(t[j], gone \cup {m}) => Stays(t[j], gone)
  BY <1>2
<1>5. /\ \A i \in 1 .. Len(s) : Stays(s[i], gone) => \E j \in 1 .. Len(t) : s[i] = t[j]
      /\ \A j \in 1 .. Len(t) : Stays(t[j], gone) => \E i \in 1 .. Len(s) : s[i] = t[j]
      /\ \A h, i \in 1 .. Len(s) : \A j, k \in 1 .. Len(t) :
           Stays(s[h], gone) /\ Stays(s[i], gone) /\ s[h] = t[j] /\ s[i] = t[k] => (h < i <=> j < k)
  BY DEF Agree
<1>6. \A i \in 1 .. Len(a) : Stays(a[i], gone \cup {m}) => \E j \in 1 .. Len(t) : a[i] = t[j]
  BY <1>3, <1>5
<1>7. \A j \in 1 .. Len(t) : Stays(t[j], gone \cup {m}) => \E i \in 1 .. Len(a) : a[i] = t[j]
  <2>1. SUFFICES ASSUME NEW j \in 1 .. Len(t), Stays(t[j], gone \cup {m}) PROVE \E i \in 1 .. Len(a) : a[i] = t[j]
    OBVIOUS
  <2>2. PICK i \in 1 .. Len(s) : s[i] = t[j]
    BY <1>4, <1>5, <2>1
  <2>3. QED
    BY <1>1, <2>2
<1>8. ASSUME NEW h \in 1 .. Len(a), NEW i \in 1 .. Len(a), NEW j \in 1 .. Len(t), NEW k \in 1 .. Len(t),
             Stays(a[h], gone \cup {m}), Stays(a[i], gone \cup {m}), a[h] = t[j], a[i] = t[k]
      PROVE  h < i <=> j < k
  <2>1. /\ h \in 1 .. Len(s) /\ a[h] = s[h] /\ Stays(s[h], gone)
        /\ i \in 1 .. Len(s) /\ a[i] = s[i] /\ Stays(s[i], gone)
    BY <1>3, <1>8
  <2>2. QED
    BY <1>5, <1>8, <2>1
<1>9. QED
  BY <1>6, <1>7, <1>8 DEF Agree, a

LEMMA AgreeFront ==
  ASSUME NEW s \in Seq(Entry), s # <<>>, NEW t \in Seq(Entry), NEW gone, Agree(s, t, gone), ~Stays(Last(s), gone)
  PROVE  Agree(Front(s), t, gone)
<1> DEFINE f == Front(s)
           n == Len(s)
<1>1. n \in Nat /\ Len(f) = n - 1 /\ \A i \in 1 .. n - 1 : f[i] = s[i]
  BY FrontFacts, LenProperties
<1>2. Last(s) = s[n]
  BY FrontFacts
<1> HIDE DEF f, n
<1>3. \A i \in 1 .. n - 1 : i \in 1 .. n
  BY <1>1
<1>4. \A i \in 1 .. n : Stays(s[i], gone) => i \in 1 .. n - 1
  BY <1>1, <1>2
<1>5. \A i \in 1 .. Len(f) : i \in 1 .. n /\ f[i] = s[i]
  BY <1>1, <1>3
<1>6. \A i \in 1 .. n : Stays(s[i], gone) => i \in 1 .. Len(f) /\ f[i] = s[i]
  BY <1>1, <1>4
<1>7. /\ \A i \in 1 .. n : Stays(s[i], gone) => \E j \in 1 .. Len(t) : s[i] = t[j]
      /\ \A j \in 1 .. Len(t) : Stays(t[j], gone) => \E i \in 1 .. n : s[i] = t[j]
      /\ \A h, i \in 1 .. n : \A j, k \in 1 .. Len(t) :
           Stays(s[h], gone) /\ Stays(s[i], gone) /\ s[h] = t[j] /\ s[i] = t[k] => (h < i <=> j < k)
  BY DEF Agree, n
<1>8. \A j \in 1 .. Len(t) : Stays(t[j], gone) => \E i \in 1 .. Len(f) : f[i] = t[j]
  BY <1>6, <1>7
<1>9. QED
  BY <1>5, <1>7, <1>8 DEF Agree, f

\* The context of a path has no entry twice.
LEMMA ContextDistinct ==
  ASSUME NEW path \in Seq(Entry), DistinctIds(path)
  PROVE  Distinct(ContextEntries(path))
<1>1. /\ Len(ContextEntries(path)) = ContextLength(path)
      /\ \A i \in 1 .. ContextLength(path) :
           Source(path, i) \in 1 .. Len(path) /\ ContextEntries(path)[i] = path[Source(path, i)]
      /\ \A i, j \in 1 .. ContextLength(path) : Source(path, i) = Source(path, j) => i = j
  BY ContextFacts
<1>2. \A i, j \in 1 .. Len(path) : path[i] = path[j] => i = j
  BY DEF DistinctIds
<1>3. QED
  BY <1>1, <1>2 DEF Distinct

-----------------------------------------------------------------------------
(* Calls of tools and their results *)

\* The result of a call comes right after it, and a call has its result next unless it
\* is the last entry and open, or its result went unheard.
Linked(s, open, missing) ==
  \A i \in 1 .. Len(s) :
    /\ s[i].kind = "toolResult" => i > 1 /\ s[i - 1].stop = "toolUse" /\ s[i].ref = s[i - 1].id
    /\ s[i].stop = "toolUse" =>
         \/ i = Len(s) /\ s[i] \in open
         \/ i < Len(s) /\ s[i + 1].kind = "toolResult"
         \/ s[i].id \in missing

\* What a compaction of the path keeps does not begin with a result.
CompactionsFit(path) ==
  \A i \in 1 .. Len(path) :
    path[i].kind = "compaction" => \E k \in 1 .. (i - 1) : path[k].id = path[i].ref /\ IsCutPoint(path[k])

LEMMA LinkedAppend ==
  ASSUME NEW s \in Seq(Entry), NEW m \in Entry, NEW missing, Linked(s, {}, missing), NEW open,
         m.kind # "toolResult", m.stop = "toolUse" => m \in open
  PROVE  Linked(Append(s, m), open, missing)
<1> DEFINE a == Append(s, m)
           n == Len(s)
<1>1. /\ Len(a) = n + 1 /\ n \in Nat /\ a[n + 1] = m
      /\ \A i \in 1 .. n : i \in 1 .. Len(a) /\ a[i] = s[i]
      /\ \A i \in 1 .. Len(a) : i \in 1 .. n \/ i = n + 1
  BY AddedPlaces
<1>2. \A i \in 1 .. n :
        /\ s[i].kind = "toolResult" => i > 1 /\ s[i - 1].stop = "toolUse" /\ s[i].ref = s[i - 1].id
        /\ s[i].stop = "toolUse" => (i < n /\ s[i + 1].kind = "toolResult") \/ s[i].id \in missing
  BY DEF Linked
<1> HIDE DEF a, n
<1>3. SUFFICES ASSUME NEW i \in 1 .. Len(a)
               PROVE  /\ a[i].kind = "toolResult" => i > 1 /\ a[i - 1].stop = "toolUse" /\ a[i].ref = a[i - 1].id
                      /\ a[i].stop = "toolUse" =>
                           \/ i = Len(a) /\ a[i] \in open
                           \/ i < Len(a) /\ a[i + 1].kind = "toolResult"
                           \/ a[i].id \in missing
  BY DEF Linked, a
<1>4. CASE i = n + 1
  BY <1>1, <1>4
<1>5. CASE i \in 1 .. n
  <2>1. i > 1 => i - 1 \in 1 .. n /\ a[i - 1] = s[i - 1]
    BY <1>1, <1>5
  <2>2. i < n => i + 1 \in 1 .. n /\ a[i + 1] = s[i + 1] /\ i < Len(a)
    BY <1>1, <1>5
  <2>3. QED
    BY <1>1, <1>2, <1>5, <2>1, <2>2
<1>6. QED
  BY <1>1, <1>4, <1>5

LEMMA LinkedResult ==
  ASSUME NEW s \in Seq(Entry), s # <<>>, NEW m \in Entry, NEW missing, Linked(s, {Last(s)}, missing),
         Last(s).stop = "toolUse", m.kind = "toolResult", m.ref = Last(s).id
  PROVE  Linked(Append(s, m), {}, missing)
<1> DEFINE a == Append(s, m)
           n == Len(s)
<1>1. /\ Len(a) = n + 1 /\ n \in Nat /\ a[n + 1] = m
      /\ \A i \in 1 .. n : i \in 1 .. Len(a) /\ a[i] = s[i]
      /\ \A i \in 1 .. Len(a) : i \in 1 .. n \/ i = n + 1
  BY AddedPlaces
<1>2. \A i \in 1 .. n :
        /\ s[i].kind = "toolResult" => i > 1 /\ s[i - 1].stop = "toolUse" /\ s[i].ref = s[i - 1].id
        /\ s[i].stop = "toolUse" => i = n \/ (i < n /\ s[i + 1].kind = "toolResult") \/ s[i].id \in missing
  BY DEF Linked
<1>a. Last(s) = s[n] /\ n # 0
  BY FrontFacts, EmptySeq
<1>b. m.stop # "toolUse"
  BY EntryTyped
<1> HIDE DEF a, n
<1>c. n \in 1 .. n /\ a[n] = Last(s)
  BY <1>1, <1>a
<1>3. SUFFICES ASSUME NEW i \in 1 .. Len(a)
               PROVE  /\ a[i].kind = "toolResult" => i > 1 /\ a[i - 1].stop = "toolUse" /\ a[i].ref = a[i - 1].id
                      /\ a[i].stop = "toolUse" =>
                           \/ i < Len(a) /\ a[i + 1].kind = "toolResult"
                           \/ a[i].id \in missing
  BY DEF Linked, a
<1>4. CASE i = n + 1
  <2>1. i > 1 /\ i - 1 = n
    BY <1>1, <1>a, <1>4
  <2>2. a[i] = m /\ a[i - 1] = Last(s)
    BY <1>1, <1>4, <1>c, <2>1
  <2>3. QED
    BY <1>b, <2>1, <2>2
<1>5. CASE i \in 1 .. n
  <2>1. i > 1 => i - 1 \in 1 .. n /\ a[i - 1] = s[i - 1]
    BY <1>1, <1>5
  <2>2. i < n => i + 1 \in 1 .. n /\ a[i + 1] = s[i + 1] /\ i < Len(a)
    BY <1>1, <1>5
  <2>3. i = n => i < Len(a) /\ a[i + 1] = m
    BY <1>1
  <2>4. QED
    BY <1>1, <1>2, <1>5, <2>1, <2>2, <2>3
<1>6. QED
  BY <1>1, <1>4, <1>5

LEMMA LinkedMore ==
  ASSUME NEW s, NEW open, NEW missing, NEW more, NEW open2, Linked(s, open, missing), missing \subseteq more,
         \A e \in open : e \in open2 \/ e.id \in more
  PROVE  Linked(s, open2, more)
  BY DEF Linked

LEMMA LinkedFront ==
  ASSUME NEW s \in Seq(Entry), s # <<>>, NEW missing, Linked(s, {}, missing), Last(s).kind # "toolResult"
  PROVE  Linked(Front(s), {}, missing)
<1> DEFINE f == Front(s)
           n == Len(s)
<1>1. n \in Nat /\ Len(f) = n - 1 /\ (\A i \in 1 .. n - 1 : f[i] = s[i]) /\ Last(s) = s[n]
  BY FrontFacts, LenProperties
<1>2. \A i \in 1 .. n :
        /\ s[i].kind = "toolResult" => i > 1 /\ s[i - 1].stop = "toolUse" /\ s[i].ref = s[i - 1].id
        /\ s[i].stop = "toolUse" => (i < n /\ s[i + 1].kind = "toolResult") \/ s[i].id \in missing
  BY DEF Linked
<1> HIDE DEF f, n
<1>3. SUFFICES ASSUME NEW i \in 1 .. n - 1
               PROVE  /\ f[i].kind = "toolResult" => i > 1 /\ f[i - 1].stop = "toolUse" /\ f[i].ref = f[i - 1].id
                      /\ f[i].stop = "toolUse" =>
                           \/ i < Len(f) /\ f[i + 1].kind = "toolResult"
                           \/ f[i].id \in missing
  BY <1>1 DEF Linked, f
<1>4. i \in 1 .. n /\ f[i] = s[i]
  BY <1>1
<1>5. i > 1 => i - 1 \in 1 .. n - 1 /\ f[i - 1] = s[i - 1]
  BY <1>1
<1>6. i < n - 1 => i + 1 \in 1 .. n - 1 /\ f[i + 1] = s[i + 1] /\ i < Len(f)
  BY <1>1
<1>7. ~(i < n - 1) => i + 1 = n
  BY <1>1
<1>8. QED
  BY <1>1, <1>2, <1>4, <1>5, <1>6, <1>7

\* Commands of the user's shell come between a result and the next call.
LEMMA LinkedConcat ==
  ASSUME NEW s \in Seq(Entry), NEW q \in Seq(Entry), NEW missing, Linked(s, {}, missing),
         \A i \in 1 .. Len(q) : q[i].kind = "bash"
  PROVE  Linked(s \o q, {}, missing)
<1> DEFINE a == s \o q
           n == Len(s)
           l == Len(q)
<1>1. /\ n \in Nat /\ l \in Nat /\ Len(a) = n + l
      /\ \A i \in 1 .. Len(a) : (i \in 1 .. n /\ a[i] = s[i]) \/ (i - n \in 1 .. l /\ a[i] = q[i - n])
      /\ \A i \in 1 .. n : i \in 1 .. Len(a) /\ a[i] = s[i]
  BY ConcatPlaces, ConcatProperties, LenProperties
<1>2. \A i \in 1 .. n :
        /\ s[i].kind = "toolResult" => i > 1 /\ s[i - 1].stop = "toolUse" /\ s[i].ref = s[i - 1].id
        /\ s[i].stop = "toolUse" => (i < n /\ s[i + 1].kind = "toolResult") \/ s[i].id \in missing
  BY DEF Linked
<1>3. \A i \in 1 .. l : q[i].kind = "bash" /\ q[i].stop # "toolUse"
  BY EntryTyped, ElementOfSeq
<1> HIDE DEF a, n, l
<1>4. SUFFICES ASSUME NEW i \in 1 .. Len(a)
               PROVE  /\ a[i].kind = "toolResult" => i > 1 /\ a[i - 1].stop = "toolUse" /\ a[i].ref = a[i - 1].id
                      /\ a[i].stop = "toolUse" =>
                           \/ i < Len(a) /\ a[i + 1].kind = "toolResult"
                           \/ a[i].id \in missing
  BY DEF Linked, a
<1>5. CASE i - n \in 1 .. l /\ a[i] = q[i - n]
  BY <1>3, <1>5
<1>6. CASE i \in 1 .. n /\ a[i] = s[i]
  <2>1. i > 1 => i - 1 \in 1 .. n /\ a[i - 1] = s[i - 1]
    BY <1>1, <1>6
  <2>2. i < n => i + 1 \in 1 .. n /\ a[i + 1] = s[i + 1] /\ i < Len(a)
    BY <1>1, <1>6
  <2>3. QED
    BY <1>2, <1>6, <2>1, <2>2
<1>7. QED
  BY <1>1, <1>5, <1>6

\* What the session is opened with again has results after their calls if its path has.
LEMMA LinkedContext ==
  ASSUME NEW path \in Seq(Entry), DistinctIds(path), CompactionsFit(path), NEW missing, Linked(path, {}, missing)
  PROVE  Linked(ContextEntries(path), {}, missing)
<1> DEFINE c == LastCompaction(path)
           k == Find(path, path[c].ref)
           n == Len(path)
           kept == Kept(path)
           ctx == ContextEntries(path)
           l == ContextLength(path)
           At0(i) == Source(path, i)
<1>1. /\ n \in Nat /\ c \in 0 .. n /\ (c # 0 => path[c].kind = "compaction")
  BY LastCompactionFound, LenProperties
<1>2. CASE c = 0
  <2>1. ctx = path
    BY <1>2 DEF ContextEntries
  <2>2. QED
    BY <2>1
<1>3. CASE c # 0
  <2>1. PICK cut \in 1 .. (c - 1) : path[cut].id = path[c].ref /\ IsCutPoint(path[cut])
    BY <1>1, <1>3 DEF CompactionsFit
  <2>2. k \in 1 .. cut /\ path[k].id = path[cut].id
    <3>1. cut \in 1 .. n
      BY <1>1
    <3>2. k \in 1 .. cut /\ (k # 0 => path[k].id = path[c].ref)
      BY <2>1, <3>1, FindFound
    <3> HIDE DEF k
    <3>3. k # 0
      BY <3>2
    <3>4. QED
      BY <2>1, <3>2, <3>3
  <2>3. k = cut
    <3>1. \A i, j \in 1 .. n : path[i].id = path[j].id => i = j
      BY DEF DistinctIds
    <3> HIDE DEF k, n, c
    <3>2. k \in 1 .. n /\ cut \in 1 .. n
      BY <1>1, <2>1, <2>2
    <3>3. QED
      BY <2>2, <3>1, <3>2
  <2>4. kept = c - cut /\ kept \in 1 .. (c - 1)
    <3>1. IF k \in 1 .. (c - 1) THEN kept = c - k ELSE kept = 0
      BY <1>3, KeptFacts
    <3> HIDE DEF k, kept, c
    <3>2. k \in 1 .. (c - 1)
      BY <2>1, <2>3
    <3>3. QED
      BY <1>1, <2>1, <2>3, <3>1, <3>2
  <2>5. l = 1 + kept + (n - c) /\ l \in Nat
    <3>1. l = 1 + kept + (n - c)
      BY <1>3 DEF ContextLength
    <3> HIDE DEF l, kept, c, n
    <3>2. QED
      BY <1>1, <2>4, <3>1
  <2>6. /\ Len(ctx) = l
        /\ \A i \in 1 .. l : At0(i) \in 1 .. n /\ ctx[i] = path[At0(i)]
    BY ContextFacts
  <2>7. \A i \in Nat : At0(i) = IF i = 1 THEN c ELSE IF i <= kept + 1 THEN c - kept + i - 2 ELSE c + i - 1 - kept
    BY <1>3 DEF Source
  <2>8. \A i \in 1 .. n :
          /\ path[i].kind = "toolResult" => i > 1 /\ path[i - 1].stop = "toolUse" /\ path[i].ref = path[i - 1].id
          /\ path[i].stop = "toolUse" => (i < n /\ path[i + 1].kind = "toolResult") \/ path[i].id \in missing
    BY DEF Linked
  <2>9. path[c].stop = "none" /\ path[c].kind = "compaction" /\ path[cut].kind # "toolResult"
    <3>1. path[c] \in Entry
      BY <1>1, <1>3, ElementOfSeq
    <3>2. QED
      BY <1>1, <1>3, <2>1, <3>1, EntryTyped DEF IsCutPoint
  <2> HIDE DEF c, k, n, kept, ctx, l, At0
  <2>10. SUFFICES ASSUME NEW i \in 1 .. l
                  PROVE  /\ ctx[i].kind = "toolResult" => i > 1 /\ ctx[i - 1].stop = "toolUse" /\ ctx[i].ref = ctx[i - 1].id
                         /\ ctx[i].stop = "toolUse" => (i < l /\ ctx[i + 1].kind = "toolResult") \/ ctx[i].id \in missing
    BY <2>6 DEF Linked, ctx
  <2>11. i \in Nat /\ At0(i) \in 1 .. n /\ ctx[i] = path[At0(i)]
    BY <2>5, <2>6
  <2>12. CASE i = 1
    <3>1. ctx[i] = path[c]
      BY <2>7, <2>11, <2>12
    <3>2. QED
      BY <2>9, <3>1
  <2>13. CASE i # 1
    <3>1. i > 1 /\ i - 1 \in 1 .. l /\ i - 1 \in Nat
      BY <2>5, <2>10, <2>13
    <3>2. ASSUME ctx[i].kind = "toolResult" PROVE ctx[i - 1].stop = "toolUse" /\ ctx[i].ref = ctx[i - 1].id
      <4>1. path[At0(i)].kind = "toolResult"
        BY <2>11, <3>2
      <4>2. path[At0(i) - 1].stop = "toolUse" /\ path[At0(i)].ref = path[At0(i) - 1].id
        BY <2>8, <2>11, <4>1
      <4>3. i # 2
        <5>1. SUFFICES ASSUME i = 2 PROVE FALSE
          OBVIOUS
        <5>2. At0(i) = cut
          BY <1>1, <2>1, <2>4, <2>7, <2>11, <5>1
        <5>3. QED
          BY <2>9, <4>1, <5>2
      <4>4. i # kept + 2
        <5>1. SUFFICES ASSUME i = kept + 2 PROVE FALSE
          OBVIOUS
        <5>2. At0(i) = c + 1 /\ At0(i) - 1 = c
          BY <1>1, <2>4, <2>7, <2>11, <2>13, <5>1
        <5>3. path[At0(i) - 1] = path[c]
          BY <5>2
        <5>4. QED
          BY <2>9, <4>2, <5>3
      <4>5. At0(i - 1) = At0(i) - 1
        <5>1. i - 1 # 1 /\ (i <= kept + 1 <=> i - 1 <= kept + 1)
          BY <2>4, <2>11, <3>1, <4>3, <4>4
        <5>2. QED
          BY <1>1, <2>4, <2>7, <2>11, <2>13, <3>1, <5>1
      <4>6. ctx[i - 1] = path[At0(i) - 1]
        BY <2>6, <3>1, <4>5
      <4>7. QED
        BY <2>11, <4>2, <4>6
    <3>3. ASSUME ctx[i].stop = "toolUse", ctx[i].id \notin missing PROVE i < l /\ ctx[i + 1].kind = "toolResult"
      <4>1. At0(i) < n /\ path[At0(i) + 1].kind = "toolResult"
        BY <2>8, <2>11, <3>3
      <4>2. i # kept + 1
        <5>1. SUFFICES ASSUME i = kept + 1 PROVE FALSE
          OBVIOUS
        <5>2. At0(i) + 1 = c
          BY <1>1, <2>4, <2>7, <2>11, <2>13, <5>1
        <5>3. path[At0(i) + 1] = path[c]
          BY <5>2
        <5>4. QED
          BY <2>9, <4>1, <5>3
      <4>3. i # l
        <5>1. SUFFICES ASSUME i = l PROVE FALSE
          OBVIOUS
        <5>2. ~(i <= kept + 1)
          BY <1>1, <2>4, <2>5, <4>2, <5>1
        <5>3. At0(i) = c + i - 1 - kept
          BY <2>7, <2>11, <2>13, <5>2
        <5>4. At0(i) = n
          BY <1>1, <2>4, <2>5, <5>1, <5>3
        <5>5. QED
          BY <1>1, <4>1, <5>4
      <4>4. i < l /\ i + 1 \in 1 .. l /\ i + 1 \in Nat
        BY <2>5, <2>10, <4>3
      <4>5. At0(i + 1) = At0(i) + 1
        <5>1. i + 1 # 1 /\ (i <= kept + 1 <=> i + 1 <= kept + 1)
          BY <2>4, <2>11, <4>2
        <5>2. QED
          BY <1>1, <2>4, <2>7, <2>11, <2>13, <4>4, <5>1
      <4>6. ctx[i + 1] = path[At0(i) + 1]
        BY <2>6, <4>4, <4>5
      <4>7. QED
        BY <4>1, <4>4, <4>6
    <3>4. QED
      BY <3>1, <3>2, <3>3
  <2>14. QED
    BY <2>12, <2>13
<1>4. QED
  BY <1>2, <1>3

-----------------------------------------------------------------------------
(* The context and the path of the session, step by step *)

Open == IF run.phase = "tool" THEN {Last(context)} ELSE {}
Missing == {m.ref : m \in unheard}

\* The context and the path, each well-formed and in agreement.
TalkInv ==
  /\ Linked(context, Open, Missing) /\ Linked(branch, Open, Missing)
  /\ run.phase = "tool" /\ connected => branch # <<>> /\ Last(branch) = Last(context)
  /\ CompactionsFit(branch)
  /\ auto # None => auto.prep = None \/ CutAt(branch, auto.prep)
  /\ manualPrep # None => CutAt(branch, manualPrep)
  /\ Agree(context, ContextEntries(branch), unheard)

\* A context and a path that a step leaves, while no tool runs.
Talks(ctx, path) ==
  /\ Linked(ctx, {}, Missing) /\ Linked(path, {}, Missing)
  /\ CompactionsFit(path) /\ Agree(ctx, ContextEntries(path), unheard)

Extends(path, base) == \A i \in 1 .. Len(base) : i \in 1 .. Len(path) /\ path[i] = base[i]

LEMMA CutLonger ==
  ASSUME NEW path, NEW base, NEW prep, Extends(path, base), CutAt(base, prep)
  PROVE  CutAt(path, prep)
  BY DEF Extends, CutAt

LEMMA ExtendsConcat ==
  ASSUME NEW s \in Seq(Entry), NEW q \in Seq(Entry)
  PROVE  Extends(s \o q, s) /\ Extends(s, s)
<1>1. Extends(s \o q, s)
  BY ConcatPlaces DEF Extends
<1>2. QED
  BY <1>1 DEF Extends

LEMMA ExtendsAppend ==
  ASSUME NEW s \in Seq(Entry), NEW m \in Entry
  PROVE  Extends(Append(s, m), s)
  BY AddedPlaces DEF Extends

LEMMA FitConcat ==
  ASSUME NEW s \in Seq(Entry), NEW q \in Seq(Entry), CompactionsFit(s), \A i \in 1 .. Len(q) : q[i].kind # "compaction"
  PROVE  CompactionsFit(s \o q)
<1> DEFINE a == s \o q
           n == Len(s)
<1>1. /\ \A i \in 1 .. Len(a) : (i \in 1 .. n /\ a[i] = s[i]) \/ a[i].kind # "compaction"
      /\ \A i \in 1 .. n : i \in 1 .. Len(a) /\ a[i] = s[i]
      /\ n \in Nat
  BY ConcatPlaces, LenProperties
<1> HIDE DEF a
<1>2. SUFFICES ASSUME NEW i \in 1 .. Len(a), a[i].kind = "compaction"
               PROVE  \E k \in 1 .. (i - 1) : a[k].id = a[i].ref /\ IsCutPoint(a[k])
  BY DEF CompactionsFit, a
<1>3. i \in 1 .. n /\ a[i] = s[i]
  BY <1>1, <1>2
<1>4. PICK k \in 1 .. (i - 1) : s[k].id = s[i].ref /\ IsCutPoint(s[k])
  BY <1>2, <1>3 DEF CompactionsFit
<1>5. k \in 1 .. n
  BY <1>1, <1>3
<1>6. QED
  BY <1>1, <1>3, <1>4, <1>5

LEMMA FitAppend ==
  ASSUME NEW s \in Seq(Entry), NEW m \in Entry, CompactionsFit(s),
         m.kind = "compaction" => \E k \in 1 .. Len(s) : s[k].id = m.ref /\ IsCutPoint(s[k])
  PROVE  CompactionsFit(Append(s, m))
<1> DEFINE a == Append(s, m)
           n == Len(s)
<1>1. /\ \A i \in 1 .. Len(a) : (i \in 1 .. n /\ a[i] = s[i]) \/ (i = n + 1 /\ a[i] = m)
      /\ \A i \in 1 .. n : i \in 1 .. Len(a) /\ a[i] = s[i]
      /\ n \in Nat
  BY AddedPlaces
<1> HIDE DEF a
<1>2. SUFFICES ASSUME NEW i \in 1 .. Len(a), a[i].kind = "compaction"
               PROVE  \E k \in 1 .. (i - 1) : a[k].id = a[i].ref /\ IsCutPoint(a[k])
  BY DEF CompactionsFit, a
<1>3. CASE i \in 1 .. n /\ a[i] = s[i]
  <2>4. PICK k \in 1 .. (i - 1) : s[k].id = s[i].ref /\ IsCutPoint(s[k])
    BY <1>2, <1>3 DEF CompactionsFit
  <2>5. k \in 1 .. n
    BY <1>1, <1>3
  <2>6. QED
    BY <1>1, <1>3, <2>4, <2>5
<1>4. CASE i = n + 1 /\ a[i] = m
  <2>1. PICK k \in 1 .. n : s[k].id = m.ref /\ IsCutPoint(s[k])
    BY <1>2, <1>4
  <2>2. k \in 1 .. (i - 1)
    BY <1>1, <1>4
  <2>3. QED
    BY <1>1, <1>4, <2>1, <2>2
<1>5. QED
  BY <1>1, <1>3, <1>4

\* The last compaction is an entry of the path.
LEMMA InContext ==
  ASSUME NEW path \in Seq(Entry), NEW j \in 1 .. Len(ContextEntries(path))
  PROVE  \E i \in 1 .. Len(path) : ContextEntries(path)[j] = path[i]
  BY ContextFacts

\* A message that is neither in the session nor unheard is not in the context.
LEMMA NewToBoth ==
  ASSUME FlowInv, PlaceInv, NEW id, id \notin In("branch"), id \notin In("lost")
  PROVE  /\ \A j \in 1 .. Len(context) : context[j].id # id
         /\ \A j \in 1 .. Len(branch) : branch[j].id # id
         /\ \A j \in 1 .. Len(ContextEntries(branch)) : ContextEntries(branch)[j].id # id
<1>1. branch \in Seq(Entry) /\ DOMAIN branch = 1 .. Len(branch)
  BY DEF FlowInv, TypeInv
<1>2. \A j \in 1 .. Len(branch) : branch[j].id # id
  BY <1>1, InFacts DEF Ids
<1>3. \A m \in unheard : m.id # id
  BY InFacts
<1>4. \A j \in 1 .. Len(context) : context[j] \in unheard \/ \E i \in 1 .. Len(branch) : context[j] = branch[i]
  BY DEF PlaceInv, PlacesFit
<1>5. QED
  BY <1>1, <1>2, <1>3, <1>4, InContext

LEMMA TalkKept ==
  ASSUME TalkInv, UNCHANGED <<context, branch, unheard>>, run'.phase = "tool" <=> run.phase = "tool",
         run.phase = "tool" /\ connected' => connected,
         auto' # None => auto'.prep = None \/ CutAt(branch, auto'.prep),
         manualPrep' # None => CutAt(branch, manualPrep')
  PROVE  TalkInv'
<1>1. Open' = Open /\ Missing' = Missing
  BY DEF Open, Missing
<1>2. QED
  BY <1>1 DEF TalkInv

\* A message that a run adds.
LEMMA TalkAdded ==
  ASSUME FlowInv, PlaceInv, TalkInv, NEW m \in Entry, Added(m), m.kind # "compaction",
         m.id \notin In("branch"), m.id \notin In("lost"), UNCHANGED <<connected, auto, manualPrep>>,
         \/ run.phase # "tool" /\ m.kind # "toolResult" /\ (run'.phase = "tool" <=> m.stop = "toolUse")
         \/ /\ run.phase = "tool" /\ run'.phase # "tool" /\ m.kind = "toolResult" /\ m.ref = Last(context).id
            /\ context # <<>> /\ Last(context).stop = "toolUse"
  PROVE  TalkInv'
<1>0. /\ context \in Seq(Entry) /\ branch \in Seq(Entry)
      /\ context' = Append(context, m) /\ context' # <<>> /\ Last(context') = m
  BY AppendLast DEF FlowInv, TypeInv, Added
<1>1. /\ \A j \in 1 .. Len(context) : m # context[j]
      /\ \A j \in 1 .. Len(ContextEntries(branch)) : m # ContextEntries(branch)[j]
  BY NewToBoth
<1>2. ContextEntries(branch) \in Seq(Entry) /\ Agree(context, ContextEntries(branch), unheard)
  BY <1>0, ContextFacts DEF TalkInv
<1>3. Agree(context', ContextEntries(branch'), unheard')
  <2>1. CASE connected
    <3>1. branch' = Append(branch, m) /\ unheard' = unheard /\ ContextEntries(branch') = Append(ContextEntries(branch), m)
      BY <1>0, <2>1, ContextOfAppended DEF Added
    <3>2. QED
      BY <1>0, <1>1, <1>2, <3>1, AgreeAppend
  <2>2. CASE ~connected
    <3>1. branch' = branch /\ unheard' = unheard \cup {m}
      BY <2>2 DEF Added
    <3>2. QED
      BY <1>0, <1>1, <1>2, <3>1, AgreeUnheard
  <2>3. QED
    BY <2>1, <2>2
<1>4. CompactionsFit(branch') /\ Extends(branch', branch)
  <2>1. CompactionsFit(branch) /\ Extends(branch, branch)
    BY <1>0, ExtendsConcat DEF TalkInv
  <2>2. CompactionsFit(Append(branch, m)) /\ Extends(Append(branch, m), branch)
    BY <1>0, <2>1, FitAppend, ExtendsAppend
  <2>3. QED
    BY <2>1, <2>2 DEF Added
<1>5. /\ auto' # None => auto'.prep = None \/ CutAt(branch', auto'.prep)
      /\ manualPrep' # None => CutAt(branch', manualPrep')
  BY <1>4, CutLonger DEF TalkInv
<1>6. Missing \subseteq Missing' /\ (~connected => m.ref \in Missing') /\ (connected => Missing' = Missing)
  BY DEF Missing, Added
<1>7. CASE run.phase # "tool" /\ m.kind # "toolResult" /\ (run'.phase = "tool" <=> m.stop = "toolUse")
  <2>1. Linked(context, {}, Missing) /\ Linked(branch, {}, Missing)
    BY <1>7 DEF TalkInv, Open
  <2>2. Linked(context, {}, Missing') /\ Linked(branch, {}, Missing')
    BY <1>6, <2>1, LinkedMore
  <2>3. m.stop = "toolUse" => m \in Open'
    BY <1>0, <1>7 DEF Open
  <2>4. Linked(Append(context, m), Open', Missing') /\ Linked(Append(branch, m), Open', Missing')
    BY <1>0, <1>7, <2>2, <2>3, LinkedAppend
  <2>5. Linked(branch, Open', Missing')
    BY <2>2, LinkedMore
  <2>6. Linked(context', Open', Missing') /\ Linked(branch', Open', Missing')
    BY <1>0, <2>4, <2>5 DEF Added
  <2>7. connected => branch' # <<>> /\ Last(branch') = m
    BY <1>0, AppendLast DEF Added
  <2>8. QED
    BY <1>0, <1>3, <1>4, <1>5, <2>6, <2>7 DEF TalkInv
<1>8. CASE /\ run.phase = "tool" /\ run'.phase # "tool" /\ m.kind = "toolResult" /\ m.ref = Last(context).id
           /\ context # <<>> /\ Last(context).stop = "toolUse"
  <2>1. Linked(context, {Last(context)}, Missing) /\ Linked(branch, {Last(context)}, Missing) /\ Open' = {}
    BY <1>8 DEF TalkInv, Open
  <2>2. Linked(context, {Last(context)}, Missing') /\ Linked(branch, {Last(context)}, Missing')
    BY <1>6, <2>1, LinkedMore
  <2>3. Linked(Append(context, m), {}, Missing')
    BY <1>0, <1>8, <2>2, LinkedResult
  <2>4. CASE connected
    <3>1. branch # <<>> /\ Last(branch) = Last(context)
      BY <1>8, <2>4 DEF TalkInv
    <3>2. Linked(Append(branch, m), {}, Missing')
      BY <1>0, <1>8, <2>2, <3>1, LinkedResult
    <3>3. branch' = Append(branch, m)
      BY <2>4 DEF Added
    <3>4. QED
      BY <1>0, <1>3, <1>4, <1>5, <1>8, <2>1, <2>3, <3>2, <3>3 DEF TalkInv
  <2>5. CASE ~connected
    <3>1. Last(context).id \in Missing'
      BY <1>6, <1>8, <2>5
    <3>2. Linked(branch, {}, Missing')
      BY <2>2, <3>1, LinkedMore
    <3>3. branch' = branch
      BY <2>5 DEF Added
    <3>4. QED
      BY <1>0, <1>3, <1>4, <1>5, <1>8, <2>1, <2>3, <3>2, <3>3 DEF TalkInv
  <2>6. QED
    BY <2>4, <2>5
<1>9. QED
  BY <1>7, <1>8

\* A step that leaves a context and a path, and may add to both what waited.
LEMMA TalkOn ==
  ASSUME FlowInv, PlaceInv, TalkInv, NEW ctx \in Seq(Entry), NEW path \in Seq(Entry), Talks(ctx, path),
         NEW flushed \in {<<>>, pendingBash}, flushed = <<>> \/ (Longer(path) /\ From(ctx, path)),
         Extends(path, branch), context' = ctx \o flushed, branch' = path \o flushed,
         UNCHANGED unheard, run'.phase # "tool",
         auto' # None => auto'.prep = None \/ CutAt(branch, auto'.prep),
         manualPrep' # None => CutAt(branch, manualPrep')
  PROVE  TalkInv'
<1>0. /\ branch \in Seq(Entry) /\ pendingBash \in Seq(Entry) /\ <<>> \in Seq(Entry)
      /\ DistinctIds(pendingBash) /\ \A i \in 1 .. Len(pendingBash) : pendingBash[i].kind = "bash"
  BY EmptySeq DEF FlowInv, TypeInv, PlaceInv, PlacesFit
<1>1. /\ flushed \in Seq(Entry) /\ Distinct(flushed) /\ \A i \in 1 .. Len(flushed) : flushed[i].kind = "bash"
  <2>1. Distinct(pendingBash)
    BY <1>0 DEF DistinctIds, Distinct
  <2>2. CASE flushed = <<>>
    BY <1>0, <2>2, EmptyPlaces
  <2>3. CASE flushed = pendingBash
    BY <1>0, <2>1, <2>3
  <2>4. QED
    BY <2>2, <2>3
<1>2. ContextEntries(path) \in Seq(Entry)
  BY ContextFacts
<1>3. /\ \A i \in 1 .. Len(flushed) : \A j \in 1 .. Len(ctx) : flushed[i] # ctx[j]
      /\ \A i \in 1 .. Len(flushed) : \A j \in 1 .. Len(ContextEntries(path)) : flushed[i] # ContextEntries(path)[j]
  <2>1. CASE flushed = <<>>
    <3>1. Len(flushed) = 0
      BY <2>1
    <3>2. QED
      BY <3>1
  <2>2. CASE flushed = pendingBash /\ Longer(path) /\ From(ctx, path)
    <3>1. SUFFICES ASSUME NEW i \in 1 .. Len(flushed)
                   PROVE  /\ \A j \in 1 .. Len(ctx) : flushed[i] # ctx[j]
                          /\ \A j \in 1 .. Len(ContextEntries(path)) : flushed[i] # ContextEntries(path)[j]
      OBVIOUS
    <3> DEFINE id == flushed[i].id
    <3>2. id \in In("bash")
      <4>1. DOMAIN pendingBash = 1 .. Len(pendingBash)
        BY <1>0
      <4>2. QED
        BY <2>2, <3>1, <4>1, InFacts DEF Ids
    <3>3. id \notin In("branch") /\ id \notin In("lost") /\ id # nextId
      BY <3>2, Apartness, FreshId DEF PlaceInv, PlacesFit, Places, FlowInv
    <3> HIDE DEF id
    <3>4. /\ \A j \in 1 .. Len(context) : context[j].id # id
          /\ \A j \in 1 .. Len(branch) : branch[j].id # id
      BY <3>3, NewToBoth
    <3>5. \A j \in 1 .. Len(path) : path[j].id # id
      <4>1. CASE path = branch
        BY <3>4, <4>1
      <4>2. ASSUME NEW e \in Entry, e.id = nextId, path = Append(branch, e) PROVE \A j \in 1 .. Len(path) : path[j].id # id
        <5>1. \A j \in 1 .. Len(path) : (j \in 1 .. Len(branch) /\ path[j] = branch[j]) \/ path[j] = e
          BY <1>0, <4>2, AddedPlaces
        <5>2. QED
          BY <3>3, <3>4, <4>2, <5>1
      <4>3. QED
        BY <2>2, <4>1, <4>2 DEF Longer
    <3>6. \A j \in 1 .. Len(ctx) : ctx[j].id # id
      BY <2>2, <3>4, <3>5 DEF From
    <3>7. \A j \in 1 .. Len(ContextEntries(path)) : ContextEntries(path)[j].id # id
      BY <3>5, InContext
    <3>8. QED
      BY <3>6, <3>7 DEF id
  <2>3. QED
    BY <2>1, <2>2
<1>4. Agree(context', ContextEntries(branch'), unheard')
  <2>1. ContextEntries(branch') = ContextEntries(path) \o flushed
    BY <1>1, ContextOfLonger
  <2>2. Agree(ctx, ContextEntries(path), unheard)
    BY DEF Talks
  <2>3. Agree(ctx \o flushed, ContextEntries(path) \o flushed, unheard)
    BY <1>1, <1>2, <1>3, <2>2, AgreeConcat
  <2>4. QED
    BY <2>1, <2>3
<1>5. Linked(context', {}, Missing) /\ Linked(branch', {}, Missing) /\ CompactionsFit(branch')
  BY <1>1, LinkedConcat, FitConcat DEF Talks
<1>6. Open' = {} /\ Missing' = Missing
  BY DEF Open, Missing
<1>7. /\ auto' # None => auto'.prep = None \/ CutAt(branch', auto'.prep)
      /\ manualPrep' # None => CutAt(branch', manualPrep')
  <2>1. Extends(branch', path)
    BY <1>1, ExtendsConcat
  <2>2. Extends(branch', branch)
    BY <2>1 DEF Extends
  <2>3. QED
    BY <2>2, CutLonger
<1>8. QED
  BY <1>4, <1>5, <1>6, <1>7 DEF TalkInv

LEMMA TalksNow ==
  ASSUME TalkInv, run.phase # "tool"
  PROVE  Talks(context, branch)
  BY DEF TalkInv, Talks, Open

\* A response that failed may be taken out of the context.
LEMMA TalksWithout ==
  ASSUME NEW ctx \in Seq(Entry), NEW path \in Seq(Entry), Talks(ctx, path),
         ctx # <<>> /\ Last(ctx).kind = "assistant" => Failed(Last(ctx)) \/ Overflowed(Last(ctx))
  PROVE  Talks(WithoutLastAssistant(ctx), path)
<1>1. CASE ctx # <<>> /\ Last(ctx).kind = "assistant"
  <2>1. ~Stays(Last(ctx), unheard)
    BY <1>1 DEF Stays
  <2>2. ContextEntries(path) \in Seq(Entry)
    BY ContextFacts
  <2>3. Agree(Front(ctx), ContextEntries(path), unheard)
    BY <1>1, <2>1, <2>2, AgreeFront DEF Talks
  <2>4. Linked(Front(ctx), {}, Missing)
    BY <1>1, LinkedFront DEF Talks
  <2>5. WithoutLastAssistant(ctx) = Front(ctx)
    BY <1>1 DEF WithoutLastAssistant
  <2>6. QED
    BY <2>3, <2>4, <2>5 DEF Talks
<1>2. CASE ~(ctx # <<>> /\ Last(ctx).kind = "assistant")
  BY <1>2 DEF WithoutLastAssistant
<1>3. QED
  BY <1>1, <1>2

\* What a compaction leaves.
LEMMA TalksCompacted ==
  ASSUME FlowInv, PlaceInv, TalkInv, run.phase # "tool", NEW prep \in Preparation, CutAt(branch, prep)
  PROVE  LET path == CompactedPath(prep)
         IN  /\ Talks(ContextEntries(path), path) /\ Talks(RetryContext(ContextEntries(path)), path)
             /\ Extends(path, branch)
<1> DEFINE e == CompactionEntry(prep)
           path == CompactedPath(prep)
           ctx == ContextEntries(path)
<1>1. /\ e \in Entry /\ e.id = nextId /\ e.kind = "compaction" /\ e.stop = "none" /\ e.ref = prep.firstKept
      /\ path = Append(branch, e) /\ path \in Seq(Entry)
      /\ ctx \in Seq(Entry) /\ ctx # <<>>
  BY CompactedFacts DEF FlowInv
<1> HIDE DEF e, path, ctx
<1>2. branch \in Seq(Entry) /\ DistinctIds(branch) /\ nextId \notin Ids(branch)
  BY FreshId, InFacts DEF FlowInv, TypeInv, PlaceInv, PlacesFit, Places
<1>3. DistinctIds(path)
  BY <1>1, <1>2, AddedPlaces
<1>4. Linked(branch, {}, Missing) /\ CompactionsFit(branch)
  BY DEF TalkInv, Open
<1>5. Linked(path, {}, Missing)
  BY <1>1, <1>2, <1>4, LinkedAppend
<1>6. CompactionsFit(path)
  <2>1. \E k \in 1 .. Len(branch) : branch[k].id = e.ref /\ IsCutPoint(branch[k])
    BY <1>1 DEF CutAt
  <2>2. QED
    BY <1>1, <1>2, <1>4, <2>1, FitAppend
<1>7. Linked(ctx, {}, Missing)
  BY <1>1, <1>3, <1>5, <1>6, LinkedContext DEF ctx
<1>8. Agree(ctx, ContextEntries(path), unheard)
  <2>1. Distinct(ctx)
    BY <1>1, <1>3, ContextDistinct DEF ctx
  <2>2. Agree(ctx, ctx, unheard)
    BY <1>1, <2>1, AgreeSelf
  <2>3. QED
    BY <2>2 DEF ctx
<1>9. Talks(ctx, path)
  BY <1>5, <1>6, <1>7, <1>8 DEF Talks
<1>10. Talks(RetryContext(ctx), path)
  <2>1. CASE Last(ctx).kind = "assistant" /\ Failed(Last(ctx))
    <3>1. RetryContext(ctx) = Front(ctx) /\ WithoutLastAssistant(ctx) = Front(ctx)
      BY <1>1, <2>1 DEF RetryContext, WithoutLastAssistant
    <3>2. Talks(WithoutLastAssistant(ctx), path)
      BY <1>1, <1>9, <2>1, TalksWithout
    <3>3. QED
      BY <3>1, <3>2
  <2>2. CASE ~(Last(ctx).kind = "assistant" /\ Failed(Last(ctx)))
    <3>1. RetryContext(ctx) = ctx
      BY <2>2 DEF RetryContext
    <3>2. QED
      BY <1>9, <3>1
  <2>3. QED
    BY <2>1, <2>2
<1>11. Extends(path, branch)
  BY <1>1, <1>2, ExtendsAppend
<1>12. QED
  BY <1>9, <1>10, <1>11 DEF ctx, path

\* The session has heard the response that a run ended with.
LEMMA LastFailed ==
  ASSUME FlowInv, run.phase = "end", run.termination # "aborted", lastAssistant # None, agentEndSeen \/ connected
  PROVE  lastAssistant = Last(context)
  BY DEF FlowInv, Heard, LastHeard

LEMMA TalkTyped ==
  ASSUME FlowInv
  PROVE  context \in Seq(Entry) /\ branch \in Seq(Entry) /\ Extends(branch, branch)
  BY DEF FlowInv, TypeInv, Extends

\* The call goes on with a run, or comes to its end.
LEMMA StartsTalk ==
  ASSUME FlowInv, PlaceInv, TalkInv, NEW p \in Prompts, NEW ctx \in Seq(Entry), NEW path \in Seq(Entry),
         Talks(ctx, path), Longer(path), From(ctx, path), Extends(path, branch),
         Starts(p, ctx, path) \/ Finish(p, ctx, path), UNCHANGED unheard, auto' = None,
         manualPrep' # None => CutAt(branch, manualPrep')
  PROVE  TalkInv'
<1>1. CASE Starts(p, ctx, path)
  <2>1. context' = ctx \o <<>> /\ branch' = path \o <<>> /\ run'.phase # "tool"
    BY <1>1 DEF Starts
  <2>2. QED
    BY <2>1, TalkOn
<1>2. CASE Finish(p, ctx, path)
  <2>1. context' = ctx \o pendingBash /\ branch' = path \o pendingBash /\ run'.phase # "tool"
    BY <1>2 DEF Finish, FlushBash, SavedBash, NoRun
  <2>2. QED
    BY <2>1, TalkOn
<1>3. QED
  BY <1>1, <1>2

\* The call changes the context and leaves the path as it is.
LEMMA PausesTalk ==
  ASSUME FlowInv, PlaceInv, TalkInv, context' \in Seq(Entry), Talks(context', branch),
         UNCHANGED <<branch, unheard>>, run'.phase # "tool",
         auto' # None => auto'.prep = None \/ CutAt(branch, auto'.prep),
         manualPrep' # None => CutAt(branch, manualPrep')
  PROVE  TalkInv'
<1> DEFINE ctx == context'
<1>1. ctx \in Seq(Entry) /\ Talks(ctx, branch) /\ branch \in Seq(Entry) /\ Extends(branch, branch)
  BY TalkTyped
<1>2. context' = ctx \o <<>> /\ branch' = branch \o <<>>
  BY <1>1
<1>3. Open' = {} /\ Missing' = Missing
  BY DEF Open, Missing
<1>4. QED
  BY <1>1, <1>3 DEF TalkInv, Talks

LEMMA MessageAddedTalk ==
  ASSUME FlowInv, PlaceInv, TalkInv, MessageAdded
  PROVE  TalkInv'
<1> DEFINE h == Head(run.pending)
           m == User(h)
<1>0. /\ run.phase \in {"prompts", "request"} /\ run.pending # <<>> /\ run \in Runs
      /\ run' = [run EXCEPT !.pending = Tail(@)] /\ Added(m) /\ UNCHANGED <<connected, auto, manualPrep>>
      /\ run.pending \in Seq(Nat) /\ Distinct(run.pending)
  BY DEF MessageAdded, FlowInv, TypeInv, Runs, PlaceInv, PlacesFit, calls, compaction
<1>1. h \in Nat /\ h \in In("pending")
  BY <1>0, TailPlaces, InFacts
<1>2. m \in Entry /\ m.id = h /\ m.kind = "user" /\ m.stop = "none"
  BY <1>1, MessageTyped
<1>3. h \notin In("branch") /\ h \notin In("lost")
  BY <1>1, Apartness DEF PlaceInv, PlacesFit, Places
<1>4. run'.phase = run.phase
  BY <1>0 DEF Runs
<1> HIDE DEF m, h
<1>5. QED
  BY <1>0, <1>2, <1>3, <1>4, TalkAdded

LEMMA RespondsTalk ==
  ASSUME FlowInv, PlaceInv, TalkInv, Responds
  PROVE  TalkInv'
<1>0. run \in Runs /\ run.phase = "request" /\ nextId \in Nat /\ UNCHANGED <<connected, auto, manualPrep>>
  BY DEF Responds, FlowInv, TypeInv, calls, compaction
<1>2. PICK stop \in (IF run.aborted THEN {"aborted"} ELSE bounds.stops) :
        LET m == Message(nextId, "assistant", stop)
        IN  Added(m) /\ run' = AfterResponse(stop)
  BY DEF Responds
<1>3. stop \in Stop
  BY <1>2, AgentSessionAssumption DEF FlowInv, TypeInv, Stop
<1> DEFINE m == Message(nextId, "assistant", stop)
<1>4. m \in Entry /\ m.id = nextId /\ m.kind = "assistant" /\ m.stop = stop /\ Added(m)
  BY <1>0, <1>2, <1>3, MessageTyped
<1>5. run'.phase = "tool" <=> stop = "toolUse"
  BY <1>0, <1>2 DEF AfterResponse, Runs
<1>6. nextId \notin In("branch") /\ nextId \notin In("lost")
  BY FreshId DEF FlowInv, PlaceInv, Places
<1> HIDE DEF m
<1>7. QED
  BY <1>0, <1>4, <1>5, <1>6, TalkAdded

LEMMA ToolReturnsTalk ==
  ASSUME FlowInv, PlaceInv, TalkInv, ToolReturns
  PROVE  TalkInv'
<1> DEFINE m == [Message(nextId, "toolResult", "none") EXCEPT !.ref = Last(context).id]
<1>0. /\ run \in Runs /\ nextId \in Nat /\ context \in Seq(Entry) /\ run.phase = "tool"
      /\ UNCHANGED <<connected, auto, manualPrep>> /\ run' = [run EXCEPT !.phase = "turn"] /\ Added(m)
  BY DEF ToolReturns, calls, compaction, FlowInv, TypeInv
<1>1. context # <<>> /\ Last(context).stop = "toolUse"
  BY <1>0, RunIsActive DEF FlowInv, ContextEnds
<1>2. Last(context).id \in Nat
  BY <1>0, <1>1, FrontFacts, EntryTyped
<1>3. m \in Entry /\ m.id = nextId /\ m.kind = "toolResult" /\ m.ref = Last(context).id
  BY <1>0, <1>2, MessageTyped
<1>4. run'.phase # "tool"
  BY <1>0 DEF Runs
<1>5. nextId \notin In("branch") /\ nextId \notin In("lost")
  BY FreshId DEF FlowInv, PlaceInv, Places
<1> HIDE DEF m
<1>6. QED
  BY <1>0, <1>1, <1>3, <1>4, <1>5, TalkAdded

LEMMA TurnTalk ==
  ASSUME FlowInv, TalkInv, TurnBegins \/ TurnEnds
  PROVE  TalkInv'
<1>1. UNCHANGED <<context, branch, unheard, connected, auto, manualPrep>> /\ run.phase # "tool" /\ run \in Runs
  BY DEF TurnBegins, TurnEnds, log, calls, compaction, FlowInv, TypeInv
<1>2. run'.phase \in {"request", "end"}
  BY <1>1 DEF TurnBegins, TurnEnds, Requests, Ends, Runs
<1>3. QED
  BY <1>1, <1>2, TalkKept DEF TalkInv

LEMMA RunEndsTalk ==
  ASSUME FlowInv, PlaceInv, TalkInv, NEW p \in Prompts, RunEnds(p)
  PROVE  TalkInv'
<1>1. RunEndsCases(p) /\ Rest /\ auto = None /\ UNCHANGED nextId
  BY RunEndsOutcome
<1>2. /\ context \in Seq(Entry) /\ branch \in Seq(Entry) /\ Extends(branch, branch)
      /\ Talks(context, branch) /\ Longer(branch) /\ From(context, branch) /\ run.phase = "end"
      /\ UNCHANGED <<unheard, manualPrep>>
  <2>1. run.phase = "end"
    BY <1>1 DEF RunEndsCases
  <2>2. QED
    BY <1>1, <2>1, TalkTyped, TalksNow, FromContext DEF Longer, Rest, compaction
<1>3. manualPrep' # None => CutAt(branch, manualPrep')
  BY <1>2 DEF TalkInv
<1>4. ASSUME lastAssistant # None, agentEndSeen \/ connected, run.termination # "aborted",
             Retryable(lastAssistant) \/ Overflowed(lastAssistant)
      PROVE  /\ Talks(WithoutLastAssistant(context), branch) /\ WithoutLastAssistant(context) \in Seq(Entry)
  <2>1. Failed(Last(context)) \/ Overflowed(Last(context))
    BY <1>2, <1>4, LastFailed DEF Failed, Overflowed, Retryable
  <2>2. QED
    BY <1>2, <2>1, TalksWithout, WithoutFacts
<1>5. CASE (Starts(p, context, branch) \/ Finish(p, context, branch)) /\ auto' = None
  BY <1>1, <1>2, <1>3, <1>5, StartsTalk
<1>6. ASSUME run' = NoRun, UNCHANGED branch, auto' # None => auto'.prep = None, Talks(context', branch), context' \in Seq(Entry)
      PROVE  TalkInv'
  <2>1. run'.phase # "tool"
    BY <1>6 DEF NoRun
  <2>2. QED
    BY <1>2, <1>3, <1>6, <2>1, PausesTalk
<1>7. CASE (agentEndSeen \/ connected) /\ lastAssistant # None /\ run.termination # "aborted"
  <2>1. CASE /\ Retryable(lastAssistant) /\ context' = WithoutLastAssistant(context)
             /\ run' = NoRun /\ UNCHANGED <<branch, auto>>
    BY <1>1, <1>4, <1>6, <1>7, <2>1
  <2>2. CASE /\ run' = NoRun /\ UNCHANGED branch /\ auto'.prep = None
             /\ context' \in {context, WithoutLastAssistant(context)}
             /\ context' # context => Overflowed(lastAssistant)
    <3>1. CASE context' = context
      BY <1>2, <1>6, <2>2, <3>1
    <3>2. CASE context' # context
      BY <1>4, <1>6, <1>7, <2>2, <3>2
    <3>3. QED
      BY <3>1, <3>2
  <2>3. \/ /\ Retryable(lastAssistant) /\ context' = WithoutLastAssistant(context)
           /\ run' = NoRun /\ UNCHANGED <<branch, auto>>
        \/ /\ Starts(p, context, branch) \/ Stops(p, context, branch)
           /\ UNCHANGED auto
        \/ /\ run' = NoRun /\ UNCHANGED branch /\ auto'.prep = None
           /\ context' \in {context, WithoutLastAssistant(context)}
           /\ context' # context => Overflowed(lastAssistant)
    BY <1>1, <1>7 DEF RunEndsCases
  <2>4. QED
    BY <1>1, <1>5, <2>1, <2>2, <2>3 DEF Stops
<1>8. CASE ~((agentEndSeen \/ connected) /\ lastAssistant # None /\ run.termination # "aborted")
  BY <1>1, <1>5, <1>8 DEF RunEndsCases
<1>9. QED
  BY <1>7, <1>8

LEMMA RetryBeginsTalk ==
  ASSUME FlowInv, PlaceInv, TalkInv, NEW p \in Prompts, RetryBegins(p)
  PROVE  TalkInv'
<1>1. /\ Starts(p, context, branch) \/ Finish(p, context, branch)
      /\ Rest /\ auto' = None /\ run.phase = "none" /\ UNCHANGED nextId
  BY RetryBeginsOutcome DEF Stops
<1>2. /\ context \in Seq(Entry) /\ branch \in Seq(Entry) /\ Extends(branch, branch)
      /\ Talks(context, branch) /\ Longer(branch) /\ From(context, branch)
      /\ UNCHANGED <<unheard, manualPrep>>
  BY <1>1, TalkTyped, TalksNow, FromContext DEF Longer, Rest, compaction
<1>3. manualPrep' # None => CutAt(branch, manualPrep')
  BY <1>2 DEF TalkInv
<1>4. QED
  BY <1>1, <1>2, <1>3, StartsTalk

LEMMA RetryCancelledTalk ==
  ASSUME FlowInv, PlaceInv, TalkInv, NEW p \in Prompts, RetryCancelled(p)
  PROVE  TalkInv'
<1>1. /\ \/ (Starts(p, context, branch) \/ Finish(p, context, branch)) /\ auto' = None
         \/ UNCHANGED <<context, branch, run>> /\ auto'.prep = None
      /\ Rest /\ run.phase = "none" /\ UNCHANGED nextId
  BY RetryCancelledOutcome DEF Stops
<1>2. /\ context \in Seq(Entry) /\ branch \in Seq(Entry) /\ Extends(branch, branch)
      /\ Talks(context, branch) /\ Longer(branch) /\ From(context, branch)
      /\ UNCHANGED <<unheard, manualPrep, connected>>
  BY <1>1, TalkTyped, TalksNow, FromContext DEF Longer, Rest, compaction
<1>3. manualPrep' # None => CutAt(branch, manualPrep')
  BY <1>2 DEF TalkInv
<1>4. CASE (Starts(p, context, branch) \/ Finish(p, context, branch)) /\ auto' = None
  BY <1>1, <1>2, <1>3, <1>4, StartsTalk
<1>5. CASE UNCHANGED <<context, branch, run>> /\ auto'.prep = None
  BY <1>2, <1>3, <1>5, TalkKept
<1>6. QED
  BY <1>1, <1>4, <1>5

LEMMA CompactionPreparedTalk ==
  ASSUME FlowInv, TalkInv, NEW p \in Prompts, CompactionPrepared(p)
  PROVE  TalkInv'
<1> DEFINE prep == PrepareCompaction(branch, KeepRecent, None)
<1>1. /\ UNCHANGED <<context, branch, unheard, run, connected, manualPrep>>
      /\ auto' = [auto EXCEPT !.prep = prep] /\ prep # None /\ prompt[p] = "authorizing"
  BY DEF CompactionPrepared, log, compaction
<1>2. auto \in AutoCompaction /\ branch \in Seq(Entry)
  BY <1>1 DEF FlowInv, TypeInv, Control, AutoFits, Compacting
<1>3. prep \in Preparation /\ CutAt(branch, prep)
  BY <1>1, <1>2, PreparedFits
<1> HIDE DEF prep
<1>4. auto'.prep = prep
  BY <1>1, <1>2 DEF AutoCompaction
<1>5. manualPrep' # None => CutAt(branch, manualPrep')
  BY <1>1 DEF TalkInv
<1>6. QED
  BY <1>1, <1>3, <1>4, <1>5, TalkKept

\* The call goes on after a compaction, done or failed.
LEMMA ResumesTalk ==
  ASSUME FlowInv, PlaceInv, TalkInv, NEW p \in Prompts, run.phase = "none",
         NEW ctx \in Seq(Entry), NEW path \in Seq(Entry), ResumesCases(p, ctx, path),
         Talks(ctx, path), Longer(path), From(ctx, path), Extends(path, branch), UNCHANGED <<unheard, manualPrep>>
  PROVE  TalkInv'
<1>1. auto' = None /\ (manualPrep' # None => CutAt(branch, manualPrep'))
  BY DEF ResumesCases, TalkInv
<1>2. CASE context' = ctx /\ branch' = path /\ UNCHANGED run
  <2>1. context' = ctx \o <<>> /\ branch' = path \o <<>>
    BY <1>2
  <2>2. QED
    BY <1>1, <1>2, <2>1, TalkOn
<1>3. CASE Starts(p, ctx, path) \/ Finish(p, ctx, path)
  BY <1>1, <1>3, StartsTalk
<1>4. QED
  BY <1>2, <1>3 DEF ResumesCases, Stops

LEMMA CompactionFailsTalk ==
  ASSUME FlowInv, PlaceInv, TalkInv, NEW p \in Prompts, CompactionFails(p)
  PROVE  TalkInv'
<1>1. ResumesCases(p, context, branch) /\ run.phase = "none"
  BY CompactionFailsOutcome
<1>2. UNCHANGED <<unheard, manualPrep, nextId>>
  BY DEF CompactionFails, compaction, ids
<1>3. /\ context \in Seq(Entry) /\ branch \in Seq(Entry) /\ Extends(branch, branch)
      /\ Talks(context, branch) /\ Longer(branch) /\ From(context, branch)
  BY <1>1, <1>2, TalkTyped, TalksNow, FromContext DEF Longer
<1>4. QED
  BY <1>1, <1>2, <1>3, ResumesTalk

LEMMA CompactionDoneTalk ==
  ASSUME FlowInv, PlaceInv, TalkInv, NEW p \in Prompts, CompactionDone(p)
  PROVE  TalkInv'
<1> DEFINE prep == auto.prep
           path == CompactedPath(prep)
           ctx == IF auto.willRetry THEN RetryContext(ContextEntries(path)) ELSE ContextEntries(path)
<1>1. /\ ResumesCases(p, ctx, path) /\ run.phase = "none" /\ prep \in Preparation
      /\ ctx \in Seq(Entry) /\ path \in Seq(Entry) /\ auto \in AutoCompaction
  BY CompactionDoneOutcome
<1>2. UNCHANGED <<unheard, manualPrep>> /\ nextId' = nextId + 1
  BY DEF CompactionDone, NewId, compaction
<1>3. Longer(path)
  BY <1>1, <1>2, CompactedFacts DEF Longer, FlowInv
<1>4. From(ctx, path)
  <2>1. From(ContextEntries(path), path) /\ ContextEntries(path) \in Seq(Entry)
    BY <1>1, FromPath, ContextFacts
  <2>2. QED
    BY <2>1, FromFront
<1>5. CutAt(branch, prep)
  BY <1>1, NoneAssumption DEF TalkInv
<1>6. /\ Talks(ContextEntries(path), path) /\ Talks(RetryContext(ContextEntries(path)), path)
      /\ Extends(path, branch)
  <2>1. run.phase # "tool" /\ prep \in Preparation
    BY <1>1
  <2> HIDE DEF prep
  <2>2. QED
    BY <1>5, <2>1, TalksCompacted
<1>7. Talks(ctx, path)
  BY <1>6
<1> HIDE DEF ctx, path, prep
<1>8. QED
  BY <1>1, <1>2, <1>3, <1>4, <1>6, <1>7, ResumesTalk

LEMMA PromptCalledTalk ==
  ASSUME FlowInv, PlaceInv, TalkInv, NEW p \in Prompts, PromptCalled(p)
  PROVE  TalkInv'
<1>0. PromptCalledCases(p, context \o pendingBash)
  BY PromptCalledOutcome
<1>1. /\ context \in Seq(Entry) /\ branch \in Seq(Entry) /\ pendingBash = <<>>
      /\ UNCHANGED <<unheard, run, manualPrep, connected>>
      /\ \A q \in Prompts : prompt[q] \in {"idle", "settling"}
  BY <1>0 DEF PromptCalledCases, FlowInv, TypeInv, Control, ActiveFits, compaction
<1>2. run.phase = "none" /\ auto = None
  BY <1>1, RunIsActive DEF FlowInv, Control, RunFits, AutoFits, Compacting
<1>3. context \o pendingBash = context /\ branch \o pendingBash = branch
  BY <1>1
<1>4. PromptCalledCases(p, context)
  BY <1>0, <1>3
<1>5. /\ branch' = branch
      /\ auto' # None => auto'.prep = None
      /\ \/ context' = context
         \/ /\ context' = WithoutLastAssistant(context)
            /\ \E i \in 1 .. Len(context) : /\ Overflowed(context[i])
                                            /\ \A j \in 1 .. Len(context) : context[j].kind = "assistant" => j <= i
  BY <1>1, <1>2, <1>3, <1>4 DEF PromptCalledCases
<1>6. manualPrep' # None => CutAt(branch, manualPrep')
  BY <1>1 DEF TalkInv
<1>7. Talks(context, branch)
  BY <1>2, TalksNow
<1>8. Talks(context', branch) /\ context' \in Seq(Entry)
  <2>1. CASE context' = context
    BY <1>1, <1>7, <2>1
  <2>2. CASE /\ context' = WithoutLastAssistant(context)
             /\ \E i \in 1 .. Len(context) : /\ Overflowed(context[i])
                                             /\ \A j \in 1 .. Len(context) : context[j].kind = "assistant" => j <= i
    <3>1. PICK i \in 1 .. Len(context) : /\ Overflowed(context[i])
                                         /\ \A j \in 1 .. Len(context) : context[j].kind = "assistant" => j <= i
      BY <2>2
    <3>2. context # <<>> => Len(context) \in 1 .. Len(context) /\ Last(context) = context[Len(context)]
      <4>1. Len(context) \in Nat /\ (context # <<>> => Len(context) # 0)
        BY <1>1, EmptySeq
      <4>2. context # <<>> => Last(context) = context[Len(context)]
        BY <1>1, FrontFacts
      <4>3. QED
        BY <4>1, <4>2
    <3>3. context # <<>> /\ Last(context).kind = "assistant" => Overflowed(Last(context))
      <4>1. ASSUME context # <<>>, Last(context).kind = "assistant" PROVE i = Len(context)
        <5>1. Len(context) <= i
          BY <3>1, <3>2, <4>1
        <5>2. QED
          BY <1>1, <5>1
      <4>2. QED
        BY <3>1, <3>2, <4>1
    <3>4. QED
      BY <1>1, <1>7, <2>2, <3>3, TalksWithout, WithoutFacts
  <2>3. QED
    BY <1>5, <2>1, <2>2
<1>9. QED
  BY <1>1, <1>2, <1>5, <1>6, <1>8, PausesTalk

\* Steps that leave the context and the path alone.
LEMMA QuietTalk ==
  ASSUME FlowInv, TalkInv, UNCHANGED <<context, branch, unheard, auto, manualPrep>>,
         UNCHANGED connected \/ connected' = FALSE, run'.phase = "tool" <=> run.phase = "tool"
  PROVE  TalkInv'
<1>1. /\ auto' # None => auto'.prep = None \/ CutAt(branch, auto'.prep)
      /\ manualPrep' # None => CutAt(branch, manualPrep')
  BY DEF TalkInv
<1>2. QED
  BY <1>1, TalkKept

LEMMA PromptRunsTalk ==
  ASSUME FlowInv, TalkInv, NEW p \in Prompts, PromptRuns(p)
  PROVE  TalkInv'
<1>1. UNCHANGED <<context, branch, unheard, auto, manualPrep, connected>> /\ prompt[p] = "preflight"
      /\ StartRun(<<text[p]>>, FALSE) /\ text[p] \in Nat
  BY DEF PromptRuns, log, compaction, FlowInv, TypeInv
<1>2. run.phase = "none" /\ run'.phase = "prompts"
  <2>1. AtWork(p) /\ prompt[p] # "running" /\ <<text[p]>> \in Seq(Nat)
    BY <1>1 DEF AtWork
  <2>2. QED
    BY <1>1, <2>1, BetweenRuns, StartRunFacts
<1>3. QED
  BY <1>1, <1>2, QuietTalk

LEMMA ClientTalk ==
  ASSUME FlowInv, TalkInv, Queue \/ ClearQueue \/ AbortRetry \/ UNCHANGED vars \/ \E p \in Prompts : Settles(p)
  PROVE  TalkInv'
<1>1. UNCHANGED <<context, branch, unheard, auto, manualPrep, connected, run>>
  BY DEF Queue, ClearQueue, AbortRetry, Settles, vars, log, calls, compaction
<1>2. QED
  BY <1>1, QuietTalk

LEMMA AbortTalk ==
  ASSUME FlowInv, TalkInv, Abort \/ Compact
  PROVE  TalkInv'
<1>1. UNCHANGED <<context, branch, unheard, auto, manualPrep>>
  BY DEF Abort, Compact, log, compaction
<1>2. run'.phase = run.phase
  BY AbortsFacts DEF Abort, Compact
<1>3. UNCHANGED connected \/ connected' = FALSE
  BY DEF Abort, Compact, compaction
<1>4. QED
  BY <1>1, <1>2, <1>3, QuietTalk

LEMMA RecordBashResultTalk ==
  ASSUME FlowInv, PlaceInv, TalkInv, RecordBashResult
  PROVE  TalkInv'
<1> DEFINE m == Message(nextId, "bash", "none")
<1>1. /\ UNCHANGED <<unheard, run, auto, manualPrep, connected>>
      /\ IF isAgentRunActive
         THEN UNCHANGED <<context, branch>>
         ELSE context' = Append(context, m) /\ branch' = Append(branch, m)
  BY DEF RecordBashResult, BashWaits, calls, compaction
<1>2. m \in Entry /\ m.id = nextId /\ m.kind = "bash" /\ m.stop = "none"
      /\ context \in Seq(Entry) /\ branch \in Seq(Entry)
  BY MessageTyped DEF FlowInv, TypeInv
<1> HIDE DEF m
<1>3. CASE isAgentRunActive
  BY <1>1, <1>3, QuietTalk
<1>4. CASE ~isAgentRunActive
  <2>1. context' = Append(context, m) /\ branch' = Append(branch, m)
    BY <1>1, <1>4
  <2>2. run.phase = "none" /\ Talks(context, branch)
    <3>1. run.phase = "none"
      BY <1>4, RunIsActive
    <3>2. QED
      BY <3>1, TalksNow
  <2>3. nextId \notin In("branch") /\ nextId \notin In("lost")
    BY FreshId DEF FlowInv, PlaceInv, Places
  <2>4. /\ \A j \in 1 .. Len(context) : m # context[j]
        /\ \A j \in 1 .. Len(ContextEntries(branch)) : m # ContextEntries(branch)[j]
    BY <1>2, <2>3, NewToBoth
  <2>5. ContextEntries(branch') = Append(ContextEntries(branch), m) /\ ContextEntries(branch) \in Seq(Entry)
    BY <1>2, <2>1, ContextOfAppended, ContextFacts
  <2>6. Agree(Append(context, m), Append(ContextEntries(branch), m), unheard)
    BY <1>2, <2>2, <2>4, <2>5, AgreeAppend DEF Talks
  <2>7. Linked(Append(context, m), {}, Missing) /\ Linked(Append(branch, m), {}, Missing)
    BY <1>2, <2>2, LinkedAppend DEF Talks
  <2>8. CompactionsFit(Append(branch, m)) /\ Extends(Append(branch, m), branch)
    BY <1>2, <2>2, FitAppend, ExtendsAppend DEF Talks
  <2>9. /\ auto' # None => auto'.prep = None \/ CutAt(branch', auto'.prep)
        /\ manualPrep' # None => CutAt(branch', manualPrep')
    BY <1>1, <2>1, <2>8, CutLonger DEF TalkInv
  <2>10. Open' = {} /\ Missing' = Missing /\ run'.phase = "none"
    BY <1>1, <2>2 DEF Open, Missing
  <2>11. QED
    BY <1>1, <2>1, <2>5, <2>6, <2>7, <2>8, <2>9, <2>10 DEF TalkInv
<1>5. QED
  BY <1>3, <1>4

LEMMA ManualPreparedTalk ==
  ASSUME FlowInv, TalkInv, ManualPrepared
  PROVE  TalkInv'
<1> DEFINE prep == PrepareCompaction(branch, KeepRecent, None)
<1>1. UNCHANGED <<context, branch, unheard, run, connected, auto>> /\ manualPrep' = prep /\ prep # None
  BY DEF ManualPrepared, log, calls
<1>2. branch \in Seq(Entry)
  BY DEF FlowInv, TypeInv
<1>3. CutAt(branch, prep)
  BY <1>1, <1>2, PreparedFits
<1> HIDE DEF prep
<1>4. auto' # None => auto'.prep = None \/ CutAt(branch, auto'.prep)
  BY <1>1 DEF TalkInv
<1>5. QED
  BY <1>1, <1>3, <1>4, TalkKept

LEMMA ManualFailsTalk ==
  ASSUME FlowInv, TalkInv, ManualFails
  PROVE  TalkInv'
<1>1. UNCHANGED <<context, branch, unheard, run, auto>> /\ manualPrep' = None /\ manual \in {"authorizing", "summarizing"}
  BY DEF ManualFails, Reconnects, log, calls
<1>2. run.phase = "none"
  BY <1>1, ManualIsAlone
<1>3. auto' # None => auto'.prep = None \/ CutAt(branch, auto'.prep)
  BY <1>1 DEF TalkInv
<1>4. QED
  BY <1>1, <1>2, <1>3, TalkKept

LEMMA ManualDoneTalk ==
  ASSUME FlowInv, PlaceInv, TalkInv, ManualDone
  PROVE  TalkInv'
<1> DEFINE prep == manualPrep
           path == CompactedPath(prep)
           ctx == ContextEntries(path)
<1>1. /\ UNCHANGED <<unheard, run, auto>> /\ manualPrep' = None /\ manual = "summarizing"
      /\ branch' = path /\ context' = ctx
  BY DEF ManualDone, Reconnects, calls
<1>2. run.phase = "none" /\ auto = None
  BY <1>1, ManualIsAlone
<1>3. prep \in Preparation /\ CutAt(branch, prep)
  BY <1>1 DEF FlowInv, TypeInv, Control, ManualFits, TalkInv
<1>4. Talks(ctx, path) /\ Extends(path, branch)
  <2>1. run.phase # "tool"
    BY <1>2
  <2> HIDE DEF prep
  <2>2. QED
    BY <1>3, <2>1, TalksCompacted
<1>5. path \in Seq(Entry) /\ ctx \in Seq(Entry)
  BY <1>3, CompactedFacts DEF FlowInv
<1> HIDE DEF prep, path, ctx
<1>6. context' = ctx \o <<>> /\ branch' = path \o <<>>
  BY <1>1, <1>5
<1>7. QED
  BY <1>1, <1>2, <1>4, <1>5, <1>6, TalkOn

LEMMA InitTalk ==
  ASSUME Init
  PROVE  TalkInv
<1>1. context = <<>> /\ branch = <<>> /\ run.phase = "none" /\ auto = None /\ manualPrep = None
  BY DEF Init, NoRun
<1>2. branch \in Seq(Entry) /\ Len(branch) = 0 /\ Len(context) = 0
  BY <1>1
<1>3. Linked(context, Open, Missing) /\ Linked(branch, Open, Missing) /\ CompactionsFit(branch)
  BY <1>2 DEF Linked, CompactionsFit
<1>4. Agree(context, ContextEntries(branch), unheard)
  <2>1. DistinctIds(branch)
    BY <1>2 DEF DistinctIds
  <2>2. ASSUME NEW j \in 1 .. Len(ContextEntries(branch)) PROVE FALSE
    <3>1. \E i \in 1 .. Len(branch) : ContextEntries(branch)[j] = branch[i]
      BY <1>2, InContext
    <3>2. QED
      BY <1>2, <3>1
  <2>3. QED
    BY <1>2, <2>2 DEF Agree
<1>5. QED
  BY <1>1, <1>3, <1>4 DEF TalkInv

LEMMA NextTalk ==
  ASSUME FlowInv, PlaceInv, TalkInv, [Next]_vars
  PROVE  TalkInv'
<1>1. ASSUME RunStep PROVE TalkInv'
  BY <1>1, MessageAddedTalk, TurnTalk, RespondsTalk, ToolReturnsTalk DEF RunStep
<1>2. ASSUME ManualStep PROVE TalkInv'
  BY <1>2, ManualPreparedTalk, ManualFailsTalk, ManualDoneTalk DEF ManualStep
<1>3. ASSUME NEW p \in Prompts, PromptStep(p) PROVE TalkInv'
  BY <1>3, RunEndsTalk, RetryBeginsTalk, RetryCancelledTalk, ClientTalk, CompactionPreparedTalk,
     CompactionFailsTalk, CompactionDoneTalk, PromptRunsTalk DEF PromptStep
<1>4. ASSUME ClientStep PROVE TalkInv'
  BY <1>4, PromptCalledTalk, ClientTalk, RecordBashResultTalk, AbortTalk DEF ClientStep
<1>5. ASSUME UNCHANGED vars PROVE TalkInv'
  BY <1>5, ClientTalk
<1>6. QED
  BY <1>1, <1>2, <1>3, <1>4, <1>5 DEF Next, Proceed

\* The context and the path follow each call of a tool by its result, and the context has
\* what the path would be opened with, but for what failed or was not heard.
THEOREM TalkHolds == Spec => []TalkInv
<1>1. FlowInv /\ PlaceInv /\ TalkInv /\ [Next]_vars => TalkInv'
  BY NextTalk
<1>2. QED
  BY <1>1, InitTalk, FlowHolds, PlacesHold, PTL DEF Spec

LEMMA ContextInTalk ==
  ASSUME FlowInv, TalkInv
  PROVE  ContextIsSession
<1>1. context \in Seq(Entry) /\ ContextEntries(branch) \in Seq(Entry)
  BY ContextFacts DEF FlowInv, TypeInv
<1>2. DOMAIN context = 1 .. Len(context) /\ DOMAIN ContextEntries(branch) = 1 .. Len(ContextEntries(branch))
  BY <1>1
<1>3. Agree(context, ContextEntries(branch), unheard)
  BY DEF TalkInv
<1>4. QED
  BY <1>2, <1>3 DEF ContextIsSession, Agree, Stays

LEMMA ResultsInTalk ==
  ASSUME FlowInv, TalkInv
  PROVE  ResultsFollowCalls
<1>1. DOMAIN context = 1 .. Len(context)
  BY DEF FlowInv, TypeInv
<1>2. Linked(context, Open, Missing)
  BY DEF TalkInv
<1>3. \A e \in Open : run.phase = "tool"
  BY DEF Open
<1>4. \A id \in Missing : \E m \in unheard : m.ref = id
  BY DEF Missing
<1>5. QED
  BY <1>1, <1>2, <1>3, <1>4 DEF Linked, ResultsFollowCalls

\* The context of the agent is what the session would be opened with again, and holds no
\* result without its call and no call without its result, as providers require.
THEOREM ContextHolds == Spec => [](ContextIsSession /\ ResultsFollowCalls)
<1>1. FlowInv /\ TalkInv => ContextIsSession /\ ResultsFollowCalls
  BY ContextInTalk, ResultsInTalk
<1>2. QED
  BY <1>1, FlowHolds, TalkHolds, PTL

-----------------------------------------------------------------------------
(* Requests that keep failing *)

\* A message of the user, or a response that did not fail.
Resets(m) == m.kind = "user" \/ (m.kind = "assistant" /\ ~Failed(m))

\* The failures on a path since.
LateFailures(path) ==
  {i \in 1 .. Len(path) : Failed(path[i]) /\ \A r \in 1 .. Len(path) : Resets(path[r]) => r < i}
FailuresIn(path) == Cardinality(LateFailures(path))

LEMMA FailuresFinite ==
  ASSUME NEW path \in Seq(Entry)
  PROVE  IsFiniteSet(LateFailures(path)) /\ FailuresIn(path) \in Nat
<1> DEFINE n == Len(path)
<1>1. 1 \in Int /\ n \in Int
  BY LenProperties
<1>2. LateFailures(path) \in SUBSET (1 .. n)
  BY DEF LateFailures
<1> HIDE DEF n
<1>3. IsFiniteSet(1 .. n)
  BY <1>1, FS_Interval
<1>4. IsFiniteSet(LateFailures(path))
  BY <1>2, <1>3, FS_Subset
<1>5. QED
  BY <1>4, FS_CardinalityType DEF FailuresIn

LEMMA ResetFailures ==
  ASSUME NEW path \in Seq(Entry), NEW m \in Entry, Resets(m)
  PROVE  FailuresIn(Append(path, m)) = 0
<1> DEFINE longer == Append(path, m)
           n == Len(path)
<1>1. /\ n \in Nat /\ n + 1 \in 1 .. Len(longer) /\ longer[n + 1] = m
      /\ \A i \in 1 .. Len(longer) : i \in 1 .. n \/ (i = n + 1 /\ longer[i] = m)
  BY AddedPlaces, LenProperties
<1>2. ~Failed(m)
  BY EntryTyped DEF Failed, Resets
<1> HIDE DEF longer, n
<1>3. LateFailures(longer) = {}
  <2>1. SUFFICES ASSUME NEW i \in 1 .. Len(longer), Failed(longer[i]),
                        \A r \in 1 .. Len(longer) : Resets(longer[r]) => r < i
                 PROVE  FALSE
    BY DEF LateFailures
  <2>2. n + 1 < i
    BY <1>1, <2>1
  <2>3. QED
    BY <1>1, <1>2, <2>1, <2>2
<1>4. QED
  BY <1>3, FS_EmptySet DEF FailuresIn, longer

LEMMA MoreFailures ==
  ASSUME NEW path \in Seq(Entry), NEW m \in Entry, Failed(m)
  PROVE  FailuresIn(Append(path, m)) = FailuresIn(path) + 1
<1> DEFINE longer == Append(path, m)
           n == Len(path)
<1>1. /\ n \in Nat /\ n + 1 \in 1 .. Len(longer) /\ longer[n + 1] = m
      /\ \A i \in 1 .. Len(longer) : (i \in 1 .. n /\ longer[i] = path[i]) \/ (i = n + 1 /\ longer[i] = m)
      /\ \A i \in 1 .. n : i \in 1 .. Len(longer) /\ longer[i] = path[i]
  BY AddedPlaces, LenProperties
<1>2. ~Resets(m)
  BY EntryTyped DEF Failed, Resets
<1> HIDE DEF longer
<1>3. \A i : (\A r \in 1 .. Len(longer) : Resets(longer[r]) => r < i) <=> (\A r \in 1 .. n : Resets(path[r]) => r < i)
  BY <1>1, <1>2
<1>4. n + 1 \notin LateFailures(path)
  BY <1>1 DEF LateFailures
<1>5. \A r \in 1 .. n : r < n + 1
  BY <1>1
<1>6. LateFailures(longer) = LateFailures(path) \cup {n + 1}
  <2>1. ASSUME NEW i \in LateFailures(longer) PROVE i \in LateFailures(path) \cup {n + 1}
    <3>1. i \in 1 .. Len(longer) /\ Failed(longer[i]) /\ \A r \in 1 .. n : Resets(path[r]) => r < i
      BY <1>3, <2>1 DEF LateFailures
    <3>2. QED
      BY <1>1, <3>1 DEF LateFailures
  <2>2. ASSUME NEW i \in LateFailures(path) PROVE i \in LateFailures(longer)
    <3>1. i \in 1 .. n /\ Failed(path[i]) /\ \A r \in 1 .. n : Resets(path[r]) => r < i
      BY <2>2 DEF LateFailures
    <3>2. i \in 1 .. Len(longer) /\ Failed(longer[i]) /\ \A r \in 1 .. Len(longer) : Resets(longer[r]) => r < i
      BY <1>1, <1>3, <3>1
    <3>3. QED
      BY <3>2 DEF LateFailures
  <2>3. n + 1 \in LateFailures(longer)
    <3>1. \A r \in 1 .. Len(longer) : Resets(longer[r]) => r < n + 1
      BY <1>3, <1>5
    <3>2. QED
      BY <1>1, <3>1 DEF LateFailures
  <2>4. QED
    BY <2>1, <2>2, <2>3
<1>7. IsFiniteSet(LateFailures(path))
  BY FailuresFinite
<1> HIDE DEF n
<1>8. Cardinality(LateFailures(path) \cup {n + 1}) = Cardinality(LateFailures(path)) + 1
  BY <1>4, <1>7, FS_AddElement
<1>9. QED
  BY <1>6, <1>8 DEF FailuresIn, longer

\* Other entries do not count.
LEMMA SameFailures ==
  ASSUME NEW path \in Seq(Entry), NEW q \in Seq(Entry),
         \A i \in 1 .. Len(q) : ~Failed(q[i]) /\ ~Resets(q[i])
  PROVE  FailuresIn(path \o q) = FailuresIn(path)
<1> DEFINE longer == path \o q
           n == Len(path)
<1>1. /\ \A i \in 1 .. Len(longer) :
           (i \in 1 .. n /\ longer[i] = path[i]) \/ (~Failed(longer[i]) /\ ~Resets(longer[i]))
      /\ \A i \in 1 .. n : i \in 1 .. Len(longer) /\ longer[i] = path[i]
  BY ConcatPlaces
<1> HIDE DEF longer, n
<1>2. \A i : (\A r \in 1 .. Len(longer) : Resets(longer[r]) => r < i) <=> (\A r \in 1 .. n : Resets(path[r]) => r < i)
  BY <1>1
<1>3. LateFailures(longer) = {i \in 1 .. n : Failed(path[i]) /\ \A r \in 1 .. n : Resets(path[r]) => r < i}
  <2>1. ASSUME NEW i \in LateFailures(longer) PROVE i \in 1 .. n /\ Failed(path[i]) /\ \A r \in 1 .. n : Resets(path[r]) => r < i
    <3>1. i \in 1 .. Len(longer) /\ Failed(longer[i]) /\ \A r \in 1 .. n : Resets(path[r]) => r < i
      BY <1>2, <2>1 DEF LateFailures
    <3>2. QED
      BY <1>1, <3>1
  <2>2. ASSUME NEW i \in 1 .. n, Failed(path[i]), \A r \in 1 .. n : Resets(path[r]) => r < i PROVE i \in LateFailures(longer)
    <3>1. i \in 1 .. Len(longer) /\ Failed(longer[i]) /\ \A r \in 1 .. Len(longer) : Resets(longer[r]) => r < i
      BY <1>1, <1>2, <2>2
    <3>2. QED
      BY <3>1 DEF LateFailures
  <2>3. QED
    BY <2>1, <2>2
<1>4. QED
  BY <1>3 DEF FailuresIn, LateFailures, longer, n

LEMMA SameFailuresAppend ==
  ASSUME NEW path \in Seq(Entry), NEW m \in Entry, m.kind \in {"toolResult", "bash", "compaction"}
  PROVE  FailuresIn(Append(path, m)) = FailuresIn(path)
<1> DEFINE q == <<m>>
<1>1. Append(path, m) = path \o q /\ q \in Seq(Entry) /\ Len(q) = 1 /\ q[1] = m
  BY AppendIsConcat, OnePlace
<1>2. ~Failed(m) /\ ~Resets(m)
  BY EntryTyped DEF Failed, Resets
<1> HIDE DEF q
<1>3. \A i \in 1 .. Len(q) : ~Failed(q[i]) /\ ~Resets(q[i])
  BY <1>1, <1>2
<1>4. QED
  BY <1>1, <1>3, SameFailures

LEMMA SameFailuresBash ==
  ASSUME FlowInv, PlaceInv, NEW path \in Seq(Entry)
  PROVE  FailuresIn(path \o pendingBash) = FailuresIn(path)
<1>1. pendingBash \in Seq(Entry) /\ \A i \in 1 .. Len(pendingBash) : pendingBash[i].kind = "bash"
  BY DEF FlowInv, TypeInv, PlaceInv, PlacesFit
<1>2. \A i \in 1 .. Len(pendingBash) : ~Failed(pendingBash[i]) /\ ~Resets(pendingBash[i])
  BY <1>1, EntryTyped, ElementOfSeq DEF Failed, Resets
<1>3. QED
  BY <1>1, <1>2, SameFailures

-----------------------------------------------------------------------------
(* The response that a run ended with is the last entry of the session *)

\* A call waits to retry, was told not to, or compacts after a response that was not an
\* overflow.
Paused ==
  \/ \E p \in Prompts : prompt[p] \in {"sleep", "cancelled"}
  \/ auto # None /\ ~auto.pre /\ ~auto.willRetry

\* The run is over its last response, which the session heard.
EndHeard == connected /\ (run.phase = "stopped" \/ (run.phase = "end" /\ run.termination # "aborted"))

SavedInv ==
  /\ EndHeard => branch # <<>> /\ Last(branch) = Last(context)
  /\ Paused => branch # <<>> /\ Last(branch).kind = "assistant"

\* While a run is active, its call does nothing else, and neither does another.
LEMMA InRunAlone ==
  ASSUME FlowInv, run.phase # "none"
  PROVE  auto = None /\ \A p \in Prompts : prompt[p] \in {"idle", "settling", "running"}
<1>1. PICK p \in Prompts : prompt[p] = "running"
  BY DEF FlowInv, Control, RunFits
<1>2. AtWork(p) /\ ~Compacting(p)
  BY <1>1 DEF AtWork, Compacting
<1>3. auto = None
  BY <1>2, NoAutoInRun
<1>4. ASSUME NEW q \in Prompts PROVE prompt[q] \in {"idle", "settling", "running"}
  BY <1>1, <1>2 DEF FlowInv, Control, OneAtWork, AtWork
<1>5. QED
  BY <1>3, <1>4

\* What pauses between two runs is active.
LEMMA PausedIsActive ==
  ASSUME FlowInv, (auto # None /\ ~auto.pre) \/ \E p \in Prompts : prompt[p] \in {"sleep", "cancelled"}
  PROVE  isAgentRunActive
<1>1. CASE auto # None /\ ~auto.pre
  <2>1. PICK p \in Prompts : Compacting(p)
    BY <1>1 DEF FlowInv, Control, AutoFits
  <2>2. InRuns(p)
    BY <1>1, <2>1 DEF InRuns
  <2>3. QED
    BY <2>2 DEF FlowInv, Control, ActiveFits
<1>2. CASE \E p \in Prompts : prompt[p] \in {"sleep", "cancelled"}
  BY <1>2 DEF FlowInv, Control, ActiveFits, InRuns
<1>3. QED
  BY <1>1, <1>2

LEMMA SavedQuiet ==
  ASSUME SavedInv, UNCHANGED <<branch, context>>, EndHeard' => EndHeard, Paused' => Paused
  PROVE  SavedInv'
  BY DEF SavedInv

LEMMA RunSaved ==
  ASSUME FlowInv, SavedInv, RunStep
  PROVE  SavedInv'
<1>1. UNCHANGED <<auto, prompt, connected>> /\ run.phase # "none" /\ run \in Runs
  BY DEF RunStep, MessageAdded, TurnBegins, TurnEnds, Responds, ToolReturns, calls, compaction, FlowInv, TypeInv
<1>2. ~Paused'
  BY <1>1, InRunAlone DEF Paused
<1>3. ASSUME MessageAdded PROVE SavedInv'
  <2>1. run'.phase = run.phase /\ run.phase \in {"prompts", "request"}
    BY <1>1, <1>3 DEF MessageAdded, Runs
  <2>2. QED
    BY <1>2, <2>1 DEF SavedInv, EndHeard
<1>4. ASSUME TurnBegins PROVE SavedInv'
  <2>1. run'.phase = "request" \/ (run'.phase = "end" /\ run'.termination = "aborted")
    BY <1>1, <1>4 DEF TurnBegins, Requests, Ends, Runs
  <2>2. QED
    BY <1>2, <2>1 DEF SavedInv, EndHeard
<1>5. ASSUME TurnEnds PROVE SavedInv'
  <2>1. run.phase = "stopped" /\ UNCHANGED <<branch, context>>
    BY <1>5 DEF TurnEnds, log
  <2>2. EndHeard' => EndHeard
    BY <1>1, <2>1 DEF EndHeard
  <2>3. QED
    BY <1>2, <2>1, <2>2, SavedQuiet
<1>6. ASSUME Responds PROVE SavedInv'
  <2>1. PICK m : Added(m) /\ m \in Entry
    <3>1. PICK stop \in (IF run.aborted THEN {"aborted"} ELSE bounds.stops) : Added(Message(nextId, "assistant", stop))
      BY <1>6 DEF Responds
    <3>2. stop \in Stop /\ nextId \in Nat
      BY <3>1, AgentSessionAssumption DEF FlowInv, TypeInv, Stop
    <3>3. Message(nextId, "assistant", stop) \in Entry
      BY <3>2, MessageTyped
    <3>4. QED
      BY <3>1, <3>3
  <2>2. context \in Seq(Entry) /\ branch \in Seq(Entry)
    BY DEF FlowInv, TypeInv
  <2>3. connected => Last(context') = m /\ Last(branch') = m /\ branch' # <<>>
    BY <2>1, <2>2, AppendLast DEF Added
  <2>4. QED
    BY <1>1, <1>2, <2>3 DEF SavedInv, EndHeard
<1>7. ASSUME ToolReturns PROVE SavedInv'
  <2>1. run'.phase = "turn"
    BY <1>1, <1>7 DEF ToolReturns, Runs
  <2>2. QED
    BY <1>2, <2>1 DEF SavedInv, EndHeard
<1>8. QED
  BY <1>3, <1>4, <1>5, <1>6, <1>7 DEF RunStep

\* A call that starts a run, ends or goes on with its message is not paused.
LEMMA MovesSaved ==
  ASSUME FlowInv, NEW p \in Prompts, AtWork(p), NEW step \in {"running", "settling", "preflight"}, At(p, step),
         auto' = None, run'.phase \in {"none", "prompts"}
  PROVE  SavedInv'
<1>1. step \in Steps /\ TypeInv /\ OneAtWork
  BY DEF Steps, FlowInv, Control
<1>2. prompt'[p] = step /\ \A q \in Prompts : q # p => prompt[q] \in {"idle", "settling"} /\ prompt'[q] = prompt[q]
  BY <1>1, MovesOn
<1>3. ~Paused'
  BY <1>2 DEF Paused
<1>4. QED
  BY <1>3 DEF SavedInv, EndHeard

LEMMA StartsSaved ==
  ASSUME FlowInv, NEW p \in Prompts, AtWork(p), NEW ctx, NEW path, Starts(p, ctx, path) \/ Finish(p, ctx, path), auto' = None
  PROVE  SavedInv'
<1>1. CASE Starts(p, ctx, path)
  BY <1>1, MovesSaved DEF Starts
<1>2. CASE Finish(p, ctx, path)
  <2>1. run'.phase = "none" /\ At(p, "settling")
    BY <1>2 DEF Finish, NoRun
  <2>2. QED
    BY <2>1, MovesSaved
<1>3. QED
  BY <1>1, <1>2

LEMMA RunEndsSaved ==
  ASSUME FlowInv, SavedInv, NEW p \in Prompts, RunEnds(p)
  PROVE  SavedInv'
<1>1. RunEndsCases(p) /\ auto = None /\ AtWork(p)
  BY RunEndsOutcome DEF RunEndsCases, AtWork
<1>2. CASE (Starts(p, context, branch) \/ Finish(p, context, branch)) /\ auto' = None
  BY <1>1, <1>2, StartsSaved
<1>3. CASE /\ (agentEndSeen \/ connected) /\ lastAssistant # None /\ run.termination # "aborted"
           /\ run' = NoRun /\ UNCHANGED branch
  <2>1. lastAssistant = Last(context) /\ run.phase = "end"
    BY <1>1, <1>3, LastFailed DEF RunEndsCases
  <2>2. connected
    BY <1>3 DEF FlowInv, Heard
  <2>3. branch # <<>> /\ Last(branch) = lastAssistant
    BY <1>3, <2>1, <2>2 DEF SavedInv, EndHeard
  <2>4. lastAssistant.kind = "assistant"
    BY <1>3 DEF FlowInv, TypeInv
  <2>5. run'.phase = "none"
    BY <1>3 DEF NoRun
  <2>6. QED
    BY <1>3, <2>3, <2>4, <2>5 DEF SavedInv, EndHeard
<1>4. QED
  BY <1>1, <1>2, <1>3 DEF RunEndsCases, Stops

LEMMA PromptSaved ==
  ASSUME FlowInv, SavedInv, NEW p \in Prompts, PromptStep(p)
  PROVE  SavedInv'
<1>1. ASSUME RunEnds(p) PROVE SavedInv'
  BY <1>1, RunEndsSaved
<1>2. ASSUME RetryBegins(p) PROVE SavedInv'
  <2>1. AtWork(p) /\ auto' = None /\ (Starts(p, context, branch) \/ Finish(p, context, branch))
    BY <1>2, RetryBeginsOutcome DEF AtWork, Stops
  <2>2. QED
    BY <2>1, StartsSaved
<1>3. ASSUME RetryCancelled(p) PROVE SavedInv'
  <2>1. /\ AtWork(p) /\ prompt[p] = "cancelled" /\ run.phase = "none"
        /\ \/ (Starts(p, context, branch) \/ Finish(p, context, branch)) /\ auto' = None
           \/ UNCHANGED <<context, branch, run>>
    BY <1>3, RetryCancelledOutcome DEF AtWork, Stops
  <2>2. CASE UNCHANGED <<context, branch, run>>
    BY <2>1, <2>2 DEF SavedInv, EndHeard, Paused
  <2>3. QED
    BY <2>1, <2>2, StartsSaved
<1>4. ASSUME Settles(p) PROVE SavedInv'
  <2>1. UNCHANGED <<context, branch, run, connected, auto>> /\ At(p, "idle") /\ prompt \in [Prompts -> Steps]
    BY <1>4 DEF Settles, log, FlowInv, TypeInv
  <2>2. EndHeard' => EndHeard
    BY <2>1 DEF EndHeard
  <2>3. Paused' => Paused
    BY <2>1 DEF Paused, At
  <2>4. QED
    BY <2>1, <2>2, <2>3, SavedQuiet
<1>5. ASSUME CompactionPrepared(p) PROVE SavedInv'
  <2>1. /\ UNCHANGED <<context, branch, run, connected>> /\ At(p, "summarizing") /\ prompt \in [Prompts -> Steps]
        /\ auto' = [auto EXCEPT !.prep = PrepareCompaction(branch, KeepRecent, None)] /\ prompt[p] = "authorizing"
    BY <1>5 DEF CompactionPrepared, log, compaction, FlowInv, TypeInv
  <2>2. auto \in AutoCompaction /\ auto # None
    BY <2>1 DEF FlowInv, TypeInv, Control, AutoFits, Compacting
  <2>3. auto'.pre = auto.pre /\ auto'.willRetry = auto.willRetry
    BY <2>1, <2>2 DEF AutoCompaction
  <2>4. EndHeard' => EndHeard
    BY <2>1 DEF EndHeard
  <2>5. Paused' => Paused
    BY <2>1, <2>2, <2>3 DEF Paused, At
  <2>6. QED
    BY <2>1, <2>4, <2>5, SavedQuiet
<1>6. ASSUME NEW ctx, NEW path, ResumesCases(p, ctx, path), AtWork(p), run.phase = "none" PROVE SavedInv'
  <2>1. auto' = None
    BY <1>6 DEF ResumesCases
  <2>2. CASE At(p, "preflight") /\ UNCHANGED run
    BY <1>6, <2>1, <2>2, MovesSaved
  <2>3. QED
    BY <1>6, <2>1, <2>2, StartsSaved DEF ResumesCases, Stops
<1>7. ASSUME CompactionFails(p) PROVE SavedInv'
  BY <1>6, <1>7, CompactionFailsOutcome
<1>8. ASSUME CompactionDone(p) PROVE SavedInv'
  <2>1. \E ctx, path : ResumesCases(p, ctx, path) /\ AtWork(p) /\ run.phase = "none"
    BY <1>8, CompactionDoneOutcome
  <2>2. QED
    BY <1>6, <2>1
<1>9. ASSUME PromptRuns(p) PROVE SavedInv'
  <2>1. At(p, "running") /\ AtWork(p) /\ ~Compacting(p) /\ UNCHANGED auto /\ text[p] \in Nat /\ StartRun(<<text[p]>>, FALSE)
    BY <1>9 DEF PromptRuns, AtWork, Compacting, FlowInv, TypeInv
  <2>2. auto' = None
    BY <2>1, NoAutoInRun
  <2>3. run'.phase = "prompts"
    <3>1. <<text[p]>> \in Seq(Nat)
      BY <2>1
    <3>2. QED
      BY <2>1, <3>1, StartRunFacts
  <2>4. QED
    BY <2>1, <2>2, <2>3, MovesSaved
<1>10. QED
  BY <1>1, <1>2, <1>3, <1>4, <1>5, <1>7, <1>8, <1>9 DEF PromptStep

LEMMA ClientSaved ==
  ASSUME FlowInv, SavedInv, ClientStep
  PROVE  SavedInv'
<1>1. ASSUME NEW p \in Prompts, PromptCalled(p) PROVE SavedInv'
  <2>1. PromptCalledCases(p, context \o pendingBash) /\ auto = None
    BY <1>1, PromptCalledOutcome
  <2>2. /\ \A q \in Prompts : prompt[q] \in {"idle", "settling"}
        /\ At(p, "preflight") \/ At(p, "authorizing")
        /\ auto' = None \/ auto'.pre
        /\ UNCHANGED run /\ prompt \in [Prompts -> Steps]
    BY <2>1 DEF PromptCalledCases, FlowInv, TypeInv
  <2>3. run'.phase = "none"
    BY <2>2 DEF FlowInv, Control, RunFits
  <2>4. \A q \in Prompts : prompt'[q] \notin {"sleep", "cancelled"}
    BY <2>2 DEF At
  <2>5. ~Paused'
    BY <2>2, <2>4 DEF Paused
  <2>6. QED
    BY <2>3, <2>5 DEF SavedInv, EndHeard
<1>2. ASSUME Queue \/ ClearQueue PROVE SavedInv'
  <2>1. UNCHANGED <<context, branch, run, connected, auto, prompt>>
    BY <1>2 DEF Queue, ClearQueue, log, compaction, calls
  <2>2. QED
    BY <2>1, SavedQuiet DEF EndHeard, Paused
<1>3. ASSUME RecordBashResult PROVE SavedInv'
  <2>1. UNCHANGED <<run, connected, auto, prompt>> /\ (isAgentRunActive => UNCHANGED <<context, branch>>)
    BY <1>3 DEF RecordBashResult, BashWaits, compaction, calls
  <2>2. CASE isAgentRunActive
    BY <2>1, <2>2, SavedQuiet DEF EndHeard, Paused
  <2>3. CASE ~isAgentRunActive
    <3>1. run.phase = "none"
      BY <2>3, RunIsActive
    <3>2. ~Paused
      BY <2>3, PausedIsActive DEF Paused
    <3>3. QED
      BY <2>1, <3>1, <3>2 DEF SavedInv, EndHeard, Paused
  <2>4. QED
    BY <2>2, <2>3
<1>4. ASSUME AbortRetry \/ Abort \/ Compact PROVE SavedInv'
  <2>1. UNCHANGED <<context, branch, auto>> /\ (connected' => connected)
    BY <1>4 DEF AbortRetry, Abort, Compact, log, compaction
  <2>2. run'.phase = run.phase /\ run'.termination = run.termination
    <3>1. CASE AbortRetry
      BY <3>1 DEF AbortRetry
    <3>2. CASE Abort \/ Compact
      BY <3>2, AbortsFacts DEF Abort, Compact
    <3>3. QED
      BY <1>4, <3>1, <3>2
  <2>3. \A p \in Prompts : prompt'[p] = IF prompt[p] = "sleep" THEN "cancelled" ELSE prompt[p]
    <3>1. RetryAborts
      BY <1>4 DEF AbortRetry, Abort, Compact, Aborts
    <3>2. QED
      BY <3>1, RetryAbortsFacts
  <2>4. QED
    BY <2>1, <2>2, <2>3, SavedQuiet DEF EndHeard, Paused
<1>5. QED
  BY <1>1, <1>2, <1>3, <1>4 DEF ClientStep

LEMMA ManualSaved ==
  ASSUME FlowInv, ManualStep
  PROVE  SavedInv'
<1>1. UNCHANGED <<run, auto, prompt>> /\ manual \in {"authorizing", "summarizing"}
  BY DEF ManualStep, ManualPrepared, ManualFails, ManualDone, calls
<1>2. run.phase = "none" /\ auto = None /\ \A p \in Prompts : ~AtWork(p)
  BY <1>1, ManualIsAlone
<1>3. QED
  BY <1>1, <1>2 DEF SavedInv, EndHeard, Paused, AtWork

LEMMA NextSaved ==
  ASSUME FlowInv, SavedInv, [Next]_vars
  PROVE  SavedInv'
<1>1. ASSUME UNCHANGED vars PROVE SavedInv'
  BY <1>1 DEF vars, log, calls, compaction, SavedInv, EndHeard, Paused
<1>2. QED
  BY <1>1, RunSaved, ManualSaved, PromptSaved, ClientSaved DEF Next, Proceed

\* When the session decides what follows a run, the response that it decides about is the
\* last entry it has saved.
THEOREM SavedHolds == Spec => []SavedInv
<1>1. Init => SavedInv
  BY DEF Init, NoRun, SavedInv, EndHeard, Paused
<1>2. FlowInv /\ SavedInv /\ [Next]_vars => SavedInv'
  BY NextSaved
<1>3. QED
  BY <1>1, <1>2, FlowHolds, PTL DEF Spec

-----------------------------------------------------------------------------
(* How many failures a request may come to *)

\* Each recovery from an overflow, abort and compact() is worth a round of retries.
Allowance == (IF overflowAttempted THEN 1 ELSE 0) + used.aborts + used.compacts
Cap == (MaxRetries + 1) * Allowance

\* A request may follow without a message of the user.
Resumable ==
  \/ run.phase \in {"prompts", "turn", "request", "tool"} /\ run.pending = <<>>
  \/ \E p \in Prompts : prompt[p] = "sleep"
  \/ auto # None /\ ~auto.pre /\ (auto.willRetry \/ (context # <<>> /\ Last(context).kind # "assistant"))

\* The failures so far: in all, while another request may follow, when one has just
\* failed, and when a retry was cancelled.
BudgetInv ==
  /\ FailuresIn(branch) <= Cap + MaxRetries + 1
  /\ connected /\ Resumable => FailuresIn(branch) <= Cap + retryAttempt
  /\ connected /\ run.phase \in {"stopped", "end"} => FailuresIn(branch) <= Cap + retryAttempt + 1
  /\ \A p \in Prompts : prompt[p] = "cancelled" => FailuresIn(branch) <= Cap

LEMMA AllowanceTyped ==
  ASSUME NEW o \in BOOLEAN, NEW u \in Counters
  PROVE  (IF o THEN 1 ELSE 0) + u.aborts + u.compacts \in Nat
  BY DEF Counters

LEMMA CapFacts ==
  ASSUME FlowInv, FlowInv'
  PROVE  /\ MaxRetries \in Nat /\ retryAttempt \in Nat /\ retryAttempt' \in Nat
         /\ Cap \in Nat /\ Cap' \in Nat /\ FailuresIn(branch) \in Nat /\ FailuresIn(branch') \in Nat
         /\ Allowance' = Allowance => Cap' = Cap
         /\ Allowance' = Allowance + 1 => Cap' = Cap + MaxRetries + 1
<1>1. Allowance \in Nat /\ Allowance' \in Nat
  BY AllowanceTyped DEF FlowInv, TypeInv, Allowance
<1>2. MaxRetries \in Nat /\ retryAttempt \in Nat /\ retryAttempt' \in Nat
  BY AgentSessionAssumption DEF FlowInv, TypeInv
<1>3. FailuresIn(branch) \in Nat /\ FailuresIn(branch') \in Nat
  BY FailuresFinite DEF FlowInv, TypeInv
<1>4. ASSUME NEW a \in Nat PROVE (MaxRetries + 1) * a \in Nat /\ (MaxRetries + 1) * (a + 1) = (MaxRetries + 1) * a + MaxRetries + 1
  BY <1>2
<1>5. Cap = (MaxRetries + 1) * Allowance /\ Cap' = (MaxRetries + 1) * Allowance'
  BY DEF Cap
<1>6. QED
  BY <1>1, <1>2, <1>3, <1>4, <1>5

LEMMA BudgetReset ==
  ASSUME FlowInv, FlowInv', FailuresIn(branch') = 0
  PROVE  BudgetInv'
  BY CapFacts DEF BudgetInv

LEMMA BudgetRaised ==
  ASSUME FlowInv, FlowInv', BudgetInv, FailuresIn(branch') = FailuresIn(branch), Allowance' = Allowance + 1
  PROVE  BudgetInv'
<1>1. FailuresIn(branch') <= Cap'
  BY CapFacts DEF BudgetInv
<1>2. QED
  BY <1>1, CapFacts DEF BudgetInv

LEMMA BudgetKept ==
  ASSUME FlowInv, FlowInv', BudgetInv, FailuresIn(branch') = FailuresIn(branch), Allowance' = Allowance,
         connected' /\ Resumable' => FailuresIn(branch) <= Cap + retryAttempt',
         connected' /\ run'.phase \in {"stopped", "end"} => FailuresIn(branch) <= Cap + retryAttempt' + 1,
         \A p \in Prompts : prompt'[p] = "cancelled" => FailuresIn(branch) <= Cap
  PROVE  BudgetInv'
<1>1. Cap' = Cap
  BY CapFacts
<1>2. QED
  BY <1>1 DEF BudgetInv

LEMMA BudgetQuiet ==
  ASSUME FlowInv, FlowInv', BudgetInv, FailuresIn(branch') = FailuresIn(branch),
         UNCHANGED <<overflowAttempted, retryAttempt>>, used'.aborts = used.aborts, used'.compacts = used.compacts,
         connected' /\ Resumable' => connected /\ Resumable,
         connected' /\ run'.phase \in {"stopped", "end"} => connected /\ (Resumable \/ run.phase \in {"stopped", "end"}),
         \A p \in Prompts : prompt'[p] = "cancelled" => prompt[p] = "cancelled"
  PROVE  BudgetInv'
<1>1. Allowance' = Allowance
  BY DEF Allowance
<1>2. connected /\ Resumable => FailuresIn(branch) <= Cap + retryAttempt + 1
  BY CapFacts DEF BudgetInv
<1>3. QED
  BY <1>1, <1>2, BudgetKept DEF BudgetInv

LEMMA MessageAddedBudget ==
  ASSUME FlowInv, FlowInv', BudgetInv, MessageAdded
  PROVE  BudgetInv'
<1> DEFINE h == Head(run.pending)
           m == User(h)
<1>0. /\ run \in Runs /\ run.phase \in {"prompts", "request"} /\ run.pending # <<>>
      /\ run' = [run EXCEPT !.pending = Tail(@)] /\ Added(m)
      /\ UNCHANGED <<connected, auto, prompt, retryAttempt, used>>
      /\ overflowAttempted' = (overflowAttempted /\ ~connected) /\ overflowAttempted \in BOOLEAN
      /\ run.pending \in Seq(Nat) /\ branch \in Seq(Entry)
  BY DEF MessageAdded, FlowInv, TypeInv, Runs, calls, compaction
<1>1. m \in Entry /\ m.kind = "user"
  BY <1>0, HeadTailProperties, MessageTyped
<1>2. ASSUME connected PROVE BudgetInv'
  <2>1. branch' = Append(branch, m)
    BY <1>0, <1>2 DEF Added
  <2>2. FailuresIn(branch') = 0
    BY <1>0, <1>1, <2>1, ResetFailures DEF Resets
  <2>3. QED
    BY <2>2, BudgetReset
<1>3. ASSUME ~connected PROVE BudgetInv'
  <2>1. UNCHANGED <<branch, overflowAttempted>>
    BY <1>0, <1>3 DEF Added
  <2>2. QED
    BY <1>0, <1>3, <2>1, BudgetQuiet
<1>4. QED
  BY <1>2, <1>3

LEMMA TurnBudget ==
  ASSUME FlowInv, FlowInv', BudgetInv, TurnBegins \/ TurnEnds
  PROVE  BudgetInv'
<1>1. /\ UNCHANGED <<branch, connected, auto, prompt, overflowAttempted, retryAttempt, used>> /\ run \in Runs
      /\ run.phase # "none"
  BY DEF TurnBegins, TurnEnds, log, calls, compaction, outcome, FlowInv, TypeInv
<1>2. auto' = None /\ \A p \in Prompts : prompt'[p] # "sleep"
  BY <1>1, InRunAlone
<1>3. ASSUME TurnBegins PROVE BudgetInv'
  <2>1. Resumable
    BY <1>3 DEF TurnBegins, Resumable
  <2>2. QED
    BY <1>1, <2>1, BudgetQuiet
<1>4. ASSUME TurnEnds PROVE BudgetInv'
  <2>1. run.phase = "stopped" /\ branch \in Seq(Entry)
    BY <1>4 DEF TurnEnds, FlowInv, TypeInv
  <2>2. run'.phase = "end" \/ (run'.phase = "request" /\ run'.pending # <<>>)
    <3>1. \/ \E messages : messages # <<>> /\ Requests(messages)
          \/ \E termination : Ends(termination)
      <4>1. \A x : <<x>> # <<>>
        OBVIOUS
      <4>2. QED
        BY <1>4, <4>1 DEF TurnEnds
    <3>2. QED
      BY <1>1, <3>1 DEF Requests, Ends, Runs
  <2>3. ~Resumable'
    BY <1>2, <2>2 DEF Resumable
  <2>4. QED
    BY <1>1, <2>1, <2>3, BudgetQuiet
<1>5. QED
  BY <1>3, <1>4

LEMMA RespondsBudget ==
  ASSUME FlowInv, FlowInv', BudgetInv, Responds
  PROVE  BudgetInv'
<1>1. /\ run \in Runs /\ run.phase = "request" /\ run.pending = <<>> /\ nextId \in Nat /\ branch \in Seq(Entry)
      /\ UNCHANGED <<connected, auto, prompt>> /\ used \in Counters /\ overflowAttempted \in BOOLEAN
  BY DEF Responds, FlowInv, TypeInv, calls, compaction
<1>2. PICK stop \in (IF run.aborted THEN {"aborted"} ELSE bounds.stops) :
        LET m == Message(nextId, "assistant", stop)
        IN  /\ IF stop = "toolUse" THEN Uses("tools") ELSE UNCHANGED used
            /\ Added(m) /\ run' = AfterResponse(stop)
            /\ IF connected
               THEN /\ overflowAttempted' = StillAttempted(m)
                    /\ retryAttempt' = IF Failed(m) THEN retryAttempt ELSE 0
               ELSE UNCHANGED <<overflowAttempted, retryAttempt>>
  BY DEF Responds
<1>3. stop \in Stop
  BY <1>2, AgentSessionAssumption DEF FlowInv, TypeInv, Stop
<1> DEFINE m == Message(nextId, "assistant", stop)
<1>4. m \in Entry /\ m.kind = "assistant" /\ m.stop = stop
  BY <1>1, <1>3, MessageTyped
<1>5. used'.aborts = used.aborts /\ used'.compacts = used.compacts
  BY <1>1, <1>2 DEF Uses, Counters
<1>6. auto' = None /\ \A p \in Prompts : prompt'[p] \notin {"sleep", "cancelled"}
  BY <1>1, InRunAlone
<1> HIDE DEF m
<1>7. ASSUME ~connected PROVE BudgetInv'
  <2>1. UNCHANGED <<branch, overflowAttempted, retryAttempt>>
    BY <1>2, <1>7 DEF Added
  <2>2. QED
    BY <1>1, <1>5, <1>6, <1>7, <2>1, BudgetQuiet
<1>8. ASSUME connected, ~Failed(m) PROVE BudgetInv'
  <2>1. branch' = Append(branch, m)
    BY <1>2, <1>8 DEF Added, m
  <2>2. FailuresIn(branch') = 0
    BY <1>1, <1>4, <1>8, <2>1, ResetFailures DEF Resets
  <2>3. QED
    BY <2>2, BudgetReset
<1>9. ASSUME connected, Failed(m) PROVE BudgetInv'
  <2>1. branch' = Append(branch, m) /\ overflowAttempted' = overflowAttempted /\ retryAttempt' = retryAttempt
    BY <1>1, <1>2, <1>9 DEF Added, m, StillAttempted
  <2>2. FailuresIn(branch') = FailuresIn(branch) + 1
    BY <1>1, <1>4, <1>9, <2>1, MoreFailures
  <2>3. Allowance' = Allowance
    BY <1>5, <2>1 DEF Allowance
  <2>4. run'.phase = "end"
    BY <1>1, <1>2, <1>4, <1>9 DEF AfterResponse, Runs, Failed
  <2>5. ~Resumable'
    BY <1>6, <2>4 DEF Resumable
  <2>6. FailuresIn(branch) <= Cap + retryAttempt
    BY <1>1, <1>9 DEF BudgetInv, Resumable
  <2>7. retryAttempt <= MaxRetries
    BY DEF FlowInv, TypeInv
  <2>8. QED
    BY <1>6, <2>1, <2>2, <2>3, <2>5, <2>6, <2>7, CapFacts DEF BudgetInv
<1>10. QED
  BY <1>7, <1>8, <1>9

LEMMA ToolReturnsBudget ==
  ASSUME FlowInv, FlowInv', BudgetInv, ToolReturns
  PROVE  BudgetInv'
<1> DEFINE m == [Message(nextId, "toolResult", "none") EXCEPT !.ref = Last(context).id]
<1>0. /\ run \in Runs /\ nextId \in Nat /\ context \in Seq(Entry) /\ branch \in Seq(Entry) /\ run.phase = "tool"
      /\ UNCHANGED <<connected, auto, prompt, overflowAttempted, retryAttempt, used>>
      /\ run' = [run EXCEPT !.phase = "turn"] /\ Added(m) /\ run.pending = <<>>
  BY DEF ToolReturns, calls, compaction, outcome, FlowInv, TypeInv, Control, RunFits
<1>1. context # <<>>
  BY <1>0, RunIsActive DEF FlowInv, ContextEnds
<1>2. Last(context).id \in Nat
  BY <1>0, <1>1, FrontFacts, EntryTyped
<1>3. m \in Entry /\ m.kind = "toolResult"
  BY <1>0, <1>2, MessageTyped
<1> HIDE DEF m
<1>4. FailuresIn(branch') = FailuresIn(branch)
  <2>1. FailuresIn(Append(branch, m)) = FailuresIn(branch)
    BY <1>0, <1>3, SameFailuresAppend
  <2>2. QED
    BY <1>0, <2>1 DEF Added
<1>5. Resumable /\ run'.phase = "turn"
  BY <1>0 DEF Resumable, Runs
<1>6. QED
  BY <1>0, <1>4, <1>5, BudgetQuiet

\* The call goes on with a run, for which there is a retry left, or comes to its end.
LEMMA StartsBudget ==
  ASSUME FlowInv, FlowInv', PlaceInv, BudgetInv, NEW p \in Prompts, AtWork(p), NEW ctx, NEW path \in Seq(Entry),
         FailuresIn(path) = FailuresIn(branch), Starts(p, ctx, path) \/ Finish(p, ctx, path), auto' = None,
         UNCHANGED <<overflowAttempted, used, connected>>,
         Starts(p, ctx, path) /\ connected /\ run'.pending = <<>> => FailuresIn(branch) <= Cap + retryAttempt'
  PROVE  BudgetInv'
<1>1. Allowance' = Allowance
  BY DEF Allowance
<1>2. ASSUME NEW step \in {"running", "settling"}, At(p, step)
      PROVE  \A q \in Prompts : prompt'[q] \notin {"sleep", "cancelled"}
  <2>1. step \in Steps /\ TypeInv /\ OneAtWork
    BY DEF Steps, FlowInv, Control
  <2>2. prompt'[p] = step /\ \A q \in Prompts : q # p => prompt[q] \in {"idle", "settling"} /\ prompt'[q] = prompt[q]
    BY <1>2, <2>1, MovesOn
  <2>3. QED
    BY <2>2
<1>3. CASE Starts(p, ctx, path)
  <2>1. branch' = path /\ run'.phase = "prompts" /\ At(p, "running")
    BY <1>3 DEF Starts
  <2>2. \A q \in Prompts : prompt'[q] \notin {"sleep", "cancelled"}
    BY <1>2, <2>1
  <2>3. connected' /\ Resumable' => FailuresIn(branch) <= Cap + retryAttempt'
    BY <1>3, <2>1, <2>2 DEF Resumable
  <2>4. QED
    BY <1>1, <2>1, <2>2, <2>3, BudgetKept
<1>4. CASE Finish(p, ctx, path)
  <2>1. branch' = path \o pendingBash /\ run'.phase = "none" /\ At(p, "settling")
    BY <1>4 DEF Finish, FlushBash, SavedBash, NoRun
  <2>2. \A q \in Prompts : prompt'[q] \notin {"sleep", "cancelled"}
    BY <1>2, <2>1
  <2>3. ~Resumable'
    BY <2>1, <2>2 DEF Resumable
  <2>4. FailuresIn(branch') = FailuresIn(branch)
    BY <2>1, SameFailuresBash
  <2>5. QED
    BY <1>1, <2>1, <2>2, <2>3, <2>4, BudgetKept
<1>5. QED
  BY <1>3, <1>4

LEMMA RunEndsBudget ==
  ASSUME FlowInv, FlowInv', PlaceInv, BudgetInv, NEW p \in Prompts, RunEnds(p)
  PROVE  BudgetInv'
<1> DEFINE m == lastAssistant
           seen == agentEndSeen \/ connected
<1>1. RunEndsCases(p) /\ auto = None /\ AtWork(p) /\ run.phase = "end" /\ UNCHANGED <<used, connected>>
  BY RunEndsOutcome DEF RunEndsCases, AtWork, Rest, compaction
<1>2. branch \in Seq(Entry) /\ MaxRetries \in Nat /\ retryAttempt \in 0 .. MaxRetries /\ TypeInv /\ OneAtWork
  BY AgentSessionAssumption DEF FlowInv, TypeInv, Control
<1>3. \A q \in Prompts : q # p => prompt[q] \in {"idle", "settling"}
  BY <1>1 DEF OneAtWork, FlowInv, Control, AtWork
<1>4. connected => FailuresIn(branch) <= Cap + retryAttempt + 1
  BY <1>1 DEF BudgetInv
<1>5. CASE /\ ~seen \/ m = None \/ run.termination = "aborted"
           /\ Finish(p, context, branch)
           /\ UNCHANGED <<retryAttempt, overflowAttempted, auto>>
  <2>1. ~Starts(p, context, branch)
    <3>1. run'.phase = "none"
      BY <1>5 DEF Finish, NoRun
    <3>2. QED
      BY <3>1 DEF Starts
  <2>2. QED
    BY <1>1, <1>2, <1>5, <2>1, StartsBudget
<1>6. ASSUME seen, m # None, run.termination # "aborted" PROVE m = Last(context) /\ m.kind = "assistant"
  BY <1>1, <1>6, LastFailed DEF FlowInv, TypeInv
<1>7. CASE /\ retryAttempt' = retryAttempt + 1
           /\ At(p, "sleep") /\ run' = NoRun
           /\ UNCHANGED <<branch, overflowAttempted, auto>>
  <2>1. "sleep" \in Steps
    BY DEF Steps
  <2>2. prompt'[p] = "sleep" /\ \A q \in Prompts : q # p => prompt'[q] = prompt[q]
    BY <1>1, <1>2, <1>7, <2>1, MovesOn
  <2>3. run'.phase = "none"
    BY <1>7 DEF NoRun
  <2>4. Allowance' = Allowance /\ FailuresIn(branch') = FailuresIn(branch)
    BY <1>1, <1>7 DEF Allowance
  <2>5. connected' => FailuresIn(branch) <= Cap + retryAttempt'
    BY <1>1, <1>4, <1>7, CapFacts
  <2>6. \A q \in Prompts : prompt'[q] # "cancelled"
    BY <1>3, <2>2
  <2>7. QED
    BY <2>3, <2>4, <2>5, <2>6, BudgetKept
<1>8. CASE /\ seen /\ m # None /\ run.termination # "aborted"
           /\ Starts(p, context, branch) \/ Stops(p, context, branch)
           /\ UNCHANGED <<overflowAttempted, auto>>
  <2>1. Starts(p, context, branch) => run'.pending # <<>>
    BY <1>6, <1>8 DEF Starts
  <2>2. QED
    BY <1>1, <1>2, <1>8, <2>1, StartsBudget DEF Stops
<1>9. CASE /\ seen /\ m # None /\ run.termination # "aborted"
           /\ At(p, "authorizing") /\ run' = NoRun
           /\ auto' \in AutoCompaction /\ ~auto'.pre
           /\ IF auto'.willRetry THEN overflowAttempted' /\ ~overflowAttempted
              ELSE UNCHANGED <<overflowAttempted, context>>
           /\ UNCHANGED branch
  <2>1. "authorizing" \in Steps
    BY DEF Steps
  <2>2. prompt'[p] = "authorizing" /\ \A q \in Prompts : q # p => prompt'[q] = prompt[q]
    BY <1>1, <1>2, <1>9, <2>1, MovesOn
  <2>3. run'.phase = "none"
    BY <1>9 DEF NoRun
  <2>4. CASE auto'.willRetry
    <3>1. Allowance' = Allowance + 1
      <4>1. overflowAttempted' = TRUE /\ overflowAttempted = FALSE /\ used' = used /\ used \in Counters
        BY <1>1, <1>2, <1>9, <2>4 DEF FlowInv, TypeInv
      <4>2. QED
        BY <4>1 DEF Allowance, Counters
    <3>2. QED
      BY <1>9, <3>1, BudgetRaised
  <2>5. CASE ~auto'.willRetry
    <3>1. UNCHANGED <<overflowAttempted, context>>
      BY <1>9, <2>5
    <3>2. Allowance' = Allowance
      BY <1>1, <3>1 DEF Allowance
    <3>3. \A q \in Prompts : prompt'[q] \notin {"sleep", "cancelled"}
      BY <1>3, <2>2
    <3>4. Last(context').kind = "assistant"
      BY <1>6, <1>9, <3>1
    <3>5. ~Resumable'
      BY <2>3, <2>5, <3>3, <3>4 DEF Resumable
    <3>6. QED
      BY <1>9, <2>3, <3>2, <3>3, <3>5, BudgetKept
  <2>6. QED
    BY <2>4, <2>5
<1>10. QED
  BY <1>1, <1>5, <1>7, <1>8, <1>9 DEF RunEndsCases

LEMMA RetryBudget ==
  ASSUME FlowInv, FlowInv', PlaceInv, BudgetInv, NEW p \in Prompts, RetryBegins(p) \/ RetryCancelled(p)
  PROVE  BudgetInv'
<1>1. branch \in Seq(Entry) /\ TypeInv /\ OneAtWork
  BY DEF FlowInv, TypeInv, Control
<1>2. ASSUME RetryBegins(p) PROVE BudgetInv'
  <2>1. /\ Starts(p, context, branch) \/ Finish(p, context, branch)
        /\ auto' = None /\ UNCHANGED <<retryAttempt, overflowAttempted>> /\ AtWork(p) /\ prompt[p] = "sleep"
        /\ UNCHANGED <<used, connected>>
    BY <1>2, RetryBeginsOutcome DEF Stops, Rest, compaction, AtWork
  <2>2. connected => FailuresIn(branch) <= Cap + retryAttempt'
    BY <2>1 DEF BudgetInv, Resumable
  <2>3. QED
    BY <1>1, <2>1, <2>2, StartsBudget
<1>3. ASSUME RetryCancelled(p) PROVE BudgetInv'
  <2>1. /\ \/ (Starts(p, context, branch) \/ Finish(p, context, branch)) /\ auto' = None
           \/ At(p, "authorizing") /\ UNCHANGED <<branch, run>>
        /\ UNCHANGED <<overflowAttempted, used, connected>> /\ AtWork(p) /\ prompt[p] = "cancelled"
        /\ run.phase = "none" /\ retryAttempt' = 0
    BY <1>3, RetryCancelledOutcome DEF Stops, Rest, compaction, AtWork
  <2>2. FailuresIn(branch) <= Cap
    BY <2>1 DEF BudgetInv
  <2>3. FailuresIn(branch) <= Cap + retryAttempt' /\ FailuresIn(branch) <= Cap + retryAttempt' + 1
    BY <2>1, <2>2, CapFacts
  <2>4. CASE (Starts(p, context, branch) \/ Finish(p, context, branch)) /\ auto' = None
    BY <1>1, <2>1, <2>3, <2>4, StartsBudget
  <2>5. CASE At(p, "authorizing") /\ UNCHANGED <<branch, run>>
    <3>1. Allowance' = Allowance
      BY <2>1 DEF Allowance
    <3>2. QED
      BY <2>2, <2>3, <2>5, <3>1, BudgetKept
  <2>6. QED
    BY <2>1, <2>4, <2>5
<1>4. QED
  BY <1>2, <1>3

LEMMA QuietCallBudget ==
  ASSUME FlowInv, FlowInv', BudgetInv, NEW p \in Prompts, Settles(p) \/ CompactionPrepared(p)
  PROVE  BudgetInv'
<1>0. prompt \in [Prompts -> Steps]
  BY DEF FlowInv, TypeInv
<1>1. ASSUME Settles(p) PROVE BudgetInv'
  <2>1. /\ UNCHANGED <<branch, context, run, auto, overflowAttempted, retryAttempt, connected, used>>
        /\ prompt' = [prompt EXCEPT ![p] = "idle"]
    BY <1>1 DEF Settles, log, outcome, At
  <2>2. Resumable' => Resumable
    BY <1>0, <2>1 DEF Resumable
  <2>3. \A q \in Prompts : prompt'[q] = "cancelled" => prompt[q] = "cancelled"
    BY <1>0, <2>1
  <2>4. QED
    BY <2>1, <2>2, <2>3, BudgetQuiet
<1>2. ASSUME CompactionPrepared(p) PROVE BudgetInv'
  <2>1. /\ UNCHANGED <<branch, context, run, overflowAttempted, retryAttempt, connected, used>>
        /\ prompt' = [prompt EXCEPT ![p] = "summarizing"] /\ prompt[p] = "authorizing"
        /\ auto' = [auto EXCEPT !.prep = PrepareCompaction(branch, KeepRecent, None)]
    BY <1>2 DEF CompactionPrepared, log, outcome, compaction, At
  <2>2. auto \in AutoCompaction /\ auto # None
    BY <2>1 DEF FlowInv, TypeInv, Control, AutoFits, Compacting
  <2>3. auto'.pre = auto.pre /\ auto'.willRetry = auto.willRetry
    BY <2>1, <2>2 DEF AutoCompaction
  <2>4. Resumable' => Resumable
    BY <1>0, <2>1, <2>2, <2>3 DEF Resumable
  <2>5. \A q \in Prompts : prompt'[q] = "cancelled" => prompt[q] = "cancelled"
    BY <1>0, <2>1
  <2>6. QED
    BY <2>1, <2>4, <2>5, BudgetQuiet
<1>3. QED
  BY <1>1, <1>2

LEMMA PreflightBudget ==
  ASSUME FlowInv, FlowInv', BudgetInv, NEW p \in Prompts, \A q \in Prompts : q # p => ~AtWork(q),
         At(p, "preflight") \/ At(p, "authorizing"), run'.phase = "none",
         auto' = None \/ auto'.pre, FailuresIn(branch') = FailuresIn(branch), Allowance' = Allowance
  PROVE  BudgetInv'
<1>1. prompt \in [Prompts -> Steps]
  BY DEF FlowInv, TypeInv
<1>2. \A q \in Prompts : prompt'[q] \notin {"sleep", "cancelled"}
  BY <1>1 DEF At, AtWork
<1>3. ~Resumable'
  BY <1>2 DEF Resumable
<1>4. QED
  BY <1>2, <1>3, BudgetKept

LEMMA ResumesBudget ==
  ASSUME FlowInv, FlowInv', PlaceInv, BudgetInv, NEW p \in Prompts, AtWork(p), run.phase = "none",
         NEW ctx, NEW path \in Seq(Entry), ResumesCases(p, ctx, path),
         FailuresIn(path) = FailuresIn(branch), UNCHANGED <<used, connected>>,
         ~auto.pre /\ ctx # <<>> /\ Last(ctx).kind # "assistant" => Resumable
  PROVE  BudgetInv'
<1>1. auto' = None /\ UNCHANGED <<retryAttempt, overflowAttempted>>
  BY DEF ResumesCases
<1>2. CASE At(p, "preflight") /\ branch' = path /\ UNCHANGED run
  <2>1. \A q \in Prompts : q # p => ~AtWork(q)
    BY DEF FlowInv, Control, OneAtWork
  <2>2. Allowance' = Allowance
    BY <1>1 DEF Allowance
  <2>3. QED
    BY <1>1, <1>2, <2>1, <2>2, PreflightBudget
<1>3. CASE ~auto.pre /\ (Starts(p, ctx, path) \/ Finish(p, ctx, path))
  <2>1. Starts(p, ctx, path) /\ connected /\ run'.pending = <<>> => FailuresIn(branch) <= Cap + retryAttempt'
    <3>1. SUFFICES ASSUME Starts(p, ctx, path), connected, run'.pending = <<>>
                   PROVE  FailuresIn(branch) <= Cap + retryAttempt'
      OBVIOUS
    <3>2. Resumable
      BY <1>3, <3>1 DEF Starts
    <3>3. QED
      BY <1>1, <3>1, <3>2 DEF BudgetInv
  <2>2. QED
    BY <1>1, <1>3, <2>1, StartsBudget
<1>4. QED
  BY <1>2, <1>3 DEF ResumesCases, Stops

LEMMA CompactionFailsBudget ==
  ASSUME FlowInv, FlowInv', PlaceInv, BudgetInv, NEW p \in Prompts, CompactionFails(p)
  PROVE  BudgetInv'
<1>1. ResumesCases(p, context, branch) /\ AtWork(p) /\ Compacting(p) /\ run.phase = "none"
  BY CompactionFailsOutcome
<1>2. UNCHANGED <<used, connected>> /\ branch \in Seq(Entry) /\ auto # None
  BY <1>1 DEF CompactionFails, compaction, FlowInv, TypeInv, Control, AutoFits
<1>3. ~auto.pre /\ context # <<>> /\ Last(context).kind # "assistant" => Resumable
  BY <1>2 DEF Resumable
<1>4. QED
  BY <1>1, <1>2, <1>3, ResumesBudget

\* The compacted path and its failures, and the end of its context.
LEMMA CompactedEnd ==
  ASSUME FlowInv, NEW prep \in Preparation, CutAt(branch, prep)
  PROVE  LET ctx == ContextEntries(CompactedPath(prep))
         IN  /\ FailuresIn(CompactedPath(prep)) = FailuresIn(branch)
             /\ ctx # <<>> /\ Last(ctx) = Last(branch)
<1> DEFINE e == CompactionEntry(prep)
           ctx == ContextEntries(Append(branch, e))
<1>1. /\ e \in Entry /\ e.kind = "compaction" /\ e.ref = prep.firstKept /\ branch \in Seq(Entry)
      /\ CompactedPath(prep) = Append(branch, e)
  BY CompactedFacts DEF FlowInv, TypeInv, CompactedPath
<1>2. PICK cut \in 1 .. Len(branch) : branch[cut].id = prep.firstKept
  BY DEF CutAt
<1> HIDE DEF e
<1>3. FailuresIn(Append(branch, e)) = FailuresIn(branch)
  BY <1>1, SameFailuresAppend
<1>4. ctx \in Seq(Entry) /\ Len(ctx) >= 2 /\ ctx[Len(ctx)] = branch[Len(branch)]
  BY <1>1, <1>2, ContextOfCompacted
<1> HIDE DEF ctx
<1>5. ctx # <<>>
  BY <1>4, EmptySeq
<1>6. QED
  BY <1>1, <1>3, <1>4, <1>5 DEF Last, ctx

LEMMA CompactionDoneBudget ==
  ASSUME FlowInv, FlowInv', PlaceInv, TalkInv, SavedInv, BudgetInv, NEW p \in Prompts, CompactionDone(p)
  PROVE  BudgetInv'
<1> DEFINE prep == auto.prep
           path == CompactedPath(prep)
           ctx == IF auto.willRetry THEN RetryContext(ContextEntries(path)) ELSE ContextEntries(path)
<1>1. /\ ResumesCases(p, ctx, path) /\ AtWork(p) /\ Compacting(p) /\ run.phase = "none"
      /\ prep \in Preparation /\ path \in Seq(Entry) /\ auto # None
  BY CompactionDoneOutcome DEF FlowInv, Control, AutoFits
<1>2. UNCHANGED <<used, connected>>
  BY DEF CompactionDone, compaction
<1>3. CutAt(branch, prep)
  BY <1>1, NoneAssumption DEF TalkInv
<1>4. FailuresIn(path) = FailuresIn(branch) /\ Last(ContextEntries(path)) = Last(branch)
  BY <1>1, <1>3, CompactedEnd
<1>5. ~auto.pre /\ Last(ctx).kind # "assistant" => Resumable
  <2>1. CASE auto.willRetry
    BY <1>1, <2>1 DEF Resumable
  <2>2. CASE ~auto.willRetry
    <3>1. ~auto.pre => Last(branch).kind = "assistant"
      BY <1>1, <2>2 DEF SavedInv, Paused
    <3>2. QED
      BY <1>4, <2>2, <3>1
  <2>3. QED
    BY <2>1, <2>2
<1> HIDE DEF ctx, path, prep
<1>6. QED
  BY <1>1, <1>2, <1>4, <1>5, ResumesBudget

LEMMA PromptRunsBudget ==
  ASSUME FlowInv, FlowInv', BudgetInv, NEW p \in Prompts, PromptRuns(p)
  PROVE  BudgetInv'
<1>1. /\ At(p, "running") /\ AtWork(p) /\ ~Compacting(p) /\ text[p] \in Nat /\ StartRun(<<text[p]>>, FALSE)
      /\ UNCHANGED <<auto, branch, overflowAttempted, retryAttempt, used, connected>>
  BY DEF PromptRuns, AtWork, Compacting, log, compaction, FlowInv, TypeInv
<1>2. auto' = None
  BY <1>1, NoAutoInRun
<1>3. run'.phase = "prompts" /\ run'.pending # <<>>
  <2>1. <<text[p]>> \in Seq(Nat) /\ <<text[p]>> # <<>>
    BY <1>1
  <2>2. QED
    BY <1>1, <2>1, StartRunFacts
<1>4. \A q \in Prompts : prompt'[q] \notin {"sleep", "cancelled"}
  <2>1. "running" \in Steps /\ TypeInv /\ OneAtWork
    BY DEF Steps, FlowInv, Control
  <2>2. prompt'[p] = "running" /\ \A q \in Prompts : q # p => prompt[q] \in {"idle", "settling"} /\ prompt'[q] = prompt[q]
    BY <1>1, <2>1, MovesOn
  <2>3. QED
    BY <2>2
<1>5. ~Resumable' /\ Allowance' = Allowance
  BY <1>1, <1>2, <1>3, <1>4 DEF Resumable, Allowance
<1>6. QED
  BY <1>1, <1>3, <1>4, <1>5, BudgetKept

LEMMA PromptCalledBudget ==
  ASSUME FlowInv, FlowInv', BudgetInv, NEW p \in Prompts, PromptCalled(p)
  PROVE  BudgetInv'
<1>1. PromptCalledCases(p, context \o pendingBash) /\ auto = None
  BY PromptCalledOutcome
<1>2. /\ \A q \in Prompts : ~AtWork(q)
      /\ At(p, "preflight") \/ At(p, "authorizing")
      /\ auto' = None \/ auto'.pre
      /\ ~isAgentRunActive /\ UNCHANGED run /\ branch' = branch \o pendingBash
  BY <1>1 DEF PromptCalledCases, AtWork
<1>3. run'.phase = "none"
  BY <1>2, RunIsActive
<1>4. branch' = branch
  <2>1. pendingBash = <<>> /\ branch \in Seq(Entry)
    BY <1>2 DEF FlowInv, TypeInv, Control, ActiveFits
  <2>2. QED
    BY <1>2, <2>1
<1>5. used \in Counters /\ used' = [used EXCEPT !.texts = @ + 1] /\ overflowAttempted \in BOOLEAN
  BY <1>1 DEF PromptCalledCases, FlowInv, TypeInv
<1>6. used'.aborts = used.aborts /\ used'.compacts = used.compacts
  BY <1>5 DEF Counters
<1>7. CASE UNCHANGED overflowAttempted
  <2>1. Allowance' = Allowance
    BY <1>6, <1>7 DEF Allowance
  <2>2. QED
    BY <1>2, <1>3, <1>4, <2>1, PreflightBudget
<1>8. CASE overflowAttempted' /\ ~overflowAttempted
  <2>1. Allowance' = Allowance + 1
    BY <1>5, <1>6, <1>8 DEF Allowance, Counters
  <2>2. QED
    BY <1>4, <2>1, BudgetRaised
<1>9. QED
  BY <1>1, <1>7, <1>8 DEF PromptCalledCases

LEMMA ClientBudget ==
  ASSUME FlowInv, FlowInv', BudgetInv, Queue \/ ClearQueue \/ RecordBashResult \/ Abort \/ AbortRetry \/ Compact
  PROVE  BudgetInv'
<1>0. used \in Counters /\ overflowAttempted \in BOOLEAN /\ branch \in Seq(Entry) /\ nextId \in Nat
  BY DEF FlowInv, TypeInv
<1>1. ASSUME Queue \/ ClearQueue PROVE BudgetInv'
  <2>1. UNCHANGED <<context, branch, run, connected, auto, prompt, overflowAttempted, retryAttempt>>
    BY <1>1 DEF Queue, ClearQueue, log, compaction, calls, outcome
  <2>2. used'.aborts = used.aborts /\ used'.compacts = used.compacts
    BY <1>0, <1>1 DEF Queue, ClearQueue, Uses, Counters
  <2>3. QED
    BY <2>1, <2>2, BudgetQuiet DEF Resumable
<1>2. ASSUME RecordBashResult PROVE BudgetInv'
  <2> DEFINE m == Message(nextId, "bash", "none")
  <2>1. /\ UNCHANGED <<run, connected, auto, prompt, overflowAttempted, retryAttempt>> /\ Uses("bash")
        /\ isAgentRunActive => UNCHANGED <<context, branch>>
        /\ ~isAgentRunActive => branch' = Append(branch, m)
    BY <1>2 DEF RecordBashResult, BashWaits, compaction, calls, outcome
  <2>2. used'.aborts = used.aborts /\ used'.compacts = used.compacts
    BY <1>0, <2>1 DEF Uses, Counters
  <2>3. CASE isAgentRunActive
    BY <2>1, <2>2, <2>3, BudgetQuiet DEF Resumable
  <2>4. CASE ~isAgentRunActive
    <3>1. run.phase = "none" /\ ~(auto # None /\ ~auto.pre) /\ \A p \in Prompts : prompt[p] \notin {"sleep", "cancelled"}
      BY <2>4, RunIsActive, PausedIsActive
    <3>2. ~Resumable'
      BY <2>1, <3>1 DEF Resumable
    <3>3. m \in Entry /\ m.kind = "bash"
      BY <1>0, MessageTyped
    <3> HIDE DEF m
    <3>4. FailuresIn(Append(branch, m)) = FailuresIn(branch)
      BY <1>0, <3>3, SameFailuresAppend
    <3>5. FailuresIn(branch') = FailuresIn(branch)
      BY <2>1, <2>4, <3>4
    <3>6. QED
      BY <2>1, <2>2, <3>1, <3>2, <3>5, BudgetQuiet
  <2>5. QED
    BY <2>3, <2>4
<1>3. ASSUME Abort \/ AbortRetry \/ Compact PROVE BudgetInv'
  <2>1. UNCHANGED <<branch, overflowAttempted>> /\ (Uses("aborts") \/ Uses("compacts"))
    BY <1>3 DEF Abort, AbortRetry, Compact, log, outcome
  <2>2. Allowance' = Allowance + 1
    <3>1. CASE Uses("aborts")
      <4>1. used' = [used EXCEPT !.aborts = @ + 1]
        BY <3>1 DEF Uses
      <4>2. used'.aborts = used.aborts + 1 /\ used'.compacts = used.compacts /\ used.aborts \in Nat /\ used.compacts \in Nat
        BY <1>0, <4>1 DEF Counters
      <4>3. QED
        BY <1>0, <2>1, <4>2 DEF Allowance
    <3>2. CASE Uses("compacts")
      <4>1. used' = [used EXCEPT !.compacts = @ + 1]
        BY <3>2 DEF Uses
      <4>2. used'.aborts = used.aborts /\ used'.compacts = used.compacts + 1 /\ used.aborts \in Nat /\ used.compacts \in Nat
        BY <1>0, <4>1 DEF Counters
      <4>3. QED
        BY <1>0, <2>1, <4>2 DEF Allowance
    <3>3. QED
      BY <2>1, <3>1, <3>2
  <2>3. QED
    BY <2>1, <2>2, BudgetRaised
<1>4. QED
  BY <1>1, <1>2, <1>3

LEMMA ManualBudget ==
  ASSUME FlowInv, FlowInv', TalkInv, BudgetInv, ManualStep
  PROVE  BudgetInv'
<1>1. /\ UNCHANGED <<run, auto, prompt, overflowAttempted, retryAttempt, used>>
      /\ manual \in {"authorizing", "summarizing"}
  BY DEF ManualStep, ManualPrepared, ManualFails, ManualDone, calls, outcome
<1>2. run.phase = "none" /\ auto = None /\ \A p \in Prompts : ~AtWork(p)
  BY <1>1, ManualIsAlone
<1>3. ~Resumable' /\ run'.phase = "none" /\ \A p \in Prompts : prompt'[p] # "cancelled"
  BY <1>1, <1>2 DEF Resumable, AtWork
<1>4. Allowance' = Allowance
  BY <1>1 DEF Allowance
<1>5. FailuresIn(branch') = FailuresIn(branch)
  <2>1. CASE ManualDone
    <3>1. manualPrep \in Preparation /\ branch' = CompactedPath(manualPrep)
      BY <2>1 DEF ManualDone, FlowInv, TypeInv, Control, ManualFits
    <3>2. CutAt(branch, manualPrep)
      BY <3>1, NoneAssumption DEF TalkInv
    <3>3. QED
      BY <3>1, <3>2, CompactedEnd
  <2>2. CASE ManualPrepared \/ ManualFails
    BY <2>2 DEF ManualPrepared, ManualFails, log
  <2>3. QED
    BY <2>1, <2>2 DEF ManualStep
<1>6. QED
  BY <1>3, <1>4, <1>5, BudgetKept

LEMMA InitBudget ==
  ASSUME Init
  PROVE  BudgetInv
<1>1. FlowInv /\ run.phase = "none" /\ auto = None /\ branch = <<>> /\ \A p \in Prompts : prompt[p] = "idle"
  BY InitFlow DEF Init, NoRun
<1>2. ~Resumable
  BY <1>1 DEF Resumable
<1>3. FailuresIn(branch) = 0
  <2>1. LateFailures(branch) = {}
    BY <1>1, EmptySeq DEF LateFailures
  <2>2. QED
    BY <2>1, FS_EmptySet DEF FailuresIn
<1>4. Cap \in Nat /\ MaxRetries \in Nat
  <2>1. Allowance \in Nat /\ MaxRetries \in Nat
    BY <1>1, AllowanceTyped, AgentSessionAssumption DEF FlowInv, TypeInv, Allowance
  <2>2. ASSUME NEW a \in Nat PROVE (MaxRetries + 1) * a \in Nat
    BY <2>1
  <2>3. QED
    BY <2>1, <2>2 DEF Cap
<1>5. QED
  BY <1>1, <1>2, <1>3, <1>4 DEF BudgetInv

LEMMA NextBudget ==
  ASSUME FlowInv, FlowInv', PlaceInv, TalkInv, SavedInv, BudgetInv, [Next]_vars
  PROVE  BudgetInv'
<1>1. CASE RunStep
  BY <1>1, MessageAddedBudget, TurnBudget, RespondsBudget, ToolReturnsBudget DEF RunStep
<1>2. CASE ManualStep
  BY <1>2, ManualBudget
<1>3. ASSUME NEW p \in Prompts, PromptStep(p) PROVE BudgetInv'
  BY <1>3, RunEndsBudget, RetryBudget, QuietCallBudget, CompactionFailsBudget, CompactionDoneBudget,
     PromptRunsBudget DEF PromptStep
<1>4. CASE ClientStep
  BY <1>4, PromptCalledBudget, ClientBudget DEF ClientStep
<1>5. CASE UNCHANGED vars
  <2>1. UNCHANGED <<context, branch, run, connected, auto, prompt, overflowAttempted, retryAttempt, used>>
    BY <1>5 DEF vars, log, calls, compaction, outcome
  <2>2. QED
    BY <2>1, BudgetQuiet DEF Resumable
<1>6. QED
  BY <1>1, <1>2, <1>3, <1>4, <1>5 DEF Next, Proceed

\* At each step, no more requests have failed in a row than the retries so far and the
\* recoveries, aborts and calls of compact() allow.
THEOREM BudgetHolds == Spec => []BudgetInv
<1>1. Init => BudgetInv
  BY InitBudget
<1>2. FlowInv /\ FlowInv' /\ PlaceInv /\ TalkInv /\ SavedInv /\ BudgetInv /\ [Next]_vars => BudgetInv'
  BY NextBudget
<1>3. QED
  BY <1>1, <1>2, FlowHolds, PlacesHold, TalkHolds, SavedHolds, PTL DEF Spec

LEMMA BoundedInBudget ==
  ASSUME FlowInv, BudgetInv
  PROVE  FailuresBounded
<1> DEFINE resets == {i \in DOMAIN branch : branch[i].kind = "user"
                        \/ (branch[i].kind = "assistant" /\ ~Failed(branch[i]))}
           failures == {i \in DOMAIN branch : Failed(branch[i]) /\ \A r \in resets : r < i}
           a == used.aborts
           c == used.compacts
           o == IF overflowAttempted THEN 1 ELSE 0
<1>1. branch \in Seq(Entry) /\ used \in Counters /\ overflowAttempted \in BOOLEAN /\ MaxRetries \in Nat
  BY AgentSessionAssumption DEF FlowInv, TypeInv
<1>2. DOMAIN branch = 1 .. Len(branch)
  BY <1>1, LenProperties
<1>3. failures = LateFailures(branch)
  BY <1>2 DEF LateFailures, Resets
<1>4. Cardinality(failures) <= (MaxRetries + 1) * (o + a + c) + MaxRetries + 1 /\ Cardinality(failures) \in Nat
  BY <1>1, <1>3, FailuresFinite DEF BudgetInv, FailuresIn, Cap, Allowance
<1>5. a \in Nat /\ c \in Nat /\ o \in {0, 1}
  BY <1>1 DEF Counters
<1> HIDE DEF a, c, o, failures
<1>6. (MaxRetries + 1) * (o + a + c) + MaxRetries + 1 <= (MaxRetries + 1) * (2 + a + c)
  <2>1. a + c \in Nat
    BY <1>5
  <2>2. ASSUME NEW n \in Nat, NEW x \in Nat
        PROVE  /\ (n + 1) * (0 + x) + n + 1 <= (n + 1) * (2 + x)
               /\ (n + 1) * (1 + x) + n + 1 <= (n + 1) * (2 + x)
    <3>1. (n + 1) * (0 + x) = (n + 1) * x /\ (n + 1) * (1 + x) = (n + 1) * x + n + 1
          /\ (n + 1) * (2 + x) = (n + 1) * x + n + 1 + n + 1
      BY <2>2
    <3>2. (n + 1) * x \in Nat
      BY <2>2
    <3>3. QED
      BY <2>2, <3>1, <3>2
  <2>3. o + a + c = o + (a + c) /\ 2 + a + c = 2 + (a + c)
    BY <1>5
  <2>4. QED
    BY <1>1, <1>5, <2>1, <2>2, <2>3
<1>7. (MaxRetries + 1) * (o + a + c) + MaxRetries + 1 \in Int /\ (MaxRetries + 1) * (2 + a + c) \in Int
  <2>1. \A n, x \in Nat : n * x \in Nat
    OBVIOUS
  <2>2. MaxRetries + 1 \in Nat /\ o + a + c \in Nat /\ 2 + a + c \in Nat
    BY <1>1, <1>5
  <2>3. QED
    BY <1>1, <2>1, <2>2
<1>8. Cardinality(failures) <= (MaxRetries + 1) * (2 + a + c)
  BY <1>4, <1>6, <1>7
<1>9. QED
  BY <1>8 DEF FailuresBounded, failures, a, c

\* Where the messages are and how they relate is as it should be: none is lost or said
\* twice, context and session agree, results follow their calls, and a request that keeps
\* failing is given up.
THEOREM ConversationHolds == Spec => []ConversationIsKept
<1>1. FlowInv /\ BudgetInv => FailuresBounded
  BY BoundedInBudget
<1>2. TypeOK /\ MessagesKept /\ DisplayedIsQueued /\ ContextIsSession /\ ResultsFollowCalls /\ FailuresBounded
        => ConversationIsKept
  BY DEF ConversationIsKept
<1>3. QED
  BY <1>1, <1>2, FlowHolds, BudgetHolds, MessagesHold, ContextHolds, PTL
=============================================================================
