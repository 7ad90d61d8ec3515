----------------------- MODULE ExecutionIntegrityProofs -----------------------
(***************************************************************************)
(* Theorems about execution integrity: what counts as evidence was made    *)
(* after the last change of the files, no change of the prompt is left out *)
(* of the count, the model is reminded a bounded number of times, and an   *)
(* agent that could validate its changes stops only when that was decided. *)
(***************************************************************************)
EXTENDS ExecutionIntegrity, TLAPS, SequenceTheorems, FiniteSetTheorems, WellFoundedInduction

-----------------------------------------------------------------------------
(* Sequences and numbers *)

\* A set of natural numbers has a least element.
LEMMA Least ==
  ASSUME NEW S \in SUBSET Nat, S # {}
  PROVE  \E i \in S : \A j \in S : i <= j
<1> DEFINE T == {0 .. i : i \in S}
<1>1. T \subseteq FiniteSubsetsOf(Nat)
  <2>1. \A i \in Nat : IsFiniteSet(0 .. i) /\ 0 .. i \subseteq Nat
    BY FS_Interval
  <2>2. QED
    BY <2>1 DEF FiniteSubsetsOf
<1>2. PICK x \in T : \A y \in T : <<y, x>> \notin StrictSubsetOrdering(Nat)
  <2>1. T # {}
    OBVIOUS
  <2>2. QED
    BY <1>1, <2>1, FS_StrictSubsetOrderingWellFounded, WFMin
<1>3. PICK i \in S : x = 0 .. i
  BY <1>2
<1>4. ASSUME NEW j \in S PROVE i <= j
  <2>1. SUFFICES ASSUME j < i PROVE FALSE
    OBVIOUS
  <2>2. 0 .. j \subseteq Nat /\ 0 .. i \subseteq Nat /\ 0 .. j \subseteq 0 .. i
        /\ i \notin 0 .. j /\ i \in 0 .. i
    BY <2>1
  <2>3. <<0 .. j, 0 .. i>> \in StrictSubsetOrdering(Nat)
    BY <2>2 DEF StrictSubsetOrdering
  <2>4. QED
    BY <1>2, <1>3, <2>3
<1>5. QED
  BY <1>4

\* recordValidation keeps what it is given, but not more than its maximum.
LEMMA KeptType ==
  ASSUME NEW S, NEW vs \in Seq(S)
  PROVE  Kept(vs) \in Seq(S) /\ Len(Kept(vs)) <= MaxValidations
<1> DEFINE m == Len(vs) - MaxValidations + 1
<1>1. MaxValidations \in Nat \ {0} /\ Len(vs) \in Nat /\ DOMAIN vs = 1 .. Len(vs)
  BY IntegrityAssumption, LenProperties
<1>2. CASE Len(vs) <= MaxValidations
  BY <1>2 DEF Kept
<1>3. CASE ~(Len(vs) <= MaxValidations)
  <2>1. Kept(vs) = SubSeq(vs, m, Len(vs))
    BY <1>3 DEF Kept
  <2>2. m \in Int /\ m <= Len(vs) /\ Len(vs) - m + 1 = MaxValidations
        /\ \A i \in m .. Len(vs) : i \in 1 .. Len(vs)
    BY <1>1, <1>3
  <2>3. \A i \in m .. Len(vs) : vs[i] \in S
    BY <1>1, <2>2
  <2>4. SubSeq(vs, m, Len(vs)) \in Seq(S) /\ Len(SubSeq(vs, m, Len(vs))) = MaxValidations
    <3> HIDE DEF m
    <3>1. QED
      BY <1>1, <2>2, <2>3, SubSeqProperties
  <2>5. QED
    BY <1>1, <2>1, <2>4
<1>4. QED
  BY <1>2, <1>3

\* The recursion over the calls of a batch is well defined.
LEMMA TurnRecorded ==
  ASSUME Len(batch) \in Nat
  PROVE  RecordedTurn = [n \in 0 .. Len(batch) |->
                           IF n = 0 THEN validations ELSE After(RecordedTurn[n - 1], n)]
<1> DEFINE Solves(F, k) == F = [n \in 0 .. k |-> IF n = 0 THEN validations ELSE After(F[n - 1], n)]
           Unsolved == {k \in Nat : ~\E F : Solves(F, k)}
<1>1. Unsolved = {}
  <2>1. SUFFICES ASSUME Unsolved # {} PROVE FALSE
    OBVIOUS
  <2>2. PICK k \in Unsolved : \A j \in Unsolved : k <= j
    <3>1. Unsolved \in SUBSET Nat
      OBVIOUS
    <3>2. QED
      BY <2>1, <3>1, Least
  <2>3. CASE k = 0
    <3> DEFINE F == [n \in 0 .. 0 |-> validations]
    <3>1. \A n \in 0 .. 0 : n = 0
      OBVIOUS
    <3>2. Solves(F, 0)
      BY <3>1
    <3>3. QED
      BY <2>2, <2>3, <3>2
  <2>4. CASE k # 0
    <3>1. k - 1 \in Nat /\ k - 1 \notin Unsolved
      BY <2>2, <2>4
    <3>2. PICK F : Solves(F, k - 1)
      BY <3>1
    <3> DEFINE G == [n \in 0 .. k |-> IF n = k THEN After(F[k - 1], k) ELSE F[n]]
    <3>3. ASSUME NEW n \in 0 .. k
          PROVE  G[n] = IF n = 0 THEN validations ELSE After(G[n - 1], n)
      <4>1. CASE n = k
        <5>1. k - 1 \in 0 .. k /\ k - 1 # k
          BY <3>1
        <5>2. G[n] = After(F[k - 1], k) /\ G[k - 1] = F[k - 1]
          BY <4>1, <5>1
        <5>3. QED
          BY <2>4, <4>1, <5>2
      <4>2. CASE n # k
        <5>1. n \in 0 .. k - 1 /\ (n # 0 => n - 1 \in 0 .. k /\ n - 1 # k)
          BY <3>1, <4>2
        <5>2. F[n] = IF n = 0 THEN validations ELSE After(F[n - 1], n)
          BY <3>2, <5>1
        <5>3. G[n] = F[n] /\ (n # 0 => G[n - 1] = F[n - 1])
          BY <4>2, <5>1
        <5>4. QED
          BY <5>2, <5>3
      <4>3. QED
        BY <4>1, <4>2
    <3>4. Solves(G, k)
      BY <3>3
    <3>5. QED
      BY <2>2, <3>4
  <2>5. QED
    BY <2>3, <2>4
<1>2. \E F : Solves(F, Len(batch))
  BY <1>1
<1>3. RecordedTurn = CHOOSE F : Solves(F, Len(batch))
  BY DEF RecordedTurn
<1>4. Solves(RecordedTurn, Len(batch))
  BY <1>2, <1>3, Zenon
<1>5. QED
  BY <1>4

\* Whatever set holds what was kept and what the turn adds holds what is kept after it.
LEMMA TurnKept ==
  ASSUME NEW S, validations \in Seq(S), Len(validations) <= MaxValidations, Len(batch) \in Nat,
         \A n \in 1 .. Len(batch) : batch[n] \in discovery =>
            Evidence(batch[n], TurnStatus(n), version + Cardinality(Mutations), seen[n], resets) \in S
  PROVE  RecordedTurn[Len(batch)] \in Seq(S) /\ Len(RecordedTurn[Len(batch)]) <= MaxValidations
<1> DEFINE Bad == {n \in 0 .. Len(batch) :
                     ~(RecordedTurn[n] \in Seq(S) /\ Len(RecordedTurn[n]) <= MaxValidations)}
<1>1. SUFFICES ASSUME Bad # {} PROVE FALSE
  <2>1. Len(batch) \in 0 .. Len(batch)
    OBVIOUS
  <2>2. QED
    BY <2>1
<1>2. PICK n \in Bad : \A j \in Bad : n <= j
  <2>1. Bad \in SUBSET Nat
    OBVIOUS
  <2>2. QED
    BY <1>1, <2>1, Least
<1>3. RecordedTurn[n] = IF n = 0 THEN validations ELSE After(RecordedTurn[n - 1], n)
  BY TurnRecorded
<1>4. n # 0
  BY <1>2, <1>3
<1>5. n \in 1 .. Len(batch) /\ n - 1 \in 0 .. Len(batch) /\ n - 1 \notin Bad
  BY <1>2, <1>4
<1>6. RecordedTurn[n - 1] \in Seq(S) /\ Len(RecordedTurn[n - 1]) <= MaxValidations
  BY <1>5
<1>7. After(RecordedTurn[n - 1], n) \in Seq(S) /\ Len(After(RecordedTurn[n - 1], n)) <= MaxValidations
  BY <1>5, <1>6, KeptType, AppendProperties DEF After
<1>8. QED
  BY <1>2, <1>3, <1>4, <1>7

-----------------------------------------------------------------------------
(* Types *)

EvidenceSet == [command : Command, discovery : Discovery, status : Status, version : Nat,
                seen : Nat, resets : Nat]
ShellSet == [command : Command, version : Nat, pending : BOOLEAN, seen : Nat, resets : Nat]

TrackerType ==
  /\ mode \in Mode /\ discovery \in Discovery /\ pendingDiscovery \in SUBSET Discovery
  /\ version \in Nat /\ attempts \in Nat
  /\ validations \in Seq(EvidenceSet) /\ Len(validations) <= MaxValidations

SessionType ==
  /\ runStarted \in BOOLEAN /\ settling \in Nat
  /\ pendingMutations \subseteq 1 .. bound.batch
  /\ shell \in ShellSet \cup {NoShell}

(* A tool has written only when it is a mutating one. *)
RunType ==
  /\ pc \in {"idle", "start", "model", "tools", "decide", "poll", "post", "over"}
  /\ turns \in 0 .. bound.turns
  /\ batch \in Seq(Mutation \cup Command) /\ Len(batch) <= bound.batch
  /\ tool \in [1 .. Len(batch) -> ToolState] /\ seen \in [1 .. Len(batch) -> Nat]
  /\ \A i \in 1 .. Len(batch) : tool[i] = "written" => batch[i] \in Mutation
  /\ queue \in Seq({"user", "feedback"})

HistoryType ==
  /\ bound \in Bounds
  /\ edits \in Nat /\ base \in 0 .. edits /\ resets \in Nat /\ nudges \in Nat
  /\ hidden \in BOOLEAN /\ overlapped \in BOOLEAN

TypeInv == TrackerType /\ SessionType /\ RunType /\ HistoryType

\* Bounds are natural numbers.
LEMMA BoundIs ==
  ASSUME NEW b \in Bounds
  PROVE  b.turns \in Nat /\ b.batch \in Nat
BY DEF Bounds

\* The tracker, the session and the run start with their types.
LEMMA TypeInit == Init => TypeInv
<1> SUFFICES ASSUME Init PROVE TypeInv
  OBVIOUS
<1>1. bound \in Bounds /\ MaxValidations \in Nat
  BY ScenariosAssumption, IntegrityAssumption DEF Init
<1>2. mode \in Mode
  BY <1>1 DEF Init, Bounds
<1>3. TrackerType
  BY <1>1, <1>2 DEF Init, TrackerType, Discovery, Mode
<1>4. SessionType
  BY DEF Init, SessionType
<1>5. RunType
  BY <1>1, BoundIs DEF Init, RunType
<1>6. HistoryType
  <2>1. hidden \in BOOLEAN /\ overlapped \in BOOLEAN
    BY Zenon DEF Init
  <2>2. edits \in Nat /\ base \in 0 .. edits /\ resets \in Nat /\ nudges \in Nat
    BY DEF Init
  <2>3. QED
    BY <1>1, <2>1, <2>2 DEF HistoryType
<1>7. QED
  BY <1>3, <1>4, <1>5, <1>6 DEF TypeInv

\* The tracker's part.
LEMMA TrackerNext == TypeInv /\ [Next]_vars => TrackerType'
<1> SUFFICES ASSUME TypeInv, [Next]_vars PROVE TrackerType'
  OBVIOUS
<1> USE DEF TypeInv
<1>1. CASE UNCHANGED trackerVars
  BY <1>1 DEF trackerVars, TrackerType
<1>2. CASE AgentStart
  <2>1. MaxValidations \in Nat /\ <<>> \in Seq(EvidenceSet) /\ Len(<<>>) = 0
    BY IntegrityAssumption
  <2>2. /\ version' \in {0, version} /\ validations' \in {<<>>, validations}
        /\ attempts' \in {0, attempts} /\ UNCHANGED <<mode, discovery, pendingDiscovery>>
    BY <1>2 DEF AgentStart
  <2>3. version' \in Nat /\ attempts' \in Nat
    BY <2>2 DEF TrackerType
  <2>4. validations' \in Seq(EvidenceSet) /\ Len(validations') <= MaxValidations
    <3>1. CASE validations' = <<>>
      BY <2>1, <3>1
    <3>2. CASE validations' = validations
      BY <3>2 DEF TrackerType
    <3>3. QED
      BY <2>2, <3>1, <3>2
  <2>5. QED
    BY <2>2, <2>3, <2>4 DEF TrackerType
<1>3. CASE TurnEnd
  <2>1. Len(batch) \in Nat /\ DOMAIN batch = 1 .. Len(batch)
    BY DEF RunType
  <2>2. IsFiniteSet(Mutations)
    <3>1. Mutations \subseteq 1 .. Len(batch)
      BY <2>1 DEF Mutations
    <3>2. IsFiniteSet(1 .. Len(batch))
      BY <2>1, FS_Interval
    <3>3. QED
      BY <3>1, <3>2, FS_Subset
  <2>3. version + Cardinality(Mutations) \in Nat
    BY <2>2, FS_CardinalityType DEF TrackerType
  <2>4. CASE mode = "off"
    BY <1>3, <2>4 DEF TurnEnd, TrackerType
  <2>5. CASE mode # "off"
    <3>1. ASSUME NEW n \in 1 .. Len(batch), batch[n] \in discovery
          PROVE  Evidence(batch[n], TurnStatus(n), version + Cardinality(Mutations), seen[n], resets)
                   \in EvidenceSet
      <4>1. TurnStatus(n) \in Status
        BY <1>3, <2>1 DEF TurnEnd, TurnStatus, Status
      <4>2. batch[n] \in Command /\ seen[n] \in Nat /\ resets \in Nat /\ discovery \in Discovery
        BY <3>1 DEF TrackerType, RunType, HistoryType, Discovery
      <4>3. QED
        BY <2>3, <4>1, <4>2 DEF Evidence, EvidenceSet
    <3>2. /\ RecordedTurn[Len(batch)] \in Seq(EvidenceSet)
          /\ Len(RecordedTurn[Len(batch)]) <= MaxValidations
      BY <2>1, <3>1, TurnKept DEF TrackerType
    <3>3. /\ version' = version + Cardinality(Mutations)
          /\ validations' = RecordedTurn[Len(batch)]
          /\ discovery' \in Discovery \/ discovery' = discovery
          /\ UNCHANGED <<mode, pendingDiscovery, attempts>>
      BY <1>3, <2>5 DEF TurnEnd
    <3>4. QED
      BY <2>3, <3>2, <3>3 DEF TrackerType
  <2>6. QED
    BY <2>4, <2>5
<1>4. CASE Decide
  BY <1>4 DEF Decide, TrackerType
<1>5. CASE \E r \in Result : EndShell(r)
  <2>1. PICK r \in Result : EndShell(r)
    BY <1>5
  <2> DEFINE status == IF Overlaps(shell, version) THEN "concurrent-with-mutation" ELSE r
             e == Evidence(shell.command, status, version, shell.seen, shell.resets)
  <2>2. shell \in ShellSet
    BY <2>1 DEF EndShell, SessionType
  <2>3. e \in EvidenceSet
    BY <2>2 DEF ShellSet, TrackerType, Evidence, EvidenceSet, Status, Result
  <2> HIDE DEF e
  <2>4. Append(validations, e) \in Seq(EvidenceSet)
    BY <2>3 DEF TrackerType
  <2>5. /\ Kept(Append(validations, e)) \in Seq(EvidenceSet)
        /\ Len(Kept(Append(validations, e))) <= MaxValidations
    BY <2>4, KeptType
  <2>6. /\ validations' = Kept(Append(validations, e)) \/ validations' = validations
        /\ UNCHANGED <<mode, discovery, pendingDiscovery, version, attempts>>
    BY <2>1 DEF EndShell, e
  <2>7. QED
    BY <2>5, <2>6 DEF TrackerType
<1>6. CASE \E m \in Mode, found \in Discovery : Reload(m, found)
  BY <1>6 DEF Reload, TrackerType
<1>7. QED
  BY <1>1, <1>2, <1>3, <1>4, <1>5, <1>6
  DEF Next, RunStep, UserStep, vars, Prompt, Respond, Stop, StartTool, Write, EndTool, FailRun,
      OrphanWrites, DecideLater, GoOn, Complete, Continue, Finish, Settle, QueueMessage, ClearQueue,
      Abort, StartShell

\* A response's calls are a sequence.
LEMMA BatchType ==
  ASSUME TypeInv, NEW b \in Batch
  PROVE  b \in Seq(Mutation \cup Command) /\ Len(b) <= bound.batch /\ DOMAIN b = 1 .. Len(b)
<1>1. bound.batch \in Nat
  BY BoundIs DEF TypeInv, HistoryType
<1>2. PICK n \in 0 .. bound.batch : b \in [1 .. n -> Mutation \cup Command]
  BY DEF Batch
<1>3. n \in Nat /\ n <= bound.batch
  BY <1>1, <1>2
<1>4. b \in Seq(Mutation \cup Command)
  BY <1>2, <1>3, SeqDef
<1>5. DOMAIN b = 1 .. n /\ DOMAIN b = 1 .. Len(b) /\ Len(b) \in Nat
  BY <1>2, <1>4, LenProperties
<1>6. Len(b) = n
  BY <1>3, <1>5
<1>7. QED
  BY <1>3, <1>4, <1>5, <1>6

\* The part of AgentSession.
LEMMA SessionNext == TypeInv /\ [Next]_vars => SessionType'
<1> SUFFICES ASSUME TypeInv, [Next]_vars PROVE SessionType'
  OBVIOUS
<1> USE DEF TypeInv, SessionType
<1>0. UNCHANGED bound /\ DOMAIN batch = 1 .. Len(batch) /\ Len(batch) \in Nat /\ bound.batch \in Nat
  <2>1. UNCHANGED bound
    BY DEF Next, RunStep, UserStep, vars, bounds, Prompt, AgentStart, Respond, Stop, StartTool, Write,
           EndTool, FailRun, OrphanWrites, TurnEnd, Decide, DecideLater, GoOn, Complete, Continue,
           Finish, Settle, QueueMessage, ClearQueue, Abort, StartShell, EndShell, Reload
  <2>2. QED
    BY <2>1, BoundIs DEF RunType, HistoryType
<1>1. CASE UNCHANGED <<runStarted, settling, pendingMutations, shell>>
  BY <1>0, <1>1
<1>2. CASE Prompt
  BY <1>0, <1>2 DEF Prompt
<1>3. CASE AgentStart
  BY <1>0, <1>3 DEF AgentStart
<1>4. CASE \E i \in DOMAIN batch : StartTool(i)
  <2>1. PICK i \in 1 .. Len(batch) : StartTool(i)
    BY <1>0, <1>4
  <2>2. i \in 1 .. bound.batch
    BY <1>0 DEF RunType
  <2>3. QED
    BY <1>0, <2>1, <2>2 DEF StartTool
<1>5. CASE \E i \in DOMAIN batch, r \in Result : EndTool(i, r)
  BY <1>0, <1>5 DEF EndTool
<1>6. CASE Finish
  BY <1>0, <1>6 DEF Finish
<1>7. CASE Settle
  <2>1. runStarted' = FALSE
    BY <1>7 DEF Settle
  <2>2. settling' \in Nat /\ UNCHANGED <<pendingMutations, shell>>
    BY <1>7 DEF Settle
  <2>3. QED
    BY <1>0, <2>1, <2>2
<1>8. CASE \E k \in Command : StartShell(k)
  <2>1. PICK k \in Command : StartShell(k)
    BY <1>8
  <2>2. shell' \in ShellSet
    BY <2>1 DEF StartShell, ShellSet, TrackerType, HistoryType
  <2>3. QED
    BY <1>0, <2>1, <2>2 DEF StartShell
<1>9. CASE \E r \in Result : EndShell(r)
  BY <1>0, <1>9 DEF EndShell
<1>10. QED
  BY <1>1, <1>2, <1>3, <1>4, <1>5, <1>6, <1>7, <1>8, <1>9
  DEF Next, RunStep, UserStep, vars, sessionVars, Respond, Stop, Write, FailRun,
      OrphanWrites, TurnEnd, Decide, DecideLater, GoOn, Complete, Continue, QueueMessage, ClearQueue,
      Abort, Reload

\* The part of the run.
LEMMA RunNext == TypeInv /\ [Next]_vars => RunType'
<1> SUFFICES ASSUME TypeInv, [Next]_vars PROVE RunType'
  OBVIOUS
<1> USE DEF TypeInv
<1>0. /\ UNCHANGED bound /\ DOMAIN batch = 1 .. Len(batch) /\ Len(batch) \in Nat
      /\ bound.batch \in Nat /\ bound.turns \in Nat
  <2>1. UNCHANGED bound
    BY DEF Next, RunStep, UserStep, vars, bounds, Prompt, AgentStart, Respond, Stop, StartTool, Write,
           EndTool, FailRun, OrphanWrites, TurnEnd, Decide, DecideLater, GoOn, Complete, Continue,
           Finish, Settle, QueueMessage, ClearQueue, Abort, StartShell, EndShell, Reload
  <2>2. QED
    BY <2>1, BoundIs DEF RunType, HistoryType
<1> DEFINE PcType == pc \in {"idle", "start", "model", "tools", "decide", "poll", "post", "over"}
           CallsType == /\ batch \in Seq(Mutation \cup Command) /\ Len(batch) <= bound.batch
                        /\ tool \in [1 .. Len(batch) -> ToolState]
                        /\ seen \in [1 .. Len(batch) -> Nat]
                        /\ \A i \in 1 .. Len(batch) : tool[i] = "written" => batch[i] \in Mutation
           QueueType == queue \in Seq({"user", "feedback"})
<1>1. PcType'
  BY DEF Next, RunStep, UserStep, vars, runVars, RunType, Prompt, AgentStart, Respond, Stop, StartTool,
         Write, EndTool, FailRun, OrphanWrites, TurnEnd, Decide, DecideLater, GoOn, Complete, Continue,
         Finish, Settle, QueueMessage, ClearQueue, Abort, StartShell, EndShell, Reload
<1>2. (turns \in 0 .. bound.turns)'
  <2>1. CASE UNCHANGED turns
    BY <1>0, <2>1 DEF RunType
  <2>2. CASE Prompt
    BY <1>0, <2>2 DEF Prompt
  <2>3. CASE \E b \in Batch : Respond(b)
    BY <1>0, <2>3 DEF Respond, RunType
  <2>4. QED
    BY <2>1, <2>2, <2>3
    DEF Next, RunStep, UserStep, vars, runVars, AgentStart, Stop, StartTool, Write, EndTool, FailRun,
        OrphanWrites, TurnEnd, Decide, DecideLater, GoOn, Complete, Continue, Finish, Settle,
        QueueMessage, ClearQueue, Abort, StartShell, EndShell, Reload
<1>3. CallsType'
  <2>1. CASE UNCHANGED <<batch, tool, seen>>
    BY <1>0, <2>1 DEF RunType
  <2>2. CASE \E b \in Batch : Respond(b)
    <3>1. PICK b \in Batch : Respond(b)
      BY <2>2
    <3>2. /\ b \in Seq(Mutation \cup Command) /\ Len(b) <= bound.batch /\ DOMAIN b = 1 .. Len(b)
      BY BatchType
    <3>3. /\ batch' = b /\ tool' = [i \in 1 .. Len(b) |-> "waiting"]
          /\ seen' = [i \in 1 .. Len(b) |-> 0]
      BY <3>1, <3>2 DEF Respond
    <3>4. /\ tool' \in [1 .. Len(b) -> ToolState] /\ seen' \in [1 .. Len(b) -> Nat]
          /\ \A i \in 1 .. Len(b) : tool'[i] # "written"
      BY <3>3 DEF ToolState
    <3>5. QED
      BY <1>0, <3>2, <3>3, <3>4
  <2>3. CASE \E i \in DOMAIN batch : StartTool(i)
    <3>1. PICK i \in 1 .. Len(batch) : StartTool(i)
      BY <1>0, <2>3
    <3>2. /\ UNCHANGED batch /\ tool' = [tool EXCEPT ![i] = "started"]
          /\ \E n \in {0, edits} : seen' = [seen EXCEPT ![i] = n]
      BY <3>1 DEF StartTool
    <3>3. QED
      BY <1>0, <3>2 DEF RunType, HistoryType, ToolState
  <2>4. CASE \E i \in DOMAIN batch : Write(i)
    BY <1>0, <2>4 DEF Write, RunType, ToolState
  <2>5. CASE \E i \in DOMAIN batch, r \in Result : EndTool(i, r)
    <3>1. PICK i \in 1 .. Len(batch), r \in Result : EndTool(i, r)
      BY <1>0, <2>5
    <3>2. UNCHANGED <<batch, seen>> /\ tool' = [tool EXCEPT ![i] = r]
      BY <3>1 DEF EndTool
    <3>3. QED
      BY <1>0, <3>2 DEF RunType, ToolState, Result
  <2>6. CASE batch' = <<>> /\ tool' = <<>> /\ seen' = <<>>
    <3>1. batch' \in Seq(Mutation \cup Command) /\ Len(batch') = 0
      BY <2>6
    <3>2. 1 .. Len(batch') = {}
      BY <3>1
    <3>3. tool' \in [1 .. Len(batch') -> ToolState] /\ seen' \in [1 .. Len(batch') -> Nat]
      BY <2>6, <3>2
    <3>4. QED
      BY <1>0, <3>1, <3>2, <3>3
  <2>7. QED
    BY <2>1, <2>2, <2>3, <2>4, <2>5, <2>6
    DEF Next, RunStep, UserStep, vars, runVars, Prompt, AgentStart, Stop, FailRun,
        OrphanWrites, TurnEnd, Decide, DecideLater, GoOn, Complete, Continue, Finish, Settle,
        QueueMessage, ClearQueue, Abort, StartShell, EndShell, Reload
<1>4. QueueType'
  <2>1. queue \in Seq({"user", "feedback"})
    BY DEF RunType
  <2>2. CASE UNCHANGED queue
    BY <2>1, <2>2
  <2>3. CASE Decide
    <3>1. queue' = <<>> \/ queue' = <<"feedback">>
      BY <2>3 DEF Decide, Feedback
    <3>2. <<>> \in Seq({"user", "feedback"}) /\ <<"feedback">> \in Seq({"user", "feedback"})
      OBVIOUS
    <3>3. QED
      BY <3>1, <3>2
  <2>4. CASE GoOn
    <3>1. GoOn => queue' = queue \/ (queue # <<>> /\ queue' = Tail(queue))
      BY DEF GoOn
    <3>2. QED
      BY <2>1, <2>4, <3>1
  <2>5. CASE QueueMessage
    BY <2>1, <2>5 DEF QueueMessage
  <2>6. CASE ClearQueue
    BY <2>6 DEF ClearQueue
  <2>7. QED
    BY <2>2, <2>3, <2>4, <2>5, <2>6
    DEF Next, RunStep, UserStep, vars, runVars, Prompt, AgentStart, Respond, Stop, StartTool, Write,
        EndTool, FailRun, OrphanWrites, TurnEnd, DecideLater, Complete, Continue, Finish, Settle,
        Abort, StartShell, EndShell, Reload
<1>5. QED
  BY <1>1, <1>2, <1>3, <1>4 DEF RunType

\* The bounds and the history.
LEMMA HistoryNext == TypeInv /\ [Next]_vars => HistoryType'
<1> SUFFICES ASSUME TypeInv, [Next]_vars PROVE HistoryType'
  OBVIOUS
<1> USE DEF TypeInv
<1>1. UNCHANGED bound
  BY DEF Next, RunStep, UserStep, vars, bounds, Prompt, AgentStart, Respond, Stop, StartTool, Write,
         EndTool, FailRun, OrphanWrites, TurnEnd, Decide, DecideLater, GoOn, Complete, Continue,
         Finish, Settle, QueueMessage, ClearQueue, Abort, StartShell, EndShell, Reload
<1>2. edits' \in Nat /\ base' \in 0 .. edits'
  BY DEF HistoryType, Next, RunStep, UserStep, vars, history, Prompt, AgentStart, Respond, Stop,
         StartTool, Write, EndTool, FailRun, OrphanWrites, TurnEnd, Decide, DecideLater, GoOn, Complete,
         Continue, Finish, Settle, QueueMessage, ClearQueue, Abort, StartShell, EndShell, Reload
<1>3. resets' \in Nat
  BY DEF HistoryType, Next, RunStep, UserStep, vars, history, Prompt, AgentStart, Respond, Stop,
         StartTool, Write, EndTool, FailRun, OrphanWrites, TurnEnd, Decide, DecideLater, GoOn, Complete,
         Continue, Finish, Settle, QueueMessage, ClearQueue, Abort, StartShell, EndShell, Reload
<1>4. nudges' \in Nat
  <2>1. \A d : Len(Feedback(d)) \in {0, 1}
    BY DEF Feedback
  <2>2. CASE Decide
    BY <2>1, <2>2 DEF Decide, HistoryType
  <2>3. CASE ~Decide
    BY <2>3
    DEF HistoryType, Next, RunStep, UserStep, vars, history, Prompt, AgentStart, Respond, Stop,
        StartTool, Write, EndTool, FailRun, OrphanWrites, TurnEnd, DecideLater, GoOn, Complete,
        Continue, Finish, Settle, QueueMessage, ClearQueue, Abort, StartShell, EndShell, Reload
  <2>4. QED
    BY <2>2, <2>3
<1>5. hidden' \in BOOLEAN /\ overlapped' \in BOOLEAN
  BY Zenon
  DEF HistoryType, Next, RunStep, UserStep, vars, history, Prompt, AgentStart, Respond, Stop,
      StartTool, Write, EndTool, FailRun, OrphanWrites, TurnEnd, Decide, DecideLater, GoOn, Complete,
      Continue, Finish, Settle, QueueMessage, ClearQueue, Abort, StartShell, EndShell, Reload
<1>6. QED
  BY <1>1, <1>2, <1>3, <1>4, <1>5 DEF HistoryType

\* No step breaks a type.
LEMMA TypeNext == TypeInv /\ [Next]_vars => TypeInv'
BY TrackerNext, SessionNext, RunNext, HistoryNext DEF TypeInv

-----------------------------------------------------------------------------
(* The count of changes *)

(* Calls of the running batch that have changed a file, which the tracker is told of
   at the end of the turn. *)
Uncounted == {i \in 1 .. Len(batch) : pc = "tools" /\ (tool[i] = "written" \/ Mutates(i))}

\* What the tracker knows of this prompt's changes, or will know.
Known == version + Cardinality(Uncounted)

\* A prompt has come whose first agent_start will reset the tracker.
Begins == pc = "start" /\ ~runStarted

\* The number of changes of the prompt is known.
CountInv ==
  /\ ~hidden /\ ~overlapped /\ pc # "idle" => edits = base + (IF Begins THEN 0 ELSE Known)
  /\ pc \notin {"idle", "start"} /\ ~overlapped => runStarted

\* Uncounted calls are finitely many, and there are none out of a batch.
LEMMA KnownType ==
  ASSUME TypeInv
  PROVE  /\ IsFiniteSet(Uncounted) /\ Cardinality(Uncounted) \in Nat /\ Known \in Nat
         /\ pc # "tools" => Uncounted = {} /\ Known = version
         /\ Len(batch) \in Nat /\ DOMAIN batch = 1 .. Len(batch)
<1>1. Len(batch) \in Nat /\ DOMAIN batch = 1 .. Len(batch)
  BY DEF TypeInv, RunType
<1>2. IsFiniteSet(1 .. Len(batch))
  BY <1>1, FS_Interval
<1>3. IsFiniteSet(Uncounted)
  <2>1. Uncounted \subseteq 1 .. Len(batch)
    BY DEF Uncounted
  <2>2. QED
    BY <1>2, <2>1, FS_Subset
<1>4. Cardinality(Uncounted) \in Nat
  BY <1>3, FS_CardinalityType
<1>5. pc # "tools" => Uncounted = {}
  BY DEF Uncounted
<1>6. version \in Nat /\ Cardinality({}) = 0
  BY FS_EmptySet DEF TypeInv, TrackerType
<1>7. Known \in Nat
  BY <1>4, <1>6 DEF Known
<1>8. pc # "tools" => Known = version
  <2>1. Uncounted = {} => Cardinality(Uncounted) = 0
    BY <1>6, Zenon
  <2>2. QED
    BY <1>5, <1>6, <2>1 DEF Known
<1>9. QED
  BY <1>1, <1>3, <1>4, <1>5, <1>7, <1>8

\* Only a prompt clears the flags, and only a prompt begins.
LEMMA FlagsStay ==
  ASSUME [Next]_vars, ~Prompt
  PROVE  /\ ~hidden' => ~hidden
         /\ ~overlapped' => ~overlapped
         /\ pc' # "idle" => pc # "idle"
         /\ base' = base
<1>1. ~hidden' => ~hidden
  BY Zenon
  DEF Next, RunStep, UserStep, vars, history, AgentStart, Respond, Stop, StartTool, Write, EndTool,
      FailRun, OrphanWrites, TurnEnd, Decide, DecideLater, GoOn, Complete, Continue, Finish, Settle,
      QueueMessage, ClearQueue, Abort, StartShell, EndShell, Reload
<1>2. ~overlapped' => ~overlapped
  BY Zenon
  DEF Next, RunStep, UserStep, vars, history, AgentStart, Respond, Stop, StartTool, Write, EndTool,
      FailRun, OrphanWrites, TurnEnd, Decide, DecideLater, GoOn, Complete, Continue, Finish, Settle,
      QueueMessage, ClearQueue, Abort, StartShell, EndShell, Reload
<1>3. /\ pc' # "idle" => pc # "idle"
      /\ base' = base
  BY DEF Next, RunStep, UserStep, vars, history, runVars, AgentStart, Respond, Stop, StartTool, Write,
         EndTool, FailRun, OrphanWrites, TurnEnd, Decide, DecideLater, GoOn, Complete, Continue, Finish,
         Settle, QueueMessage, ClearQueue, Abort, StartShell, EndShell, Reload
<1>4. QED
  BY <1>1, <1>2, <1>3

(* A step that hides nothing changes the files and what is known together, unless the
   tracker begins again. *)
LEMMA Counted ==
  ASSUME TypeInv, TypeInv', [Next]_vars, ~hidden'
  PROVE  \/ AgentStart /\ Resets /\ edits' = edits /\ Known' = 0
         \/ /\ ~(AgentStart /\ Resets)
            /\ \/ edits' = edits /\ Known' = Known
               \/ edits' = edits + 1 /\ Known' = Known + 1 /\ pc = "tools"
<1> DEFINE P == \/ AgentStart /\ Resets /\ edits' = edits /\ Known' = 0
                \/ /\ ~(AgentStart /\ Resets)
                   /\ \/ edits' = edits /\ Known' = Known
                      \/ edits' = edits + 1 /\ Known' = Known + 1 /\ pc = "tools"
<1>1. /\ Len(batch) \in Nat /\ DOMAIN batch = 1 .. Len(batch) /\ version \in Nat
      /\ (pc # "tools" => Uncounted = {} /\ Known = version) /\ IsFiniteSet(Uncounted)
      /\ Cardinality(Uncounted) \in Nat
  BY KnownType DEF TypeInv, TrackerType
<1>2. (pc' # "tools" => Uncounted' = {} /\ Known' = version')
  <2>1. Uncounted' = {} \/ pc' = "tools"
    BY DEF Uncounted
  <2>2. version' \in Nat /\ Cardinality({}) = 0
    BY FS_EmptySet DEF TypeInv, TrackerType
  <2>3. QED
    BY <2>1, <2>2 DEF Known
<1>3. CASE AgentStart
  <2>1. pc # "tools" /\ pc' # "tools" /\ edits' = edits
        /\ version' = IF Resets THEN 0 ELSE version
    BY <1>3 DEF AgentStart
  <2>2. QED
    BY <1>1, <1>2, <1>3, <2>1
<1>4. CASE /\ UNCHANGED <<edits, version, pc, batch, tool>> /\ ~AgentStart
  <2>1. Uncounted' = Uncounted
    BY <1>4 DEF Uncounted, Mutates
  <2>2. Known' = Known
    BY <1>4, <2>1 DEF Known
  <2>3. QED
    BY <1>4, <2>2
<1>5. CASE pc # "tools" /\ pc' # "tools" /\ UNCHANGED <<edits, version>> /\ ~AgentStart
  BY <1>1, <1>2, <1>5
<1>6. CASE \E b \in Batch : Respond(b)
  <2>1. PICK b \in Batch : Respond(b)
    BY <1>6
  <2>2. /\ DOMAIN b = 1 .. Len(b) /\ batch' = b /\ tool' = [i \in DOMAIN b |-> "waiting"]
        /\ pc = "model" /\ UNCHANGED <<version, edits>> /\ ~AgentStart
    BY <2>1, BatchType DEF Respond, AgentStart, trackerVars
  <2>3. \A i \in 1 .. Len(b) : tool'[i] = "waiting"
    BY <2>2
  <2>4. Uncounted' = {}
    BY <2>2, <2>3 DEF Uncounted, Mutates
  <2>5. Known' = version /\ Known = version
    BY <1>1, <2>2, <2>4, FS_EmptySet DEF Known
  <2>6. QED
    BY <2>2, <2>5
<1>7. CASE \E i \in DOMAIN batch : StartTool(i)
  <2>1. PICK i \in 1 .. Len(batch) : StartTool(i)
    BY <1>1, <1>7
  <2>2. /\ tool' = [tool EXCEPT ![i] = "started"] /\ tool[i] = "waiting" /\ ~AgentStart
        /\ UNCHANGED <<edits, version, pc, batch>>
    BY <2>1 DEF StartTool, AgentStart, trackerVars, history
  <2>3. \A j \in 1 .. Len(batch) : /\ tool'[j] = "written" <=> tool[j] = "written"
                                   /\ tool'[j] = "passed" <=> tool[j] = "passed"
    BY <2>2 DEF TypeInv, RunType
  <2>4. Uncounted' = Uncounted
    BY <2>2, <2>3 DEF Uncounted, Mutates
  <2>5. Known' = Known
    BY <2>2, <2>4 DEF Known
  <2>6. QED
    BY <2>2, <2>5
<1>8. CASE \E i \in DOMAIN batch : Write(i)
  <2>1. PICK i \in 1 .. Len(batch) : Write(i)
    BY <1>1, <1>8
  <2>2. /\ tool' = [tool EXCEPT ![i] = "written"] /\ tool[i] = "started" /\ ~AgentStart
        /\ pc = "tools" /\ edits' = edits + 1 /\ UNCHANGED <<version, pc, batch>>
    BY <2>1 DEF Write, AgentStart, trackerVars
  <2>3. \A j \in 1 .. Len(batch) : /\ tool'[j] = "written" <=> tool[j] = "written" \/ j = i
                                   /\ tool'[j] = "passed" <=> tool[j] = "passed"
    BY <2>2 DEF TypeInv, RunType
  <2>4. Uncounted' = Uncounted \cup {i} /\ i \notin Uncounted
    BY <2>2, <2>3 DEF Uncounted, Mutates
  <2>5. Cardinality(Uncounted \cup {i}) = Cardinality(Uncounted) + 1
    BY <1>1, <2>4, FS_AddElement
  <2>6. Cardinality(Uncounted') = Cardinality(Uncounted) + 1
    BY <2>4, <2>5
  <2>7. Known' = Known + 1
    BY <1>1, <2>2, <2>6 DEF Known
  <2>8. QED
    BY <2>2, <2>7
<1>9. CASE \E i \in DOMAIN batch, r \in Result : EndTool(i, r)
  <2>1. PICK i \in 1 .. Len(batch), r \in Result : EndTool(i, r)
    BY <1>1, <1>9
  <2>2. ~(tool[i] = "written" /\ r = "failed")
    BY <2>1, Zenon DEF EndTool
  <2>3. /\ tool' = [tool EXCEPT ![i] = r] /\ tool[i] \in {"waiting", "started", "written"}
        /\ tool[i] = "written" => r = "passed"
        /\ tool[i] = "waiting" => r = "failed"
        /\ tool[i] = "started" /\ batch[i] \in Mutation => r = "failed"
        /\ ~AgentStart /\ UNCHANGED <<edits, version, pc, batch>>
    BY <2>1, <2>2 DEF EndTool, AgentStart, Result, trackerVars
  <2>4. \A j \in 1 .. Len(batch) : j # i => tool'[j] = tool[j]
    BY <2>3 DEF TypeInv, RunType
  <2>5. tool'[i] = r
    BY <2>3 DEF TypeInv, RunType
  <2>6. tool[i] = "written" => batch[i] \in Mutation
    BY DEF TypeInv, RunType
  <2>7. i \in Uncounted' <=> i \in Uncounted
    BY <2>3, <2>5, <2>6 DEF Uncounted, Mutates, Result
  <2>8. Uncounted' = Uncounted
    BY <2>3, <2>4, <2>7 DEF Uncounted, Mutates
  <2>9. Known' = Known
    BY <2>3, <2>8 DEF Known
  <2>10. QED
    BY <2>3, <2>9
<1>10. CASE FailRun
  <2>1. ~\E i \in DOMAIN batch : tool[i] = "written" \/ Mutates(i)
    BY <1>10, Zenon DEF FailRun
  <2>2. Uncounted = {}
    BY <1>1, <2>1 DEF Uncounted
  <2>3. Known = version
    BY <1>1, <2>2, FS_EmptySet DEF Known
  <2>4. pc' # "tools" /\ UNCHANGED <<edits, version>> /\ ~AgentStart
    BY <1>10 DEF FailRun, AgentStart, trackerVars
  <2>5. QED
    BY <1>2, <2>3, <2>4
<1>11. CASE OrphanWrites
  <2>1. FALSE
    BY <1>11, Zenon DEF OrphanWrites
  <2>2. QED
    BY <2>1
<1>12. CASE TurnEnd
  <2>1. Uncounted = Mutations
    <3>1. pc = "tools" /\ \A i \in DOMAIN batch : tool[i] # "written"
      BY <1>12 DEF TurnEnd
    <3>2. QED
      BY <1>1, <3>1 DEF Uncounted, Mutations
  <2>2. pc' # "tools" /\ ~AgentStart /\ edits' = edits
    BY <1>12 DEF TurnEnd, AgentStart
  <2>3. Known = version + Cardinality(Mutations)
    BY <2>1 DEF Known
  <2>4. version' = version + Cardinality(Mutations)
    <3>1. CASE mode = "off"
      <4>1. Mutations = {}
        BY <1>12, <3>1, Zenon DEF TurnEnd
      <4>2. version' = version /\ Cardinality(Mutations) = 0
        BY <1>12, <3>1, <4>1, FS_EmptySet DEF TurnEnd
      <4>3. QED
        BY <1>1, <4>2
    <3>2. CASE mode # "off"
      BY <1>12, <3>2 DEF TurnEnd
    <3>3. QED
      BY <3>1, <3>2
  <2>5. QED
    BY <1>2, <2>2, <2>3, <2>4
<1>13. QED
  <2>1. P
    BY <1>3, <1>4, <1>5, <1>6, <1>7, <1>8, <1>9, <1>10, <1>11, <1>12
    DEF Next, RunStep, UserStep, vars, trackerVars, runVars, history, AgentStart, Prompt, Stop, Decide,
        DecideLater, GoOn, Complete, Continue, Finish, Settle, QueueMessage, ClearQueue, Abort,
        StartShell, EndShell, Reload
  <2>2. QED
    BY <2>1

\* A prompt begins once; a new run of it starts when runStarted is set.
LEMMA BeginsSteps ==
  ASSUME TypeInv, CountInv, [Next]_vars, ~Prompt
  PROVE  /\ AgentStart => ~Begins' /\ (Resets <=> Begins)
         /\ ~AgentStart /\ Begins => Begins'
         /\ ~overlapped' => (Begins' => Begins)
<1>1. AgentStart => ~Begins' /\ (Resets <=> Begins)
  <2>1. AgentStart => pc = "start" /\ pc' = "model"
    BY DEF AgentStart
  <2>2. QED
    BY <2>1, Zenon DEF Begins, Resets
<1>2. ~AgentStart /\ Begins => Begins'
  <2>1. SUFFICES ASSUME ~AgentStart, Begins PROVE pc' = "start" /\ ~runStarted'
    BY DEF Begins
  <2>2. pc = "start" /\ ~runStarted
    BY <2>1 DEF Begins
  <2>3. pc' = "start" /\ (UNCHANGED runStarted \/ runStarted' = FALSE)
    BY <2>1, <2>2
    DEF Next, RunStep, UserStep, vars, sessionVars, runVars, Prompt, Respond, Stop, StartTool, Write,
        EndTool, FailRun, OrphanWrites, TurnEnd, Decide, DecideLater, GoOn, Complete, Continue, Finish,
        Settle, QueueMessage, ClearQueue, Abort, StartShell, EndShell, Reload
  <2>4. QED
    BY <2>2, <2>3
<1>3. ~overlapped' => (Begins' => Begins)
  <2>1. SUFFICES ASSUME ~overlapped', pc' = "start", ~runStarted' PROVE pc = "start" /\ ~runStarted
    BY DEF Begins
  <2>2. ~overlapped
    BY <2>1, FlagsStay
  <2>3. ~Prompt /\ ~AgentStart
    BY <2>1 DEF AgentStart
  <2>4. CASE Settle
    <3>1. pc' = pc
      BY <2>4 DEF Settle, runVars
    <3>2. ~(runStarted /\ pc # "idle")
      BY <2>1, <2>4, Zenon DEF Settle
    <3>3. QED
      BY <2>1, <3>1, <3>2
  <2>5. CASE Continue
    <3>1. pc = "post" /\ UNCHANGED runStarted
      BY <2>5 DEF Continue, sessionVars
    <3>2. runStarted
      BY <2>2, <3>1, Zenon DEF CountInv
    <3>3. FALSE
      BY <2>1, <3>1, <3>2
    <3>4. QED
      BY <3>3
  <2>6. CASE ~Settle /\ ~Continue
    <3>1. pc = "start" /\ UNCHANGED runStarted
      BY <2>1, <2>3, <2>6
      DEF Next, RunStep, UserStep, vars, sessionVars, runVars, Respond, Stop, StartTool, Write,
          EndTool, FailRun, OrphanWrites, TurnEnd, Decide, DecideLater, GoOn, Complete, Finish,
          QueueMessage, ClearQueue, Abort, StartShell, EndShell, Reload
    <3>2. QED
      BY <2>1, <3>1
  <2>7. QED
    BY <2>4, <2>5, <2>6
<1>4. QED
  BY <1>1, <1>2, <1>3

\* At the start there is nothing to count.
LEMMA CountInit == Init => CountInv
BY DEF Init, CountInv

\* Changes are counted as they are made, and the count begins again with a prompt (recordTurn, resetRun).
LEMMA CountNext == TypeInv /\ TypeInv' /\ CountInv /\ [Next]_vars => CountInv'
<1> SUFFICES ASSUME TypeInv, TypeInv', CountInv, [Next]_vars PROVE CountInv'
  OBVIOUS
<1>1. ASSUME ~hidden', ~overlapped', pc' # "idle"
      PROVE  edits' = base' + (IF Begins' THEN 0 ELSE Known')
  <2>1. CASE Prompt
    <3>1. pc' = "start" /\ ~runStarted' /\ edits' = edits /\ base' = edits
      BY <2>1 DEF Prompt
    <3>2. Begins'
      BY <3>1 DEF Begins
    <3>3. QED
      BY <3>1, <3>2 DEF TypeInv, HistoryType
  <2>2. CASE ~Prompt
    <3>1. ~hidden /\ ~overlapped /\ pc # "idle" /\ base' = base
      BY <1>1, <2>2, FlagsStay
    <3>2. edits = base + (IF Begins THEN 0 ELSE Known)
      BY <3>1, Zenon DEF CountInv
    <3>3. /\ AgentStart => ~Begins' /\ (Resets <=> Begins)
          /\ ~AgentStart => (Begins <=> Begins')
      BY <1>1, <2>2, BeginsSteps
    <3>4. CASE AgentStart /\ Resets
      <4>1. Begins /\ ~Begins'
        BY <3>3, <3>4
      <4>2. edits' = edits /\ Known' = 0
        BY <1>1, <3>4, Counted
      <4>3. QED
        BY <3>1, <3>2, <4>1, <4>2
    <3>5. CASE ~(AgentStart /\ Resets)
      <4>1. Begins <=> Begins'
        BY <3>3, <3>5
      <4>2. \/ edits' = edits /\ Known' = Known
            \/ edits' = edits + 1 /\ Known' = Known + 1 /\ pc = "tools"
        BY <1>1, <3>5, Counted
      <4>3. pc = "tools" => ~Begins
        BY DEF Begins
      <4>4. edits \in Nat /\ base \in Nat /\ Known \in Nat
        BY KnownType DEF TypeInv, HistoryType
      <4>5. CASE Begins
        <5>1. edits' = edits
          BY <4>2, <4>3, <4>5
        <5>2. QED
          BY <3>1, <3>2, <4>1, <4>5, <5>1
      <4>6. CASE ~Begins
        <5>1. edits = base + Known
          BY <3>2, <4>6
        <5>2. edits' = base + Known'
          BY <4>2, <4>4, <5>1
        <5>3. QED
          BY <3>1, <4>1, <4>6, <5>2
      <4>7. QED
        BY <4>5, <4>6
    <3>6. QED
      BY <3>4, <3>5
  <2>3. QED
    BY <2>1, <2>2
<1>2. ASSUME pc' \notin {"idle", "start"}, ~overlapped'
      PROVE  runStarted'
  <2>1. ~Prompt
    BY <1>2 DEF Prompt
  <2>2. CASE AgentStart
    BY <2>2 DEF AgentStart
  <2>3. CASE ~AgentStart
    <3>1. pc \notin {"idle", "start"}
      BY <1>2, <2>1, <2>3
      DEF Next, RunStep, UserStep, vars, runVars, Respond, Stop, StartTool, Write, EndTool, FailRun,
          OrphanWrites, TurnEnd, Decide, DecideLater, GoOn, Complete, Continue, Finish, Settle,
          QueueMessage, ClearQueue, Abort, StartShell, EndShell, Reload
    <3>2. ~overlapped
      BY <1>2, <2>1, FlagsStay
    <3>3. runStarted
      BY <3>1, <3>2, Zenon DEF CountInv
    <3>4. ~Settle
      <4>1. SUFFICES ASSUME Settle PROVE FALSE
        OBVIOUS
      <4>2. ~(runStarted /\ pc # "idle")
        BY <1>2, <4>1, Zenon DEF Settle
      <4>3. QED
        BY <3>1, <3>3, <4>2
    <3>5. UNCHANGED runStarted
      BY <2>1, <2>3, <3>4
      DEF Next, RunStep, UserStep, vars, sessionVars, Respond, Stop, StartTool, Write, EndTool, FailRun,
          OrphanWrites, TurnEnd, Decide, DecideLater, GoOn, Complete, Continue, Finish,
          QueueMessage, ClearQueue, Abort, StartShell, EndShell, Reload
    <3>6. QED
      BY <3>3, <3>5
  <2>4. QED
    BY <2>2, <2>3
<1>3. QED
  BY <1>1, <1>2, Zenon DEF CountInv

-----------------------------------------------------------------------------
(* Reminders *)

\* Each reminder of the prompt is an attempt, and there are not too many.
NudgeInv ==
  /\ attempts <= MaxAttempts
  /\ ~overlapped => nudges <= (IF Begins THEN 0 ELSE attempts)

\* The feedback is one message, and is sent when the decision is to continue.
LEMMA FeedbackIs ==
  /\ Decision.action = "continue" => AttemptsLeft /\ Feedback(Decision) = <<"feedback">>
  /\ Decision.action # "continue" => Feedback(Decision) = <<>>
BY DEF Feedback, Decision, Decided

\* At the start nothing was reminded of.
LEMMA NudgeInit == Init => NudgeInv
<1> SUFFICES ASSUME Init PROVE NudgeInv
  OBVIOUS
<1>1. attempts = 0 /\ nudges = 0 /\ ~Begins /\ 0 <= MaxAttempts
  BY IntegrityAssumption DEF Init, Begins
<1>2. QED
  BY <1>1 DEF NudgeInv

\* A reminder is sent only when an attempt is left, and is counted as one (decideCompletion).
LEMMA NudgeNext == TypeInv /\ CountInv /\ NudgeInv /\ [Next]_vars => NudgeInv'
<1> SUFFICES ASSUME TypeInv, CountInv, NudgeInv, [Next]_vars PROVE NudgeInv'
  OBVIOUS
<1>0. attempts \in Nat /\ nudges \in Nat /\ MaxAttempts \in Nat /\ attempts <= MaxAttempts
  BY IntegrityAssumption DEF TypeInv, TrackerType, HistoryType, NudgeInv
<1>1. CASE Prompt
  <2>1. pc' = "start" /\ ~runStarted' /\ nudges' = 0 /\ attempts' = attempts
    BY <1>1 DEF Prompt, trackerVars
  <2>2. Begins'
    BY <2>1 DEF Begins
  <2>3. QED
    BY <1>0, <2>1, <2>2 DEF NudgeInv
<1>2. CASE ~Prompt
  <2>1. CASE AgentStart /\ Resets
    <3>1. attempts' = 0 /\ nudges' = nudges
      BY <2>1 DEF AgentStart
    <3>2. Begins /\ ~Begins' /\ (~overlapped' => ~overlapped)
      BY <1>2, <2>1, BeginsSteps, FlagsStay
    <3>3. QED
      BY <1>0, <3>1, <3>2 DEF NudgeInv
  <2>2. CASE Decide
    <3>1. /\ attempts' = (IF Decision.action = "continue" THEN attempts + 1 ELSE attempts)
          /\ nudges' = nudges + Len(Feedback(Decision))
          /\ pc = "decide" /\ pc' = "poll"
      BY <2>2 DEF Decide
    <3>2. ~Begins /\ ~Begins' /\ (~overlapped' => ~overlapped)
      BY <1>2, <3>1, FlagsStay DEF Begins
    <3>3. CASE Decision.action = "continue"
      <4>1. attempts < MaxAttempts /\ Len(Feedback(Decision)) = 1
        BY <3>3, FeedbackIs DEF AttemptsLeft
      <4>2. attempts' = attempts + 1 /\ nudges' = nudges + 1
        BY <3>1, <3>3, <4>1
      <4>3. QED
        BY <1>0, <3>2, <4>1, <4>2 DEF NudgeInv
    <3>4. CASE Decision.action # "continue"
      <4>1. attempts' = attempts /\ nudges' = nudges
        BY <1>0, <3>1, <3>4, FeedbackIs
      <4>2. QED
        BY <1>0, <3>2, <4>1 DEF NudgeInv
    <3>5. QED
      BY <3>3, <3>4
  <2>3. CASE ~Decide /\ ~(AgentStart /\ Resets)
    <3>1. UNCHANGED <<attempts, nudges>>
      BY <1>2, <2>3
      DEF Next, RunStep, UserStep, vars, trackerVars, history, AgentStart, Respond, Stop, StartTool,
          Write, EndTool, FailRun, OrphanWrites, TurnEnd, DecideLater, GoOn, Complete, Continue, Finish,
          Settle, QueueMessage, ClearQueue, Abort, StartShell, EndShell, Reload
    <3>2. ~overlapped' => ~overlapped /\ (Begins' => Begins)
      BY <1>2, BeginsSteps, FlagsStay
    <3>3. ASSUME ~overlapped' PROVE nudges <= (IF Begins' THEN 0 ELSE attempts)
      <4>1. nudges <= (IF Begins THEN 0 ELSE attempts) /\ (Begins' => Begins)
        BY <3>2, <3>3 DEF NudgeInv
      <4>2. QED
        BY <1>0, <4>1
    <3>4. QED
      BY <1>0, <3>1, <3>3 DEF NudgeInv
  <2>4. QED
    BY <2>1, <2>2, <2>3
<1>3. QED
  BY <1>1, <1>2

-----------------------------------------------------------------------------
(* Evidence *)

(* No later change than those that were known when evidence with number v was made by a
   command that started after change at: had there been one, it would be known too. *)
Sound(at, v) == at <= edits /\ edits + v <= at + Known

SoundEvidence(e) == e.resets = resets /\ e.status = "passed" => Sound(e.seen, e.version)

\* A validation call of the running batch that may still pass.
MayPass(i) == batch[i] \in Command /\ tool[i] \notin {"waiting", "failed"}

(* Evidence is sound from the moment at which its command starts, in the shell or in a
   batch. *)
FreshInv ==
  /\ shell.resets <= resets
  /\ ~hidden /\ ~Begins =>
       /\ \A k \in 1 .. Len(validations) : SoundEvidence(validations[k])
       /\ shell # NoShell /\ shell.resets = resets => Sound(shell.seen, shell.version)
       /\ pc = "tools" => \A i \in 1 .. Len(batch) : MayPass(i) => Sound(seen[i], version)

\* Files and what is known of them change together.
LEMMA SoundStays ==
  ASSUME TypeInv, TypeInv', [Next]_vars, ~hidden', ~(AgentStart /\ Resets),
         NEW at \in Nat, NEW v \in Nat, Sound(at, v)
  PROVE  at <= edits' /\ edits' + v <= at + Known'
<1>1. edits \in Nat /\ Known \in Nat
  BY KnownType DEF TypeInv, HistoryType
<1>2. \/ edits' = edits /\ Known' = Known
      \/ edits' = edits + 1 /\ Known' = Known + 1
  BY Counted
<1>3. QED
  BY <1>1, <1>2 DEF Sound

\* What is kept of sound evidence, with one more that is sound.
LEMMA SoundKept ==
  ASSUME NEW S, NEW vs \in Seq(S), NEW e \in S
  PROVE  Kept(Append(vs, e)) \in Seq(S)
<1>1. Append(vs, e) \in Seq(S)
  OBVIOUS
<1>2. QED
  BY <1>1, KeptType

\* At the start there is no evidence.
LEMMA FreshInit == Init => FreshInv
<1> SUFFICES ASSUME Init PROVE FreshInv
  OBVIOUS
<1>1. shell = NoShell /\ resets = 0 /\ validations = <<>> /\ pc = "idle"
  BY DEF Init
<1>2. shell.resets = 0 /\ Len(validations) = 0
  BY <1>1 DEF NoShell
<1>3. QED
  BY <1>1, <1>2 DEF FreshInv

(* Evidence is recorded as passed only with the number at which its command started (recordTurn,
   recordUserBashValidation), and later changes raise what is known. *)
LEMMA FreshNext == TypeInv /\ TypeInv' /\ CountInv /\ FreshInv /\ [Next]_vars => FreshInv'
<1> SUFFICES ASSUME TypeInv, TypeInv', CountInv, FreshInv, [Next]_vars PROVE FreshInv'
  OBVIOUS
<1>1. /\ resets \in Nat /\ edits \in Nat /\ version \in Nat /\ Known \in Nat
      /\ Len(batch) \in Nat /\ DOMAIN batch = 1 .. Len(batch)
      /\ validations \in Seq(EvidenceSet) /\ validations' \in Seq(EvidenceSet)
  BY KnownType DEF TypeInv, HistoryType, TrackerType
<1>2. shell.resets \in Nat /\ shell.seen \in Nat /\ shell.version \in Nat /\ shell.resets <= resets
  BY DEF TypeInv, SessionType, ShellSet, NoShell, FreshInv
<1>3. shell' = shell \/ shell' = NoShell \/ \E k \in Command : StartShell(k)
  BY DEF Next, RunStep, UserStep, vars, sessionVars, Prompt, AgentStart, Respond, Stop, StartTool,
         Write, EndTool, FailRun, OrphanWrites, TurnEnd, Decide, DecideLater, GoOn, Complete, Continue,
         Finish, Settle, QueueMessage, ClearQueue, Abort, StartShell, EndShell, Reload
<1>4. resets' = IF AgentStart /\ Resets THEN resets + 1 ELSE resets
  BY DEF Next, RunStep, UserStep, vars, history, Prompt, AgentStart, Respond, Stop, StartTool,
         Write, EndTool, FailRun, OrphanWrites, TurnEnd, Decide, DecideLater, GoOn, Complete, Continue,
         Finish, Settle, QueueMessage, ClearQueue, Abort, StartShell, EndShell, Reload
<1>5. shell'.resets <= resets'
  <2>1. resets <= resets'
    BY <1>1, <1>4
  <2>2. CASE shell' = shell
    BY <1>1, <1>2, <1>4, <2>1, <2>2
  <2>3. CASE shell' = NoShell
    BY <1>1, <1>4, <2>3 DEF NoShell
  <2>4. CASE \E k \in Command : StartShell(k)
    <3>1. shell'.resets = resets
      BY <2>4 DEF StartShell
    <3>2. QED
      BY <1>1, <2>1, <3>1
  <2>5. QED
    BY <1>3, <2>2, <2>3, <2>4
<1>6. ASSUME ~hidden', ~Begins'
      PROVE  /\ \A k \in 1 .. Len(validations') : SoundEvidence(validations[k])'
             /\ shell' # NoShell /\ shell'.resets = resets' => Sound(shell.seen, shell.version)'
             /\ pc' = "tools" => \A i \in 1 .. Len(batch') : MayPass(i)' => Sound(seen[i], version)'
  <2>1. CASE AgentStart /\ Resets
    <3>1. validations' = <<>> /\ shell' = shell /\ pc' = "model" /\ resets' = resets + 1
      BY <2>1 DEF AgentStart, sessionVars
    <3>2. shell'.resets # resets' /\ Len(validations') = 0
      BY <1>1, <1>2, <3>1
    <3>3. QED
      BY <3>1, <3>2
  <2>2. CASE ~(AgentStart /\ Resets)
    <3>1. ~Prompt
      BY <1>6 DEF Prompt, Begins
    <3>2. ~hidden
      BY <1>6, <3>1, FlagsStay
    <3>3. ~Begins
      BY <1>6, <2>2, <3>1, BeginsSteps
    <3>4. /\ \A k \in 1 .. Len(validations) : SoundEvidence(validations[k])
          /\ shell # NoShell /\ shell.resets = resets => Sound(shell.seen, shell.version)
          /\ pc = "tools" => \A i \in 1 .. Len(batch) : MayPass(i) => Sound(seen[i], version)
      BY <3>2, <3>3, Zenon DEF FreshInv
    <3>5. resets' = resets
      BY <1>4, <2>2
    <3>6. ASSUME NEW at \in Nat, NEW v \in Nat, Sound(at, v)
          PROVE  at <= edits' /\ edits' + v <= at + Known'
      BY <1>6, <2>2, <3>6, SoundStays
    <3>7. version <= Known
      BY <1>1, KnownType DEF Known
    <3>8. \A k \in 1 .. Len(validations') : SoundEvidence(validations[k])'
      <4> DEFINE Good == {e \in EvidenceSet : SoundEvidence(e)}
      <4>1. validations \in Seq(Good)
        <5>1. \A k \in 1 .. Len(validations) : validations[k] \in Good
          BY <1>1, <3>4
        <5>2. QED
          BY <1>1, <5>1
      <4>2. validations' \in Seq(Good)
        <5>1. CASE UNCHANGED validations
          BY <4>1, <5>1
        <5>2. CASE TurnEnd
          <6>1. CASE mode = "off"
            BY <4>1, <5>2, <6>1 DEF TurnEnd
          <6>2. CASE mode # "off"
            <7>1. ASSUME NEW n \in 1 .. Len(batch), batch[n] \in discovery
                  PROVE  Evidence(batch[n], TurnStatus(n), version + Cardinality(Mutations),
                                  seen[n], resets) \in Good
              <8> DEFINE e == Evidence(batch[n], TurnStatus(n), version + Cardinality(Mutations),
                                       seen[n], resets)
              <8>1. /\ e.seen = seen[n] /\ e.version = version + Cardinality(Mutations)
                    /\ e.status = TurnStatus(n)
                BY DEF Evidence
              <8>2. /\ e \in EvidenceSet
                <9>1. TurnStatus(n) \in Status
                  BY <1>1, <5>2 DEF TurnEnd, TurnStatus, Status
                <9>2. /\ batch[n] \in Command /\ seen[n] \in Nat /\ discovery \in Discovery
                      /\ version + Cardinality(Mutations) \in Nat
                  <10>1. Mutations \subseteq 1 .. Len(batch) /\ IsFiniteSet(1 .. Len(batch))
                    BY <1>1, FS_Interval DEF Mutations
                  <10>2. Cardinality(Mutations) \in Nat
                    BY <10>1, FS_Subset, FS_CardinalityType
                  <10>3. discovery \in Discovery /\ batch[n] \in Command
                    BY <7>1 DEF TypeInv, TrackerType, Discovery
                  <10>4. seen[n] \in Nat
                    BY <7>1 DEF TypeInv, RunType
                  <10>5. QED
                    BY <1>1, <10>2, <10>3, <10>4
                <9>3. QED
                  BY <1>1, <9>1, <9>2 DEF Evidence, EvidenceSet
              <8>3. ASSUME e.status = "passed" PROVE Sound(e.seen, e.version)
                <9>1. Mutations = {} /\ tool[n] = "passed"
                  BY <8>1, <8>3 DEF TurnStatus
                <9>2. e.version = version
                  <10>1. Cardinality(Mutations) = 0
                    BY <9>1, FS_EmptySet
                  <10>2. QED
                    BY <1>1, <8>1, <10>1
                <9>3. pc = "tools" /\ MayPass(n)
                  BY <5>2, <7>1, <9>1 DEF TurnEnd, MayPass, TypeInv, TrackerType, Discovery
                <9>4. Sound(seen[n], version)
                  BY <3>4, <9>3
                <9>5. QED
                  BY <8>1, <9>2, <9>4
              <8>4. QED
                <9> HIDE DEF e
                <9>1. SoundEvidence(e)
                  BY <8>3 DEF SoundEvidence
                <9>2. e \in Good
                  BY <8>2, <9>1
                <9>3. QED
                  BY <9>2 DEF e
            <7>2. RecordedTurn[Len(batch)] \in Seq(Good)
              <8>1. Len(validations) <= MaxValidations
                BY DEF TypeInv, TrackerType
              <8> HIDE DEF Good
              <8>2. QED
                BY <1>1, <4>1, <7>1, <8>1, TurnKept
            <7>3. validations' = RecordedTurn[Len(batch)]
              BY <5>2, <6>2 DEF TurnEnd
            <7>4. QED
              BY <7>2, <7>3
          <6>3. QED
            BY <6>1, <6>2
        <5>3. CASE \E r \in Result : EndShell(r)
          <6>1. PICK r \in Result : EndShell(r)
            BY <5>3
          <6> DEFINE status == IF Overlaps(shell, version) THEN "concurrent-with-mutation" ELSE r
                     e == Evidence(shell.command, status, version, shell.seen, shell.resets)
          <6>2. shell \in ShellSet /\ shell # NoShell
            BY <6>1 DEF EndShell, TypeInv, SessionType
          <6>3. e \in EvidenceSet
            BY <6>2
            DEF ShellSet, TypeInv, TrackerType, Evidence, EvidenceSet, Status, Result
          <6>4. /\ e.seen = shell.seen /\ e.version = version /\ e.resets = shell.resets
                /\ e.status = status
            BY DEF Evidence
          <6>5. ASSUME e.resets = resets, e.status = "passed" PROVE Sound(e.seen, e.version)
            <7>1. ~Overlaps(shell, version)
              BY <6>4, <6>5
            <7>2. shell.version = version
              BY <7>1 DEF Overlaps
            <7>3. Sound(shell.seen, shell.version)
              BY <3>4, <6>2, <6>4, <6>5
            <7>4. QED
              BY <6>4, <7>2, <7>3
          <6> HIDE DEF e
          <6>6. e \in Good
            BY <6>3, <6>5 DEF SoundEvidence
          <6>7. Kept(Append(validations, e)) \in Seq(Good)
            <7> HIDE DEF Good
            <7>1. QED
              BY <4>1, <6>6, SoundKept
          <6>8. validations' = Kept(Append(validations, e)) \/ validations' = validations
            BY <6>1 DEF EndShell, e
          <6>9. QED
            BY <4>1, <6>7, <6>8
        <5>4. QED
          BY <2>2, <5>1, <5>2, <5>3
          DEF Next, RunStep, UserStep, vars, trackerVars, Prompt, AgentStart, Respond, Stop, StartTool,
              Write, EndTool, FailRun, OrphanWrites, Decide, DecideLater, GoOn, Complete, Continue,
              Finish, Settle, QueueMessage, ClearQueue, Abort, StartShell, Reload
      <4>3. ASSUME NEW k \in 1 .. Len(validations') PROVE SoundEvidence(validations[k])'
        <5>1. PICK e : e = validations'[k]
          OBVIOUS
        <5>2. e \in EvidenceSet /\ SoundEvidence(e)
          <6>1. validations'[k] \in Good
            BY <4>2
          <6>2. QED
            BY <5>1, <6>1
        <5>3. e.seen \in Nat /\ e.version \in Nat
          BY <5>2 DEF EvidenceSet
        <5>4. ASSUME e.resets = resets, e.status = "passed"
              PROVE  e.seen <= edits' /\ edits' + e.version <= e.seen + Known'
          <6>1. Sound(e.seen, e.version)
            BY <5>2, <5>4 DEF SoundEvidence
          <6>2. QED
            BY <3>6, <5>3, <6>1
        <5>5. QED
          BY <3>5, <5>1, <5>4 DEF SoundEvidence, Sound
      <4>4. QED
        BY <4>3
    <3>9. ASSUME shell' # NoShell, shell'.resets = resets' PROVE Sound(shell.seen, shell.version)'
      <4>1. CASE shell' = shell
        <5>1. Sound(shell.seen, shell.version)
          BY <3>4, <3>5, <3>9, <4>1
        <5>2. shell.seen <= edits' /\ edits' + shell.version <= shell.seen + Known'
          BY <1>2, <3>6, <5>1
        <5>3. QED
          BY <4>1, <5>2 DEF Sound
      <4>2. CASE \E k \in Command : StartShell(k)
        <5>1. shell'.seen = edits /\ shell'.version \in {0, version}
          BY <4>2 DEF StartShell
        <5>2. PICK v \in {0, version} : v = shell'.version
          BY <5>1
        <5>3. Sound(edits, v) /\ v \in Nat
          BY <1>1, <3>7, <5>2 DEF Sound
        <5>4. edits <= edits' /\ edits' + v <= edits + Known'
          BY <1>1, <3>6, <5>3
        <5>5. QED
          BY <5>1, <5>2, <5>4 DEF Sound
      <4>3. QED
        BY <1>3, <3>9, <4>1, <4>2
    <3>10. ASSUME pc' = "tools", NEW i \in 1 .. Len(batch'), MayPass(i)'
           PROVE  Sound(seen[i], version)'
      <4>1. seen'[i] \in Nat /\ version' \in Nat
        BY DEF TypeInv, RunType, TrackerType
      <4>2. ~\E b \in Batch : Respond(b)
        <5>1. SUFFICES ASSUME NEW b \in Batch, Respond(b) PROVE FALSE
          OBVIOUS
        <5>2. batch' = b /\ tool' = [j \in 1 .. Len(b) |-> "waiting"]
          BY <5>1, BatchType DEF Respond
        <5>3. tool'[i] = "waiting"
          BY <3>10, <5>2
        <5>4. QED
          BY <3>10, <5>3 DEF MayPass
      <4>3. pc = "tools" /\ UNCHANGED <<batch, version>>
        BY <3>10, <4>2
        DEF Next, RunStep, UserStep, vars, trackerVars, runVars, Prompt, AgentStart, Stop, StartTool,
            Write, EndTool, FailRun, OrphanWrites, TurnEnd, Decide, DecideLater, GoOn, Complete, Continue,
            Finish, Settle, QueueMessage, ClearQueue, Abort, StartShell, EndShell, Reload
      <4>4. i \in 1 .. Len(batch)
        BY <4>3
      <4>5. CASE StartTool(i)
        <5>1. seen'[i] = edits
          <6>1. seen' = [seen EXCEPT ![i] = edits]
            BY <3>10, <4>3, <4>5 DEF StartTool, MayPass
          <6>2. QED
            BY <4>4, <6>1 DEF TypeInv, RunType
        <5>2. Sound(edits, version)
          BY <1>1, <3>7 DEF Sound
        <5>3. edits <= edits' /\ edits' + version <= edits + Known'
          BY <1>1, <3>6, <5>2
        <5>4. QED
          BY <4>3, <5>1, <5>3 DEF Sound
      <4>6. CASE ~StartTool(i)
        <5>1. seen'[i] = seen[i] /\ (tool[i] \in {"waiting", "failed"} => tool'[i] \in {"waiting", "failed"})
          <6>1. CASE UNCHANGED <<seen, tool>>
            BY <6>1
          <6>2. CASE \E j \in DOMAIN batch : StartTool(j)
            <7>1. PICK j \in 1 .. Len(batch) : StartTool(j)
              BY <1>1, <6>2
            <7>2. j # i
              BY <4>6, <7>1
            <7>3. /\ tool' = [tool EXCEPT ![j] = "started"]
                  /\ \E n \in {0, edits} : seen' = [seen EXCEPT ![j] = n]
              BY <7>1 DEF StartTool
            <7>4. QED
              BY <4>4, <7>2, <7>3 DEF TypeInv, RunType
          <6>3. CASE \E j \in DOMAIN batch : Write(j)
            <7>1. PICK j \in 1 .. Len(batch) : Write(j)
              BY <1>1, <6>3
            <7>2. tool[j] = "started" /\ tool' = [tool EXCEPT ![j] = "written"] /\ UNCHANGED seen
              BY <7>1 DEF Write
            <7>3. QED
              BY <4>4, <7>2 DEF TypeInv, RunType
          <6>4. CASE \E j \in DOMAIN batch, r \in Result : EndTool(j, r)
            <7>1. PICK j \in 1 .. Len(batch), r \in Result : EndTool(j, r)
              BY <1>1, <6>4
            <7>2. /\ tool' = [tool EXCEPT ![j] = r] /\ UNCHANGED seen
                  /\ tool[j] \in {"waiting", "started", "written"}
                  /\ tool[j] = "waiting" => r = "failed"
              BY <7>1 DEF EndTool
            <7>3. QED
              BY <4>4, <7>2 DEF TypeInv, RunType
          <6>5. QED
            BY <3>10, <4>2, <4>3, <6>1, <6>2, <6>3, <6>4
            DEF Next, RunStep, UserStep, vars, runVars, Prompt, AgentStart, Stop, FailRun, OrphanWrites,
                TurnEnd, Decide, DecideLater, GoOn, Complete, Continue, Finish, Settle, QueueMessage,
                ClearQueue, Abort, StartShell, EndShell, Reload
        <5>2. MayPass(i)
          BY <3>10, <4>3, <5>1 DEF MayPass
        <5>3. Sound(seen[i], version)
          BY <3>4, <4>3, <4>4, <5>2
        <5>4. seen[i] <= edits' /\ edits' + version <= seen[i] + Known'
          <6>1. seen[i] \in Nat
            BY <4>1, <5>1
          <6>2. QED
            BY <1>1, <3>6, <5>3, <6>1
        <5>5. QED
          BY <4>3, <5>1, <5>4 DEF Sound
      <4>7. QED
        BY <4>5, <4>6
    <3>11. QED
      BY <3>8, <3>9, <3>10
  <2>3. QED
    BY <2>1, <2>2
<1>7. QED
  BY <1>5, <1>6 DEF FreshInv

-----------------------------------------------------------------------------
(* Decisions *)

\* What is about to complete was allowed to, unless the user has changed the grounds.
DecisionInv ==
  pc = "poll" /\ batch = <<>> /\ queue = <<>> /\ mode = "enforce" /\ version > 0 /\ discovery # {}
    => disturbed \/ lastDecision.action = "allow"

\* A decision to stop with feedback puts the feedback in the queue.
LEMMA DecideAllows ==
  ASSUME TypeInv, Decide, mode = "enforce", version > 0, discovery # {}, queue' = <<>>
  PROVE  lastDecision'.action = "allow"
<1>1. queue' = Feedback(Decision) /\ lastDecision' = Decision
  BY DEF Decide
<1>2. Decision.action # "continue"
  <2>1. Decision.action = "continue" => queue' = <<"feedback">>
    BY <1>1, FeedbackIs
  <2>2. <<"feedback">> # <<>>
    OBVIOUS
  <2>3. QED
    BY <2>1, <2>2
<1>3. Decision = Decided("allow", Reason) \/ Decision = Decided("continue", Reason)
      \/ Decision = Decided("allow", "continuation-limit-reached")
  <2>1. version # 0
    OBVIOUS
  <2>2. QED
    BY <2>1 DEF Decision
<1>4. QED
  BY <1>1, <1>2, <1>3 DEF Decided

\* Whoever comes to the end of a turn without messages has decided (the turn_end listener).
LEMMA DecisionNext == TypeInv /\ DecisionInv /\ [Next]_vars => DecisionInv'
<1> SUFFICES ASSUME TypeInv, DecisionInv, [Next]_vars,
                    pc' = "poll", batch' = <<>>, queue' = <<>>, mode' = "enforce", version' > 0,
                    discovery' # {}
             PROVE  disturbed' \/ lastDecision'.action = "allow"
  BY Zenon DEF DecisionInv
<1>1. CASE Decide
  <2>1. UNCHANGED <<mode, version, discovery>>
    BY <1>1 DEF Decide
  <2>2. QED
    BY <1>1, <2>1, DecideAllows
<1>2. CASE ClearQueue \/ \E m \in Mode, found \in Discovery : Reload(m, found)
  BY <1>2, Zenon DEF ClearQueue, Reload
<1>3. CASE QueueMessage
  <2>1. queue' = Append(queue, "user") /\ queue \in Seq({"user", "feedback"})
    BY <1>3 DEF QueueMessage, TypeInv, RunType
  <2>2. queue' # <<>>
    BY <2>1
  <2>3. QED
    BY <2>2
<1>4. CASE ~Decide /\ ~ClearQueue /\ ~QueueMessage /\ ~\E m \in Mode, found \in Discovery : Reload(m, found)
  <2>1. /\ pc = "poll" /\ batch = <<>> /\ queue = <<>>
        /\ UNCHANGED <<mode, version, discovery, disturbed, lastDecision>>
    BY <1>4
    DEF Next, RunStep, UserStep, vars, trackerVars, runVars, history, Prompt, AgentStart, Respond, Stop,
        StartTool, Write, EndTool, FailRun, OrphanWrites, TurnEnd, DecideLater, GoOn, Complete, Continue,
        Finish, Settle, Abort, StartShell, EndShell
  <2>2. disturbed \/ lastDecision.action = "allow"
    BY <2>1 DEF DecisionInv
  <2>3. QED
    BY <2>1, <2>2
<1>5. QED
  BY <1>1, <1>2, <1>3, <1>4

-----------------------------------------------------------------------------
(* The theorems *)

IntegrityInv == TypeInv /\ CountInv /\ NudgeInv /\ FreshInv /\ DecisionInv

\* What the invariant says of evidence where a decision is made.
LEMMA EvidenceFollows == IntegrityInv => EvidenceIsSound
<1> SUFFICES ASSUME IntegrityInv PROVE EvidenceIsSound
  OBVIOUS
<1> USE DEF IntegrityInv
<1>1. TypeOK
  <2>1. \A i \in DOMAIN validations : validations[i].status \in Status
    <3>1. \A i \in DOMAIN validations : validations[i] \in EvidenceSet
      BY DEF TypeInv, TrackerType
    <3>2. QED
      BY <3>1 DEF EvidenceSet
  <2>2. \A i \in DOMAIN batch : tool[i] \in ToolState
    BY DEF TypeInv, RunType
  <2>3. QED
    BY <2>1, <2>2 DEF TypeOK, TypeInv, TrackerType, SessionType, RunType, HistoryType
<1>2. FreshIsFresh
  <2>1. SUFFICES ASSUME pc = "decide", ~hidden, NEW e \in Fresh("passed"), e.resets = resets
                 PROVE  e.seen = edits
    BY DEF FreshIsFresh
  <2>2. ~Begins
    BY <2>1 DEF Begins
  <2>3. PICK k \in DOMAIN validations : e = validations[k]
    BY DEF Fresh, Latest
  <2>4. DOMAIN validations = 1 .. Len(validations)
    BY DEF TypeInv, TrackerType
  <2>5. SoundEvidence(validations[k])
    BY <2>1, <2>2, <2>3, <2>4, Zenon DEF FreshInv
  <2>6. e.status = "passed" /\ e.version = version
    BY DEF Fresh, Current
  <2>7. Sound(e.seen, version)
    BY <2>1, <2>3, <2>5, <2>6 DEF SoundEvidence
  <2>8. Known = version
    BY <2>1, KnownType
  <2>9. e.seen \in Nat /\ edits \in Nat /\ version \in Nat
    <3>1. e \in EvidenceSet
      BY <2>3 DEF TypeInv, TrackerType
    <3>2. QED
      BY <3>1 DEF EvidenceSet, TypeInv, TrackerType, HistoryType
  <2>10. QED
    BY <2>7, <2>8, <2>9 DEF Sound
<1>3. EveryEditCounts
  <2>1. SUFFICES ASSUME pc = "decide", ~hidden, ~overlapped PROVE version = edits - base
    BY DEF EveryEditCounts
  <2>2. ~Begins /\ Known = version
    BY <2>1, KnownType DEF Begins
  <2>3. edits = base + (IF Begins THEN 0 ELSE Known)
    BY <2>1, Zenon DEF CountInv
  <2>4. QED
    BY <2>2, <2>3 DEF TypeInv, TrackerType, HistoryType
<1>4. RemindersBounded
  <2>1. SUFFICES ASSUME ~overlapped PROVE nudges <= MaxAttempts
    BY DEF RemindersBounded
  <2>2. nudges <= (IF Begins THEN 0 ELSE attempts) /\ attempts <= MaxAttempts
    BY <2>1 DEF NudgeInv
  <2>3. QED
    BY <2>2, IntegrityAssumption DEF TypeInv, TrackerType, HistoryType
<1>5. QED
  BY <1>1, <1>2, <1>3, <1>4 DEF EvidenceIsSound

(* The inductive invariant: what the tracker knows of the prompt's changes is all of them,
   reminders are attempts, evidence is sound since its command started, and what
   is about to complete was allowed to. *)
THEOREM IntegrityInvariant == Spec => []IntegrityInv
<1>1. Init => IntegrityInv
  <2>1. Init => DecisionInv
    BY DEF Init, DecisionInv
  <2>2. QED
    BY <2>1, TypeInit, CountInit, NudgeInit, FreshInit DEF IntegrityInv
<1>2. IntegrityInv /\ [Next]_vars => IntegrityInv'
  BY TypeNext, CountNext, NudgeNext, FreshNext, DecisionNext DEF IntegrityInv
<1>3. QED
  BY <1>1, <1>2, PTL DEF Spec

(* Evidence that counts was made after the last change of the files, no change of the prompt
   is missing from the count that is decided on, and the model is reminded at most
   maxContinuationAttempts times. *)
THEOREM EvidenceSound == Spec => []EvidenceIsSound
BY IntegrityInvariant, EvidenceFollows, PTL

(* In mode "enforce" the agent completes with unvalidated changes only when that was
   decided: decideCompletion allowed it in the agent's last turn. *)
THEOREM CompletionDecided == Spec => CompletionIsDecided
<1>1. IntegrityInv /\ [Next]_vars =>
        [Complete /\ mode = "enforce" /\ version > 0 /\ discovery # {} =>
           disturbed \/ lastDecision.action = "allow"]_vars
  <2>1. IntegrityInv /\ Complete /\ mode = "enforce" /\ version > 0 /\ discovery # {} =>
          disturbed \/ lastDecision.action = "allow"
    BY DEF IntegrityInv, DecisionInv, Complete
  <2>2. QED
    BY <2>1
<1>2. QED
  BY <1>1, IntegrityInvariant, PTL DEF Spec, CompletionIsDecided
=============================================================================
