--------------------------- MODULE SupervisorProofs ---------------------------
(***************************************************************************)
(* Theorems of Supervisor for any number of instances, stops, failures and *)
(* crashes: children, records and registrations agree.  All that is said   *)
(* of an instance is said by Good(i), which a step of another instance     *)
(* cannot disturb (GoodFar).                                               *)
(***************************************************************************)
EXTENDS Supervisor, TLAPS

Caller == Stop \cup Inst

\* A cleanup of i is under way, a stop of i is, and a crash has ended one.
Ends(c, i) == cleanup[c].of = i /\ CleaningUp(c)
StopRuns(i) == \E c \in Stop : Ends(c, i)
StopLost(i) == \E c \in Stop : cleanup[c].of = i /\ cleanup[c].at = "lost"

Begun(i) == spawn[i] \notin {"none", "lost"}
Alive(i) == child[i] \in {"running", "terminating"}

-----------------------------------------------------------------------------
(* Types, and what the parts of cleanup and recovery have to do with each other. *)

Counter == [exits : Nat, failures : Nat, forgotten : Nat, pis : Nat, crashes : Nat]
History == [stranded : SUBSET Inst, early : SUBSET Inst, stopped : SUBSET Inst]
Recovery == [records : [Inst -> Record \cup {None}], left : SUBSET Inst]

TypeInv ==
  /\ TypeOK
  /\ count \in Counter /\ history \in History /\ crossed \subseteq Inst
  /\ server = "recovering" => recovery \in Recovery

\* A cleanup that is ready is nobody's yet; failSpawn's cleanup is its own instance's.
CallersInv ==
  /\ \A c \in Caller : cleanup[c].at = "ready" => cleanup[c].of = None
  /\ \A c \in Caller : CleaningUp(c) => cleanup[c].of \in Inst
  /\ \A i \in Inst : cleanup[i].of \in {None, i}

\* While an instance is not recorded as overtaken, it registers only while it is live and
\* nobody ends it, and once at a time.
RegularInv(i) ==
  i \notin overtaken =>
    /\ spawn[i] = "register" \/ renewal[i] # None =>
         i \in live /\ exit[i] = None /\ \A c \in Caller : ~Ends(c, i)
    /\ spawn[i] \in {"state", "register"} => renewal[i] = None

\* And unless it is recorded as crossed, one coroutine at a time ends it.
UncrossedInv(i) ==
  i \notin crossed =>
    /\ exit[i] # None => \A c \in Caller : ~Ends(c, i)
    /\ \A c, d \in Caller : Ends(c, i) /\ Ends(d, i) => c = d

HistoryInv == \A i \in Inst : RegularInv(i) /\ UncrossedInv(i)

-----------------------------------------------------------------------------
(* What is said of an instance. *)

\* Before the spawn there is nothing of it.
FreshInv(i) ==
  spawn[i] = "none" =>
    /\ i \notin live /\ file[i] = None /\ child[i] = "none" /\ rpc[i] = "none"
    /\ exit[i] = None /\ renewal[i] = None /\ beat[i] = 0 /\ resources[i].pi = 0
    /\ i \notin history.stopped
    /\ \A n \in Nat : <<i, n>> \notin registered
    /\ \A c \in Caller : cleanup[c].of # i

\* A crash leaves its record and its registration.
LostInv(i) ==
  spawn[i] = "lost" =>
    /\ i \notin live /\ ~Alive(i) /\ rpc[i] = "none" /\ exit[i] = None
    /\ renewal[i] = None /\ beat[i] = 0
    /\ \A c \in Caller : ~Ends(c, i)

\* How far the coroutines of an instance can be.
ProgressInv(i) ==
  /\ spawn[i] = "state" => child[i] = "running"
  /\ spawn[i] = "failing" <=> CleaningUp(i)
  /\ spawn[i] = "failed" => i \notin live
  /\ ~Alive(i) => rpc[i] = "none"
  /\ exit[i] # None => ~Alive(i)
  /\ \A c \in Caller : Ends(c, i) /\ cleanup[c].at = "dispose" /\ cleanup[c].rpc => spawn[i] # "state"

\* While the server recovers, whatever began began after the crash.
ServerInv(i) ==
  /\ Begun(i) /\ server # "up" => server = "recovering" /\ i \in history.early
  /\ server = "recovering" /\ spawn[i] # "lost" => recovery.records[i] = None

\* A child that runs has an owner, and resources without their process a reason.
OwnedInv(i) ==
  /\ Alive(i) =>
       \/ i \in live /\ resources[i].rpc
       \/ \E c \in Caller : Ends(c, i) /\ cleanup[c].rpc
       \/ i \in history.stranded
  /\ i \in live /\ ~resources[i].rpc =>
       \/ ~Alive(i)
       \/ \E c \in Caller : Ends(c, i) /\ cleanup[c].rpc
  /\ \A c \in Caller : Ends(c, i) /\ ~cleanup[c].rpc => ~resources[i].rpc
  /\ \A c \in Stop : Ends(c, i) /\ ~cleanup[c].rpc => ~Alive(i) \/ i \in crossed

\* The file has the record of a live instance, unless a recovery has dropped it.
MirrorInv(i) ==
  i \in live =>
    /\ file[i] = None => i \in history.early
    /\ file[i] # None =>
         /\ file[i].status = record[i].status
         /\ file[i].pi = record[i].pi \/ \E c \in Caller : Ends(c, i)

\* What is over is recorded to be over, or is about to be.
Over(s) == s \in {"stopped", "error"}

StatusInv(i) ==
  i \notin overtaken =>
    /\ (i \notin live /\ Begun(i)) \/ exit[i] # None =>
         Over(record[i].status) \/ \E c \in Caller : Ends(c, i)
    /\ i \notin live /\ Begun(i) /\ file[i] # None =>
         Over(file[i].status) \/ \E c \in Caller : Ends(c, i)
    /\ record[i].status = "stopping" => StopRuns(i)
    /\ renewal[i] # None => renewal[i].status # "stopping"
    /\ file[i] # None /\ file[i].status = "stopping" => StopRuns(i) \/ StopLost(i)

\* The recovery leaves no record of an instance that runs.
RecoveredInv(i) ==
  spawn[i] = "lost" =>
    /\ server = "up" /\ file[i] # None => file[i].status \notin {"online", "starting"}
    /\ server = "recovering" /\ recovery.records[i] # None =>
         /\ recovery.records[i].status \notin {"online", "starting"}
         /\ recovery.records[i].status = "stopping" /\ i \notin overtaken => StopLost(i)

Excepted == history.stranded \cup history.early \cup overtaken

\* A Pi that the service knows is the instance's, and whoever ends the instance knows it.
RadiusInv(i) ==
  i \notin Excepted => \A n \in Nat : <<i, n>> \in registered =>
    /\ n # 0 /\ file[i] # None /\ file[i].pi = n
    /\ Begun(i) =>
         /\ spawn[i] = "online" /\ i \in live /\ renewal[i] = None /\ exit[i] \in {None, n}
         /\ record[i].pi = n /\ resources[i].pi = n
         /\ \A c \in Caller : Ends(c, i) => cleanup[c].at = "disconnect" /\ cleanup[c].pi = n
    /\ ~Begun(i) =>
         /\ server # "up"
         /\ server = "recovering" => /\ i \in recovery.left
                                     /\ recovery.records[i] # None /\ recovery.records[i].pi = n

\* Only a live instance that nobody ends sends heartbeats, for its own Pi.
BeatInv(i) ==
  i \notin overtaken /\ beat[i] # 0 =>
    /\ Begun(i) /\ i \in live /\ exit[i] = None /\ beat[i] = resources[i].pi
    /\ \A c \in Caller : ~Ends(c, i)

\* Who is being spawned has no Pi and asks for no new one, and whoever ends it knows of none.
NoPiInv(i) ==
  i \notin overtaken /\ spawn[i] \in {"state", "rejected", "register"} =>
    /\ resources[i].pi = 0 /\ renewal[i] = None
    /\ \A c \in Caller : Ends(c, i) => cleanup[c].pi = 0

\* A spawn is rejected while a cleanup waits for the child, or before there is one.
RejectedInv(i) ==
  i \notin overtaken /\ spawn[i] = "rejected" =>
    \A c \in Caller : Ends(c, i) => child[i] = "terminating"

\* An instance that was stopped has nothing left that could write its record.
StoppedInv(i) ==
  i \in history.stopped /\ i \notin overtaken \cup crossed =>
    /\ i \notin live /\ file[i] = None
    /\ spawn[i] \in {"online", "failed", "lost"} /\ exit[i] = None /\ ~Alive(i)
    /\ renewal[i] = None
    /\ server = "recovering" => recovery.records[i] = None
    /\ \A c \in Caller : ~Ends(c, i)

Good(i) ==
  /\ FreshInv(i) /\ LostInv(i) /\ ProgressInv(i) /\ ServerInv(i) /\ OwnedInv(i)
  /\ MirrorInv(i) /\ StatusInv(i) /\ RecoveredInv(i) /\ RadiusInv(i) /\ BeatInv(i)
  /\ NoPiInv(i) /\ RejectedInv(i) /\ StoppedInv(i)

SupervisorInv ==
  /\ TypeInv /\ CallersInv /\ HistoryInv
  /\ \A i \in Inst : Good(i)

-----------------------------------------------------------------------------
(* Types. *)

USE DEF Caller, NoCleanup, NoRecovery, Record, Status, Counter, History, Recovery

\* The Pi of the resources is replaced.
LEMMA WithPi ==
  ASSUME NEW r \in Resources, NEW n \in Nat PROVE [r EXCEPT !.pi = n] \in Resources
BY DEF Resources

\* So is the process of the resources.
LEMMA WithRpc ==
  ASSUME NEW r \in Resources, NEW b \in BOOLEAN PROVE [r EXCEPT !.rpc = b] \in Resources
BY DEF Resources

\* And how far a cleanup is.
LEMMA WithAt ==
  ASSUME NEW r \in Cleanup, NEW at \in {"disconnect", "dispose", "done", "failed", "lost"}
  PROVE  [r EXCEPT !.at = at] \in Cleanup
BY DEF Cleanup

\* The server starts with nothing.
LEMMA TypeInit == Init => TypeInv
BY RecordAssumption, SupervisorAssumption DEF Init, TypeInv, TypeOK, Resources, Progress, Cleanup

\* An upsert writes a record.
LEMMA UpsertType ==
  ASSUME TypeInv, NEW i \in Inst, NEW r \in Record, Upsert(i, r)
  PROVE  record' \in [Inst -> Record] /\ file' \in [Inst -> Record \cup {None}]
BY DEF Upsert, TypeInv, TypeOK

\* A cleanup that begins knows its instance.
LEMMA BeginsType ==
  ASSUME TypeInv, NEW i \in Inst, NEW c \in Caller, CleanupBegins(c, i)
  PROVE  /\ bound' \subseteq Inst /\ beat' \in [Inst -> Nat]
         /\ cleanup' \in [Caller -> Cleanup]
BY DEF CleanupBegins, TypeInv, TypeOK, Resources, Cleanup

\* A counter counts.
LEMMA CountsType ==
  ASSUME TypeInv, NEW what \in {"exits", "failures", "forgotten", "pis", "crashes"}, NEW max,
         Counts(what, max)
  PROVE  count' \in Counter
BY DEF Counts, TypeInv

\* A registration gives a number.
LEMMA RegistersType ==
  ASSUME TypeInv, NEW i \in Inst, NEW n, Registers(i, n)
  PROVE  /\ n \in Nat \ {0} /\ count' \in Counter /\ beat' \in [Inst -> Nat]
         /\ registered' \subseteq Inst \X Nat
BY DEF Registers, TypeInv, TypeOK

\* What an instance is dropped with.
LEMMA DropType ==
  ASSUME TypeInv, CallersInv, NEW c \in Caller, CleaningUp(c), NEW at \in {"done", "failed"},
         DropInstance(c, at)
  PROVE  /\ live' \subseteq Inst /\ record' \in [Inst -> Record]
         /\ file' \in [Inst -> Record \cup {None}]
         /\ cleanup' \in [Caller -> Cleanup]
         /\ spawn' \in [Inst -> Progress]
<1> DEFINE i == cleanup[c].of
           r == [WithStatus(i, "stopped") EXCEPT !.pi = IF at = "done" THEN 0 ELSE @]
<1>1. i \in Inst
  BY DEF CallersInv
<1>2. r \in Record
  <2>1. record[i] \in Record
    BY <1>1 DEF TypeInv, TypeOK
  <2>2. r = [record[i] EXCEPT !.status = "stopped", !.pi = IF at = "done" THEN 0 ELSE @]
    BY <2>1 DEF WithStatus
  <2>3. QED
    BY <2>1, <2>2
<1>3. /\ live' = live \ {i} /\ record' = [record EXCEPT ![i] = r]
      /\ file' = [file EXCEPT ![i] = IF c \in Stop THEN None ELSE r]
      /\ cleanup' = [cleanup EXCEPT ![c].at = at]
      /\ spawn' = IF c \in Stop THEN spawn ELSE [spawn EXCEPT ![c] = "failed"]
  BY DEF DropInstance
<1> HIDE DEF i, r
<1>4. live' \subseteq Inst /\ record' \in [Inst -> Record]
      /\ file' \in [Inst -> Record \cup {None}]
  BY <1>1, <1>2, <1>3 DEF TypeInv, TypeOK
<1>5. cleanup' \in [Caller -> Cleanup]
  BY <1>3, WithAt DEF TypeInv, TypeOK
<1>6. spawn' \in [Inst -> Progress]
  BY <1>3 DEF TypeInv, TypeOK, Progress
<1>7. QED
  BY <1>4, <1>5, <1>6

\* A history to which an instance is added.
LEMMA HistoryType ==
  ASSUME TypeInv, NEW i \in Inst,
         \/ history' = history
         \/ history' = [history EXCEPT !.stranded = @ \cup {i}]
         \/ history' = [history EXCEPT !.early = @ \cup {i}]
         \/ history' = [history EXCEPT !.stopped = @ \cup {i}]
  PROVE  history' \in History
BY DEF TypeInv

\* Whatever is overtaken or crossed is an instance.
LEMMA OvertakenType ==
  TypeInv /\ Next => overtaken' \subseteq Inst /\ crossed' \subseteq Inst
BY DEF Next, TypeInv, TypeOK

\* The types are kept by what an instance and its coroutines do.
LEMMA TypeInstance ==
  ASSUME TypeInv, CallersInv, overtaken' \subseteq Inst, crossed' \subseteq Inst, NEW i \in Inst,
         \/ Spawn(i) \/ StateKnown(i) \/ SpawnRegistered(i) \/ FailSpawn(i) \/ ChildExits(i)
         \/ ExitHandled(i) \/ Request(i) \/ Answered(i) \/ Renew(i) \/ Renewed(i)
         \/ \E c \in Stop : StopInstance(c, i)
         \/ \E n \in Pi : Forget(i, n)
  PROVE  TypeInv'
<1> USE DEF state, radius
<1>r. record[i] \in Record /\ \A s \in Status : WithStatus(i, s) \in Record
  <2>1. record[i] \in Record
    BY DEF TypeInv, TypeOK
  <2>2. QED
    BY <2>1 DEF WithStatus
<1>1. ASSUME Spawn(i) PROVE TypeInv'
  <2>1. record' \in [Inst -> Record] /\ file' \in [Inst -> Record \cup {None}]
    <3>1. [status |-> "starting", pi |-> 0] \in Record
      OBVIOUS
    <3>2. QED
      BY <1>1, <3>1, UpsertType DEF Spawn
  <2>2. history' \in History
    BY <1>1, HistoryType DEF Spawn
  <2>3. resources' \in [Inst -> Resources]
    <3>1. [resources[i] EXCEPT !.rpc = TRUE] \in Resources
      BY WithRpc DEF TypeInv, TypeOK
    <3>2. QED
      BY <1>1, <3>1 DEF Spawn, TypeInv, TypeOK
  <2>4. /\ child' \in [Inst -> {"none", "running", "terminating", "exited"}]
        /\ spawn' \in [Inst -> Progress] /\ live' \subseteq Inst /\ bound' \subseteq Inst
    BY <1>1 DEF Spawn, TypeInv, TypeOK, Progress
  <2>5. QED
    BY <1>1, <2>1, <2>2, <2>3, <2>4 DEF Spawn, TypeInv, TypeOK
<1>2. ASSUME StateKnown(i) PROVE TypeInv'
  <2>1. record' \in [Inst -> Record] /\ file' \in [Inst -> Record \cup {None}]
    BY <1>2, <1>r, UpsertType DEF StateKnown
  <2>2. spawn' \in [Inst -> Progress]
    BY <1>2 DEF StateKnown, TypeInv, TypeOK, Progress
  <2>3. QED
    BY <1>2, <2>1, <2>2 DEF StateKnown, TypeInv, TypeOK
<1>3. ASSUME SpawnRegistered(i) PROVE TypeInv'
  <2>1. PICK n \in Pi : /\ Registers(i, n)
                        /\ Upsert(i, [status |-> "online", pi |-> n])
                        /\ resources' = [resources EXCEPT ![i].pi = n]
    BY <1>3 DEF SpawnRegistered
  <2>2. /\ n \in Nat \ {0} /\ count' \in Counter /\ beat' \in [Inst -> Nat]
        /\ registered' \subseteq Inst \X Nat
    BY <2>1, RegistersType
  <2>3. record' \in [Inst -> Record] /\ file' \in [Inst -> Record \cup {None}]
    <3>1. [status |-> "online", pi |-> n] \in Record
      BY <2>2
    <3>2. QED
      BY <2>1, <3>1, UpsertType
  <2>4. resources' \in [Inst -> Resources]
    BY <2>1, <2>2, WithPi DEF TypeInv, TypeOK
  <2>5. spawn' \in [Inst -> Progress]
    BY <1>3 DEF SpawnRegistered, TypeInv, TypeOK, Progress
  <2>6. QED
    BY <1>3, <2>5, <2>2, <2>3, <2>4 DEF SpawnRegistered, TypeInv, TypeOK
<1>4. ASSUME FailSpawn(i) PROVE TypeInv'
  <2>1. record' \in [Inst -> Record] /\ file' \in [Inst -> Record \cup {None}]
    BY <1>4, <1>r, UpsertType DEF FailSpawn
  <2>2. count' \in Counter
    BY <1>4, CountsType DEF FailSpawn, Fails, TypeInv
  <2>3. CleanupBegins(i, i) /\ i \in Caller
    BY <1>4 DEF FailSpawn
  <2>4. spawn' \in [Inst -> Progress]
    BY <1>4 DEF FailSpawn, TypeInv, TypeOK, Progress
  <2>5. QED
    BY <1>4, <2>1, <2>2, <2>3, <2>4, BeginsType DEF FailSpawn, TypeInv, TypeOK
<1>5. ASSUME NEW c \in Stop, StopInstance(c, i) PROVE TypeInv'
  <2>1. record' \in [Inst -> Record] /\ file' \in [Inst -> Record \cup {None}]
    BY <1>5, <1>r, UpsertType DEF StopInstance
  <2>2. CleanupBegins(c, i) /\ c \in Caller
    BY <1>5 DEF StopInstance
  <2>3. QED
    BY <1>5, <2>1, <2>2, BeginsType DEF StopInstance, TypeInv, TypeOK
<1>6. ASSUME ChildExits(i) PROVE TypeInv'
  <2>1. record' \in [Inst -> Record] /\ file' \in [Inst -> Record \cup {None}]
    BY <1>6, <1>r, UpsertType DEF ChildExits, TypeInv, TypeOK
  <2>2. count' \in Counter
    BY <1>6, CountsType DEF ChildExits, TypeInv
  <2>3. /\ child' \in [Inst -> {"none", "running", "terminating", "exited"}]
        /\ spawn' \in [Inst -> Progress]
        /\ rpc' \in [Inst -> {"none", "command", "state"}]
    BY <1>6 DEF ChildExits, TypeInv, TypeOK, Progress
  <2>4. /\ bound' \subseteq Inst /\ live' \subseteq Inst
        /\ resources' \in [Inst -> Resources]
        /\ exit' \in [Inst -> Nat \cup {None}] /\ beat' \in [Inst -> Nat]
    <3>1. [resources[i] EXCEPT !.rpc = FALSE] \in Resources /\ record[i].pi \in Nat
      BY <1>r, WithRpc DEF TypeInv, TypeOK
    <3>2. CASE Handled(i)
      <4>1. /\ bound' = bound \ {i} /\ live' \in {live, live \ {i}}
            /\ exit' = exit \/ exit' = [exit EXCEPT ![i] = record[i].pi]
            /\ beat' = beat \/ beat' = [beat EXCEPT ![i] = 0]
        BY <1>6, <3>2 DEF ChildExits
      <4>2. resources' = [resources EXCEPT ![i] = [resources[i] EXCEPT !.rpc = FALSE]]
        BY <1>6, <3>2 DEF ChildExits
      <4>3. resources' \in [Inst -> Resources]
        BY <3>1, <4>2 DEF TypeInv, TypeOK
      <4>4. QED
        BY <3>1, <4>1, <4>3 DEF TypeInv, TypeOK
    <3>4. CASE ~Handled(i)
      BY <1>6, <3>4 DEF ChildExits, TypeInv, TypeOK
    <3>5. QED
      BY <3>2, <3>4
  <2>5. QED
    BY <1>6, <2>1, <2>2, <2>3, <2>4 DEF ChildExits, TypeInv, TypeOK
<1>7. ASSUME ExitHandled(i) PROVE TypeInv'
  <2>1. record' \in [Inst -> Record] /\ file' \in [Inst -> Record \cup {None}]
    <3>1. [record[i] EXCEPT !.pi = 0] \in Record
      BY <1>r
    <3>2. QED
      BY <1>7, <3>1, UpsertType DEF ExitHandled, TypeInv, TypeOK
  <2>2. count' \in Counter /\ history' \in History
    BY <1>7, CountsType, HistoryType DEF ExitHandled, Fails, TypeInv
  <2>3. QED
    BY <1>7, <2>1, <2>2 DEF ExitHandled, TypeInv, TypeOK
<1>8. ASSUME Request(i) PROVE TypeInv'
  BY <1>8 DEF Request, TypeInv, TypeOK
<1>9. ASSUME Answered(i) PROVE TypeInv'
  <2>1. record' \in [Inst -> Record] /\ file' \in [Inst -> Record \cup {None}]
    BY <1>9, <1>r, UpsertType DEF Answered, TypeInv, TypeOK
  <2>2. QED
    BY <1>9, <2>1 DEF Answered, TypeInv, TypeOK
<1>10. ASSUME NEW n \in Pi, Forget(i, n) PROVE TypeInv'
  <2>1. count' \in Counter
    BY <1>10, CountsType DEF Forget
  <2>2. QED
    BY <1>10, <2>1 DEF Forget, TypeInv, TypeOK
<1>11. ASSUME Renew(i) PROVE TypeInv'
  <2>1. count' \in Counter
    BY <1>11, CountsType DEF Renew, TypeInv
  <2>2. registered' \subseteq Inst \X Nat
    BY <1>11 DEF Renew, TypeInv, TypeOK
  <2>3. renewal' \in [Inst -> Record \cup {None}] /\ beat' \in [Inst -> Nat]
    <3>1. \/ renewal' = [renewal EXCEPT ![i] = record[i]] /\ beat' = beat
          \/ renewal' = renewal /\ beat' = [beat EXCEPT ![i] = 0]
      BY <1>11 DEF Renew
    <3>2. QED
      BY <3>1, <1>r DEF TypeInv, TypeOK
  <2>4. QED
    BY <1>11, <2>1, <2>2, <2>3 DEF Renew, TypeInv, TypeOK
<1>12. ASSUME Renewed(i) PROVE TypeInv'
  <2>1. renewal' \in [Inst -> Record \cup {None}]
    BY <1>12 DEF Renewed, TypeInv, TypeOK
  <2>2. CASE Fails /\ UNCHANGED <<record, resources, file, radius>>
    BY <1>12, <2>1, <2>2, CountsType DEF Renewed, Fails, TypeInv, TypeOK
  <2>3. CASE \E n \in Pi :
               LET r == [renewal[i] EXCEPT !.pi = n]
               IN /\ Registers(i, n)
                  /\ file' = [file EXCEPT ![i] = r]
                  /\ IF i \in live
                     THEN /\ record' = [record EXCEPT ![i] = r]
                          /\ resources' = [resources EXCEPT ![i].pi = n]
                     ELSE UNCHANGED <<record, resources>>
    <3>1. PICK n \in Pi :
            LET r == [renewal[i] EXCEPT !.pi = n]
            IN /\ Registers(i, n)
               /\ file' = [file EXCEPT ![i] = r]
               /\ IF i \in live
                  THEN /\ record' = [record EXCEPT ![i] = r]
                       /\ resources' = [resources EXCEPT ![i].pi = n]
                  ELSE UNCHANGED <<record, resources>>
      BY <2>3
    <3> DEFINE r == [renewal[i] EXCEPT !.pi = n]
    <3>2. /\ n \in Nat \ {0} /\ count' \in Counter /\ beat' \in [Inst -> Nat]
          /\ registered' \subseteq Inst \X Nat
      BY <3>1, RegistersType
    <3>3. renewal[i] \in Record
      BY <1>12 DEF Renewed, TypeInv, TypeOK
    <3>4. r \in Record
      BY <3>2, <3>3
    <3>5. /\ file' = [file EXCEPT ![i] = r]
          /\ IF i \in live
             THEN /\ record' = [record EXCEPT ![i] = r]
                  /\ resources' = [resources EXCEPT ![i].pi = n]
             ELSE UNCHANGED <<record, resources>>
      BY <3>1
    <3> HIDE DEF r
    <3>6. /\ record' \in [Inst -> Record] /\ file' \in [Inst -> Record \cup {None}]
          /\ resources' \in [Inst -> Resources]
      <4>1. [resources[i] EXCEPT !.pi = n] \in Resources
        BY <3>2, WithPi DEF TypeInv, TypeOK
      <4>2. CASE i \in live
        <5>1. resources' = [resources EXCEPT ![i] = [resources[i] EXCEPT !.pi = n]]
          BY <3>5, <4>2
        <5>2. resources' \in [Inst -> Resources]
          BY <4>1, <5>1 DEF TypeInv, TypeOK
        <5>3. record' \in [Inst -> Record]
          BY <3>4, <3>5, <4>2 DEF TypeInv, TypeOK
        <5>4. file' \in [Inst -> Record \cup {None}]
          BY <3>4, <3>5 DEF TypeInv, TypeOK
        <5>5. QED
          BY <5>2, <5>3, <5>4
      <4>3. CASE i \notin live
        BY <3>4, <3>5, <4>3 DEF TypeInv, TypeOK
      <4>4. QED
        BY <4>2, <4>3
    <3>7. QED
      BY <1>12, <2>1, <3>2, <3>6 DEF Renewed, TypeInv, TypeOK
  <2>4. QED
    BY <1>12, <2>2, <2>3 DEF Renewed
<1>13. QED
  BY <1>1, <1>2, <1>3, <1>4, <1>5, <1>6, <1>7, <1>8, <1>9, <1>10, <1>11, <1>12

\* The types are kept by the cleanups.
LEMMA TypeContinue ==
  ASSUME TypeInv, CallersInv, overtaken' \subseteq Inst, crossed' \subseteq Inst, NEW c \in Caller,
         Continue(c)
  PROVE  TypeInv'
<1> USE DEF state, radius
<1>0. CleaningUp(c) /\ cleanup[c].of \in Inst /\ cleanup[c] \in Cleanup
  BY DEF Continue, Disconnected, DisconnectFails, Disposed, CleaningUp, CallersInv, TypeInv, TypeOK
<1> DEFINE i == cleanup[c].of
<1>1. ASSUME Disconnected(c) PROVE TypeInv'
  <2>1. resources[i] \in Resources /\ record[i] \in Record
    BY <1>0 DEF TypeInv, TypeOK
  <2>2. [rpc |-> IF cleanup[c].rpc THEN FALSE ELSE resources[i].rpc, pi |-> 0] \in Resources
    BY <2>1 DEF Resources
  <2>3. [record[i] EXCEPT !.pi = 0] \in Record
    BY <2>1
  <2>4. [cleanup[c] EXCEPT !.at = "dispose"] \in Cleanup
    BY <1>0, WithAt
  <2>5. /\ resources' = [resources EXCEPT ![i] =
                         [rpc |-> IF cleanup[c].rpc THEN FALSE ELSE resources[i].rpc, pi |-> 0]]
        /\ record' = [record EXCEPT ![i] = [record[i] EXCEPT !.pi = 0]]
        /\ cleanup' = [cleanup EXCEPT ![c] = [cleanup[c] EXCEPT !.at = "dispose"]]
    BY <1>1 DEF Disconnected
  <2>6. /\ resources' \in [Inst -> Resources] /\ record' \in [Inst -> Record]
        /\ cleanup' \in [Caller -> Cleanup]
    BY <2>2, <2>3, <2>4, <2>5 DEF TypeInv, TypeOK
  <2>7. /\ child' \in [Inst -> {"none", "running", "terminating", "exited"}]
        /\ spawn' \in [Inst -> Progress] /\ rpc' \in [Inst -> {"none", "command", "state"}]
        /\ registered' \subseteq Inst \X Nat
    BY <1>0, <1>1 DEF Disconnected, TypeInv, TypeOK, Progress
  <2>8. QED
    BY <1>1, <2>6, <2>7 DEF Disconnected, TypeInv, TypeOK
<1>2. ASSUME DisconnectFails(c) PROVE TypeInv'
  <2>1. count' \in Counter
    BY <1>2, CountsType DEF DisconnectFails, Fails
  <2>2. history' \in History
    BY <1>0, <1>2, HistoryType DEF DisconnectFails
  <2>3. DropInstance(c, "failed")
    BY <1>2 DEF DisconnectFails
  <2>4. QED
    BY <1>0, <1>2, <2>1, <2>2, <2>3, DropType DEF DisconnectFails, TypeInv, TypeOK
<1>3. ASSUME Disposed(c) PROVE TypeInv'
  <2>1. history' \in History
    BY <1>0, <1>3, HistoryType DEF Disposed
  <2>2. DropInstance(c, "done")
    BY <1>3 DEF Disposed
  <2>3. QED
    BY <1>0, <1>3, <2>1, <2>2, DropType DEF Disposed, TypeInv, TypeOK
<1>4. QED
  BY <1>1, <1>2, <1>3 DEF Continue

\* The types are kept by a crash and a restart.
LEMMA TypeServer ==
  ASSUME TypeInv, CallersInv, overtaken' \subseteq Inst, crossed' \subseteq Inst,
         Crash \/ ServerGoesOn
  PROVE  TypeInv'
<1> USE DEF state, radius
<1>1. ASSUME Crash PROVE TypeInv'
  <2>1. count' \in Counter
    BY <1>1, CountsType DEF Crash, Fails
  <2>2. cleanup' \in [Caller -> Cleanup]
    <3>1. DOMAIN cleanup = Caller /\ \A c \in Caller : [cleanup[c] EXCEPT !.at = "lost"] \in Cleanup
      BY WithAt DEF TypeInv, TypeOK
    <3>2. QED
      BY <1>1, <3>1 DEF Crash, TypeInv, TypeOK
  <2>3. /\ record' \in [Inst -> Record] /\ resources' \in [Inst -> Resources]
        /\ spawn' \in [Inst -> Progress]
        /\ child' \in [Inst -> {"none", "running", "terminating", "exited"}]
    BY <1>1 DEF Crash, Resources, Progress
  <2>4. QED
    BY <1>1, <2>1, <2>2, <2>3 DEF Crash, TypeInv, TypeOK
<1>2. ASSUME Restart PROVE TypeInv'
  <2> DEFINE read(i) == IF file[i] = None THEN None
                        ELSE [file[i] EXCEPT !.status = IF @ \in {"online", "starting"} THEN "stopped" ELSE @]
  <2>1. ASSUME NEW i \in Inst PROVE read(i) \in Record \cup {None}
    <3>1. CASE file[i] = None
      BY <3>1
    <3>2. CASE file[i] \in Record
      BY <3>2
    <3>3. QED
      BY <3>1, <3>2 DEF TypeInv, TypeOK
  <2>2. recovery' = [records |-> [i \in Inst |-> read(i)],
                     left |-> {i \in Inst : file[i] # None /\ file[i].pi # 0}]
    BY <1>2 DEF Restart
  <2> HIDE DEF read
  <2>3. recovery' \in Recovery
    BY <2>1, <2>2
  <2>4. QED
    BY <1>2, <2>3 DEF Restart, TypeInv, TypeOK
<1>3. ASSUME NEW i \in Inst, RecoverPi(i) PROVE TypeInv'
  <2>1. recovery \in Recovery /\ recovery' = [recovery EXCEPT !.left = recovery.left \ {i}]
    BY <1>3 DEF RecoverPi, TypeInv
  <2>2. recovery' \in Recovery
    BY <2>1
  <2>3. QED
    BY <1>3, <2>2 DEF RecoverPi, TypeInv, TypeOK
<1>4. ASSUME Recovered PROVE TypeInv'
  BY <1>4 DEF Recovered, TypeInv, TypeOK
<1>5. QED
  BY <1>1, <1>2, <1>3, <1>4 DEF ServerGoesOn

\* Every step keeps the types.
LEMMA TypeNext == TypeInv /\ CallersInv /\ [Next]_vars => TypeInv'
<1>1. ASSUME TypeInv, UNCHANGED vars PROVE TypeInv'
  BY <1>1 DEF vars, steps, state, radius, TypeInv, TypeOK
<1>2. ASSUME TypeInv, CallersInv, Next PROVE TypeInv'
  <2>1. overtaken' \subseteq Inst /\ crossed' \subseteq Inst
    BY <1>2, OvertakenType
  <2>2. QED
    BY <1>2, <2>1, TypeInstance, TypeContinue, TypeServer DEF Next, Step, SpawnGoesOn
<1>3. QED
  BY <1>1, <1>2

-----------------------------------------------------------------------------
(* Callers, and what was overtaken or crossed. *)

\* No caller of a cleanup has one when the server starts.
LEMMA CallersInit == Init => CallersInv
BY DEF Init, CallersInv, CleaningUp

\* A cleanup begins when its caller had none, and keeps its instance.
LEMMA CallersNext == TypeInv /\ CallersInv /\ [Next]_vars => CallersInv'
<1> SUFFICES ASSUME TypeInv, CallersInv, [Next]_vars PROVE CallersInv'
  OBVIOUS
<1> USE DEF CallersInv, CleaningUp
<1>0. cleanup \in [Caller -> Cleanup]
  BY DEF TypeInv, TypeOK
<1>1. ASSUME NEW i \in Inst, NEW c \in Caller, CleanupBegins(c, i), c \in Inst => c = i PROVE CallersInv'
  <2>1. \A d \in Caller \ {c} : cleanup'[d] = cleanup[d]
    BY <1>0, <1>1 DEF CleanupBegins
  <2>2. cleanup'[c].of = i /\ cleanup'[c].at = "disconnect"
    BY <1>0, <1>1 DEF CleanupBegins
  <2>3. QED
    BY <1>1, <2>1, <2>2
<1>2. ASSUME NEW c \in Caller, CleaningUp(c), NEW at \in {"dispose", "done", "failed"},
             cleanup' = [cleanup EXCEPT ![c].at = at]
      PROVE  CallersInv'
  <2>1. \A d \in Caller \ {c} : cleanup'[d] = cleanup[d]
    BY <1>0, <1>2
  <2>2. cleanup'[c].of = cleanup[c].of /\ cleanup'[c].at = at
    BY <1>0, <1>2 DEF Cleanup
  <2>3. QED
    BY <1>2, <2>1, <2>2
<1>3. ASSUME NEW c \in Caller, Continue(c) PROVE CallersInv'
  BY <1>2, <1>3 DEF Continue, Disconnected, DisconnectFails, Disposed, DropInstance
<1>4. ASSUME Crash PROVE CallersInv'
  <2>1. \A c \in Caller : cleanup'[c].of = cleanup[c].of /\ cleanup'[c].at \in {cleanup[c].at, "lost"}
    BY <1>0, <1>4 DEF Crash, Cleanup
  <2>2. QED
    BY <1>4, <2>1
<1>5. ASSUME NEW i \in Inst, FailSpawn(i) PROVE CallersInv'
  BY <1>1, <1>5 DEF FailSpawn
<1>6. ASSUME NEW i \in Inst, NEW c \in Stop, StopInstance(c, i) PROVE CallersInv'
  BY <1>1, <1>6, SupervisorAssumption DEF StopInstance
<1>7. ASSUME cleanup' = cleanup PROVE CallersInv'
  BY <1>7
<1>8. ASSUME NEW i \in Inst,
             \/ Spawn(i) \/ StateKnown(i) \/ SpawnRegistered(i) \/ ChildExits(i) \/ ExitHandled(i)
             \/ Request(i) \/ Answered(i) \/ Renew(i) \/ Renewed(i)
             \/ RecoverPi(i) \/ \E n \in Pi : Forget(i, n)
      PROVE  cleanup' = cleanup
  BY <1>8 DEF Spawn, StateKnown, SpawnRegistered, ChildExits, ExitHandled, Request, Answered,
              Renew, Renewed, RecoverPi, Forget
<1>9. ASSUME Restart \/ Recovered \/ UNCHANGED vars PROVE cleanup' = cleanup
  BY <1>9 DEF Restart, Recovered, vars, steps
<1>10. QED
  BY <1>3, <1>4, <1>5, <1>6, <1>7, <1>8, <1>9 DEF Next, Step, SpawnGoesOn, ServerGoesOn

\* Every variable keeps its type: no record, no Pi and no cleanup is of something else than
\* an instance.
THEOREM TypeCorrect == Spec => []TypeOK
<1>1. Init => TypeInv /\ CallersInv
  BY TypeInit, CallersInit
<1>2. TypeInv /\ CallersInv /\ [Next]_vars => (TypeInv /\ CallersInv)'
  BY TypeNext, CallersNext
<1>3. TypeInv => TypeOK
  BY DEF TypeInv
<1>4. QED
  BY <1>1, <1>2, <1>3, PTL DEF Spec

\* What the model records as overtaken and crossed is all that was.
LEMMA HistoryNext ==
  TypeInv /\ TypeInv' /\ HistoryInv /\ [Next]_vars =>
    HistoryInv' /\ overtaken \subseteq overtaken' /\ crossed \subseteq crossed'
<1>1. ASSUME TypeInv', Next PROVE HistoryInv'
  <2> SUFFICES ASSUME NEW i \in Inst PROVE (RegularInv(i) /\ UncrossedInv(i))'
    BY DEF HistoryInv
  <2>1. DOMAIN cleanup' = Caller
    BY <1>1 DEF TypeInv, TypeOK
  <2>2. (Overtaken(i)' => i \in overtaken') /\ (Crossed(i)' => i \in crossed')
    BY <1>1 DEF Next
  <2>3. RegularInv(i)'
    BY <2>1, <2>2 DEF RegularInv, Overtaken, Leaving, Ends
  <2>4. UncrossedInv(i)'
    BY <2>1, <2>2 DEF UncrossedInv, Crossed, Ends
  <2>5. QED
    BY <2>3, <2>4
<1>2. ASSUME Next PROVE overtaken \subseteq overtaken' /\ crossed \subseteq crossed'
  BY <1>2 DEF Next
<1>3. ASSUME HistoryInv, UNCHANGED vars
      PROVE  HistoryInv' /\ overtaken \subseteq overtaken' /\ crossed \subseteq crossed'
  BY <1>3 DEF HistoryInv, RegularInv, UncrossedInv, Ends, CleaningUp, vars, steps, state
<1>4. QED
  BY <1>1, <1>2, <1>3

-----------------------------------------------------------------------------
(* What a step of another instance leaves alone. *)

Same(i) ==
  /\ server' = server
  /\ i \in live' <=> i \in live
  /\ record'[i] = record[i] /\ resources'[i] = resources[i] /\ file'[i] = file[i]
  /\ child'[i] = child[i] /\ spawn'[i] = spawn[i] /\ exit'[i] = exit[i] /\ rpc'[i] = rpc[i]
  /\ renewal'[i] = renewal[i] /\ beat'[i] = beat[i]
  /\ \A n \in Nat : <<i, n>> \in registered' <=> <<i, n>> \in registered
  /\ cleanup'[i] = cleanup[i]
  /\ \A c \in Caller : cleanup'[c] = cleanup[c] \/ (cleanup[c].of # i /\ cleanup'[c].of # i)
  /\ server = "recovering" => /\ recovery'.records[i] = recovery.records[i]
                              /\ i \in recovery.left => i \in recovery'.left
  /\ i \in history'.stranded <=> i \in history.stranded
  /\ i \in history'.early <=> i \in history.early
  /\ i \in history'.stopped <=> i \in history.stopped
  /\ overtaken \subseteq overtaken' /\ crossed \subseteq crossed'

\* The callers that end an instance are the same then.
LEMMA SameEnds ==
  ASSUME NEW i \in Inst, Same(i)
  PROVE  /\ \A c \in Caller : Ends(c, i)' <=> Ends(c, i)
         /\ \A c \in Caller : Ends(c, i) => cleanup'[c] = cleanup[c]
         /\ StopRuns(i)' <=> StopRuns(i)
         /\ StopLost(i)' <=> StopLost(i)
         /\ CleaningUp(i)' <=> CleaningUp(i)
<1>1. \A c \in Caller : /\ Ends(c, i)' <=> Ends(c, i)
                        /\ Ends(c, i) => cleanup'[c] = cleanup[c]
  BY DEF Same, Ends, CleaningUp
<1>2. \A c \in Stop : cleanup'[c].of = i /\ cleanup'[c].at = "lost"
                      <=> cleanup[c].of = i /\ cleanup[c].at = "lost"
  BY DEF Same
<1>3. CleaningUp(i)' <=> CleaningUp(i)
  BY DEF Same, CleaningUp
<1>4. QED
  BY <1>1, <1>2, <1>3 DEF StopRuns, StopLost

\* A step of another instance disturbs nothing of what is said of an instance.
LEMMA GoodFar ==
  ASSUME NEW i \in Inst, Same(i), Good(i)
  PROVE  Good(i)'
<1> USE DEF Begun, Alive
<1>1. FreshInv(i)'
  BY DEF Same, Good, FreshInv
<1>2. LostInv(i)'
  BY SameEnds DEF Same, Good, LostInv
<1>3. ProgressInv(i)'
  BY SameEnds DEF Same, Good, ProgressInv
<1>4. ServerInv(i)'
  BY DEF Same, Good, ServerInv
<1>5. OwnedInv(i)'
  BY SameEnds DEF Same, Good, OwnedInv
<1>6. MirrorInv(i)'
  BY SameEnds DEF Same, Good, MirrorInv
<1>7. StatusInv(i)'
  BY SameEnds DEF Same, Good, StatusInv
<1>8. RecoveredInv(i)'
  BY SameEnds DEF Same, Good, RecoveredInv
<1>9. RadiusInv(i)'
  BY SameEnds DEF Same, Good, RadiusInv, Excepted
<1>10. BeatInv(i)'
  BY SameEnds DEF Same, Good, BeatInv
<1>11. NoPiInv(i)'
  BY SameEnds DEF Same, Good, NoPiInv
<1>12. RejectedInv(i)'
  BY SameEnds DEF Same, Good, RejectedInv
<1>13. StoppedInv(i)'
  BY SameEnds DEF Same, Good, StoppedInv
<1>14. QED
  BY <1>1, <1>2, <1>3, <1>4, <1>5, <1>6, <1>7, <1>8, <1>9, <1>10, <1>11, <1>12, <1>13 DEF Good

\* What an instance's own step may assume.
Context ==
  /\ TypeInv /\ TypeInv' /\ CallersInv /\ HistoryInv /\ HistoryInv'
  /\ overtaken \subseteq overtaken' /\ crossed \subseteq crossed'

\* A step of an instance leaves the others alone.
LEMMA OthersSame ==
  ASSUME Context, NEW j \in Inst, NEW i \in Inst \ {j},
         \/ Spawn(j) \/ StateKnown(j) \/ SpawnRegistered(j) \/ FailSpawn(j) \/ ChildExits(j)
         \/ ExitHandled(j) \/ Request(j) \/ Answered(j) \/ Renew(j) \/ Renewed(j) \/ RecoverPi(j)
         \/ \E c \in Stop : StopInstance(c, j)
         \/ \E n \in Pi : Forget(j, n)
         \/ \E c \in Caller : cleanup[c].of = j /\ Continue(c)
  PROVE  Same(i)
<1> USE DEF Context, TypeInv, TypeOK, state, radius
<1>1. ASSUME Spawn(j) PROVE Same(i)
  BY <1>1 DEF Spawn, Upsert, Same
<1>2. ASSUME StateKnown(j) PROVE Same(i)
  BY <1>2 DEF StateKnown, Upsert, Same
<1>3. ASSUME SpawnRegistered(j) PROVE Same(i)
  BY <1>3 DEF SpawnRegistered, Registers, Upsert, Same
<1>4. ASSUME FailSpawn(j) PROVE Same(i)
  <2>1. cleanup[j].of # i
    BY SupervisorAssumption DEF CallersInv
  <2>2. CleanupBegins(j, j) /\ Upsert(j, WithStatus(j, "error"))
    BY <1>4 DEF FailSpawn
  <2>3. cleanup'[j].of = j /\ \A c \in Caller \ {j} : cleanup'[c] = cleanup[c]
    BY <2>2 DEF CleanupBegins
  <2>4. record'[i] = record[i] /\ file'[i] = file[i] /\ beat'[i] = beat[i] /\ spawn'[i] = spawn[i]
    BY <1>4, <2>2 DEF CleanupBegins, Upsert, FailSpawn
  <2>5. QED
    BY <1>4, <2>1, <2>3, <2>4 DEF FailSpawn, Same
<1>5. ASSUME ChildExits(j) PROVE Same(i)
  BY <1>5 DEF ChildExits, Upsert, Same
<1>6. ASSUME ExitHandled(j) PROVE Same(i)
  <2>1. /\ i \in live' <=> i \in live
        /\ exit'[i] = exit[i] /\ record'[i] = record[i] /\ file'[i] = file[i]
        /\ \A n \in Nat : <<i, n>> \in registered' <=> <<i, n>> \in registered
    BY <1>6 DEF ExitHandled, Upsert
  <2>2. /\ i \in history'.stranded <=> i \in history.stranded
        /\ history'.early = history.early /\ history'.stopped = history.stopped
    BY <1>6 DEF ExitHandled, History
  <2>3. QED
    BY <1>6, <2>1, <2>2 DEF ExitHandled, Same
<1>7. ASSUME Request(j) PROVE Same(i)
  BY <1>7 DEF Request, Same
<1>8. ASSUME Answered(j) PROVE Same(i)
  BY <1>8 DEF Answered, Upsert, Same
<1>9. ASSUME Renew(j) PROVE Same(i)
  BY <1>9 DEF Renew, Same
<1>10. ASSUME Renewed(j) PROVE Same(i)
  BY <1>10 DEF Renewed, Registers, Same
<1>11. ASSUME RecoverPi(j) PROVE Same(i)
  BY <1>11 DEF RecoverPi, Same
<1>12. ASSUME NEW c \in Stop, StopInstance(c, j) PROVE Same(i)
  BY <1>12, SupervisorAssumption DEF StopInstance, CleanupBegins, Upsert, Same, CallersInv
<1>13. ASSUME NEW n \in Pi, Forget(j, n) PROVE Same(i)
  BY <1>13 DEF Forget, Same
<1>14. ASSUME NEW c \in Caller, cleanup[c].of = j, Disconnected(c) PROVE Same(i)
  BY <1>14, SupervisorAssumption DEF Disconnected, Same, CallersInv
<1>15. ASSUME NEW c \in Caller, cleanup[c].of = j, DisconnectFails(c) PROVE Same(i)
  BY <1>15, SupervisorAssumption DEF DisconnectFails, DropInstance, Same, CallersInv
<1>16. ASSUME NEW c \in Caller, cleanup[c].of = j, Disposed(c) PROVE Same(i)
  BY <1>16, SupervisorAssumption DEF Disposed, DropInstance, Same, CallersInv
<1>17. QED
  BY <1>1, <1>2, <1>3, <1>4, <1>5, <1>6, <1>7, <1>8, <1>9, <1>10, <1>11, <1>12, <1>13, <1>14,
     <1>15, <1>16 DEF Continue

-----------------------------------------------------------------------------
(* What a step of an instance keeps of itself. *)

\* The types of what is an instance's.
Typed(i) ==
  /\ record[i] \in Record /\ record[i].status \in Status /\ record[i].pi \in Nat
  /\ resources[i].rpc \in BOOLEAN /\ resources[i].pi \in Nat /\ beat[i] \in Nat
  /\ exit[i] \in Nat \cup {None} /\ renewal[i] \in Record \cup {None}
  /\ file[i] \in Record \cup {None} /\ None \notin Record /\ None \notin Nat
  /\ server \in {"up", "recovering", "down"}

\* What is remembered of an instance stays so.
Kept(i) ==
  /\ RegularInv(i) /\ UncrossedInv(i) /\ RegularInv(i)' /\ UncrossedInv(i)'
  /\ (i \in overtaken => i \in overtaken') /\ (i \in crossed => i \in crossed')

\* The type invariant types every instance.
LEMMA InstanceTypes ==
  ASSUME TypeInv, NEW i \in Inst
  PROVE  Typed(i)
BY RecordAssumption DEF TypeInv, TypeOK, Resources, Typed

\* Cleanups that do not change still end the same instances.
LEMMA EndsKept ==
  ASSUME cleanup' = cleanup, NEW i \in Inst
  PROVE  /\ \A c \in Caller : (Ends(c, i)' <=> Ends(c, i)) /\ cleanup'[c] = cleanup[c]
         /\ StopRuns(i)' <=> StopRuns(i)
         /\ StopLost(i)' <=> StopLost(i)
         /\ CleaningUp(i)' <=> CleaningUp(i)
BY DEF Ends, StopRuns, StopLost, CleaningUp

\* The number of a registration is none of those given before, and not 0.
LEMMA PiNumber ==
  ASSUME TypeInv, NEW i \in Inst, NEW n, Registers(i, n)
  PROVE  n \in Nat \ {0}
BY DEF Registers, TypeInv

\* A spawn keeps what is said of its instance.
LEMMA OwnSpawn ==
  ASSUME Context, NEW i \in Inst, Good(i), Spawn(i)
  PROVE  Good(i)'
<1> USE DEF Begun, Alive, Over, Typed, Kept
<1>t. Typed(i)
  BY InstanceTypes DEF Context
<1>h. Kept(i)
  BY DEF Context, HistoryInv, Kept
<1>1. /\ \A c \in Caller : (Ends(c, i)' <=> Ends(c, i)) /\ cleanup'[c] = cleanup[c]
      /\ StopRuns(i)' <=> StopRuns(i)
      /\ StopLost(i)' <=> StopLost(i)
      /\ CleaningUp(i)' <=> CleaningUp(i)
      /\ spawn[i] = "none" /\ spawn'[i] = "state" /\ server # "down"
      /\ i \in live' /\ record'[i] = [status |-> "starting", pi |-> 0] /\ file'[i] = record'[i]
      /\ resources'[i].rpc = TRUE /\ resources'[i].pi = resources[i].pi /\ child'[i] = "running"
      /\ UNCHANGED <<server, exit, rpc, renewal, recovery, registered, beat>>
      /\ history'.stranded = history.stranded /\ history'.stopped = history.stopped
      /\ i \in history'.early <=> i \in history.early \/ server # "up"
  BY EndsKept DEF Context, TypeInv, TypeOK, state, radius, Spawn, Upsert, Resources, History
<1>2. FreshInv(i)'
  BY <1>t, <1>h, <1>1 DEF Good, FreshInv
<1>3. LostInv(i)'
  BY <1>t, <1>h, <1>1 DEF Good, LostInv, FreshInv
<1>4. ProgressInv(i)'
  BY <1>t, <1>h, <1>1 DEF Good, ProgressInv, FreshInv, ProgressInv, Ends
<1>5. ServerInv(i)'
  BY <1>t, <1>h, <1>1 DEF Good, ServerInv, FreshInv
<1>6. OwnedInv(i)'
  BY <1>t, <1>h, <1>1 DEF Good, OwnedInv, FreshInv, Ends
<1>7. MirrorInv(i)'
  BY <1>t, <1>h, <1>1 DEF Good, MirrorInv
<1>8. StatusInv(i)'
  BY <1>t, <1>h, <1>1 DEF Good, StatusInv, FreshInv
<1>9. RecoveredInv(i)'
  BY <1>t, <1>h, <1>1 DEF Good, RecoveredInv
<1>10. RadiusInv(i)'
  BY <1>t, <1>h, <1>1 DEF Good, RadiusInv, FreshInv
<1>11. BeatInv(i)'
  BY <1>t, <1>h, <1>1 DEF Good, BeatInv, FreshInv
<1>12. NoPiInv(i)'
  BY <1>t, <1>h, <1>1 DEF Good, NoPiInv, FreshInv, Ends
<1>13. RejectedInv(i)'
  BY <1>t, <1>h, <1>1 DEF Good, RejectedInv, FreshInv
<1>14. StoppedInv(i)'
  BY <1>t, <1>h, <1>1 DEF Good, StoppedInv, FreshInv
<1>15. QED
  BY <1>2, <1>3, <1>4, <1>5, <1>6, <1>7, <1>8, <1>9, <1>10, <1>11, <1>12, <1>13, <1>14 DEF Good

\* The answer to get_state keeps what is said of its instance.
LEMMA OwnStateKnown ==
  ASSUME Context, NEW i \in Inst, Good(i), StateKnown(i)
  PROVE  Good(i)'
<1> USE DEF Begun, Alive, Over, Typed, Kept
<1>t. Typed(i)
  BY InstanceTypes DEF Context
<1>h. Kept(i)
  BY DEF Context, HistoryInv, Kept
<1>1. /\ \A c \in Caller : (Ends(c, i)' <=> Ends(c, i)) /\ cleanup'[c] = cleanup[c]
      /\ StopRuns(i)' <=> StopRuns(i)
      /\ StopLost(i)' <=> StopLost(i)
      /\ CleaningUp(i)' <=> CleaningUp(i)
      /\ spawn[i] = "state" /\ spawn'[i] = "register"
      /\ record'[i] = record[i] /\ file'[i] = record[i]
      /\ UNCHANGED <<server, live, resources, child, exit, rpc, renewal, recovery, beat, registered, history>>
  BY EndsKept DEF Context, TypeInv, TypeOK, state, radius, StateKnown, Upsert
<1>2. FreshInv(i)'
  BY <1>t, <1>h, <1>1 DEF Good, FreshInv
<1>3. LostInv(i)'
  BY <1>t, <1>h, <1>1 DEF Good, LostInv
<1>4. ProgressInv(i)'
  BY <1>t, <1>h, <1>1 DEF Good, ProgressInv
<1>5. ServerInv(i)'
  BY <1>t, <1>h, <1>1 DEF Good, ServerInv
<1>6. OwnedInv(i)'
  BY <1>t, <1>h, <1>1 DEF Good, OwnedInv
<1>7. MirrorInv(i)'
  BY <1>t, <1>h, <1>1 DEF Good, MirrorInv
<1>8. StatusInv(i)'
  BY <1>t, <1>h, <1>1 DEF Good, StatusInv, RegularInv
<1>9. RecoveredInv(i)'
  BY <1>t, <1>h, <1>1 DEF Good, RecoveredInv
<1>10. RadiusInv(i)'
  BY <1>t, <1>h, <1>1 DEF Good, RadiusInv, Excepted
<1>11. BeatInv(i)'
  BY <1>t, <1>h, <1>1 DEF Good, BeatInv
<1>12. NoPiInv(i)'
  BY <1>t, <1>h, <1>1 DEF Good, NoPiInv
<1>13. RejectedInv(i)'
  BY <1>t, <1>h, <1>1 DEF Good, RejectedInv
<1>14. StoppedInv(i)'
  BY <1>t, <1>h, <1>1 DEF Good, StoppedInv, ServerInv
<1>15. QED
  BY <1>2, <1>3, <1>4, <1>5, <1>6, <1>7, <1>8, <1>9, <1>10, <1>11, <1>12, <1>13, <1>14 DEF Good

\* The registration of a spawn keeps what is said of its instance.
LEMMA OwnSpawnRegistered ==
  ASSUME Context, NEW i \in Inst, Good(i), SpawnRegistered(i)
  PROVE  Good(i)'
<1> USE DEF Begun, Alive, Over, Typed, Kept
<1>t. Typed(i)
  BY InstanceTypes DEF Context
<1>h. Kept(i)
  BY DEF Context, HistoryInv, Kept
<1>0. PICK n \in Pi : /\ Registers(i, n) /\ Upsert(i, [status |-> "online", pi |-> n])
                      /\ resources' = [resources EXCEPT ![i].pi = n]
  BY DEF SpawnRegistered
<1>1. /\ n \in Nat \ {0}
      /\ \A c \in Caller : (Ends(c, i)' <=> Ends(c, i)) /\ cleanup'[c] = cleanup[c]
      /\ StopRuns(i)' <=> StopRuns(i)
      /\ StopLost(i)' <=> StopLost(i)
      /\ CleaningUp(i)' <=> CleaningUp(i)
      /\ spawn[i] = "register" /\ spawn'[i] = "online"
      /\ record'[i] = [status |-> "online", pi |-> n] /\ file'[i] = record'[i]
      /\ resources'[i].rpc = resources[i].rpc /\ resources'[i].pi = n /\ beat'[i] = n
      /\ \A m \in Nat : <<i, m>> \in registered' <=> <<i, m>> \in registered \/ m = n
      /\ UNCHANGED <<server, live, child, exit, rpc, renewal, recovery, history>>
  BY <1>0, EndsKept, PiNumber DEF Context, TypeInv, TypeOK, state, radius, SpawnRegistered, Registers, Upsert, Resources, Counter
<1>2. FreshInv(i)'
  BY <1>t, <1>h, <1>1 DEF Good, FreshInv
<1>3. LostInv(i)'
  BY <1>t, <1>h, <1>1 DEF Good, LostInv
<1>4. ProgressInv(i)'
  BY <1>t, <1>h, <1>1 DEF Good, ProgressInv
<1>5. ServerInv(i)'
  BY <1>t, <1>h, <1>1 DEF Good, ServerInv
<1>6. OwnedInv(i)'
  BY <1>t, <1>h, <1>1 DEF Good, OwnedInv
<1>7. MirrorInv(i)'
  BY <1>t, <1>h, <1>1 DEF Good, MirrorInv, RegularInv
<1>8. StatusInv(i)'
  BY <1>t, <1>h, <1>1 DEF Good, StatusInv, RegularInv
<1>9. RecoveredInv(i)'
  BY <1>t, <1>h, <1>1 DEF Good, RecoveredInv
<1>10. RadiusInv(i)'
  BY <1>t, <1>h, <1>1 DEF Good, RadiusInv, Excepted, RegularInv, ServerInv
<1>11. BeatInv(i)'
  BY <1>t, <1>h, <1>1 DEF Good, BeatInv, RegularInv
<1>12. NoPiInv(i)'
  BY <1>t, <1>h, <1>1 DEF Good, NoPiInv
<1>13. RejectedInv(i)'
  BY <1>t, <1>h, <1>1 DEF Good, RejectedInv
<1>14. StoppedInv(i)'
  BY <1>t, <1>h, <1>1 DEF Good, StoppedInv, RegularInv
<1>15. QED
  BY <1>2, <1>3, <1>4, <1>5, <1>6, <1>7, <1>8, <1>9, <1>10, <1>11, <1>12, <1>13, <1>14 DEF Good

\* The end of the exit handler keeps what is said of its instance.
LEMMA OwnExitHandled ==
  ASSUME Context, NEW i \in Inst, Good(i), ExitHandled(i)
  PROVE  Good(i)'
<1> USE DEF Begun, Alive, Over, Typed, Kept
<1>t. Typed(i)
  BY InstanceTypes DEF Context
<1>h. Kept(i)
  BY DEF Context, HistoryInv, Kept
<1>1. /\ \A c \in Caller : (Ends(c, i)' <=> Ends(c, i)) /\ cleanup'[c] = cleanup[c]
      /\ StopRuns(i)' <=> StopRuns(i)
      /\ StopLost(i)' <=> StopLost(i)
      /\ CleaningUp(i)' <=> CleaningUp(i)
      /\ exit[i] # None /\ exit'[i] = None /\ i \notin live'
      /\ \/ /\ \A n \in Nat : <<i, n>> \in registered' <=> <<i, n>> \in registered /\ n # exit[i]
            /\ record'[i].status = record[i].status /\ record'[i].pi = 0 /\ file'[i] = record'[i]
            /\ history' = history
         \/ /\ UNCHANGED <<registered, record, file>> /\ i \in history'.stranded
            /\ history'.early = history.early /\ history'.stopped = history.stopped
      /\ UNCHANGED <<server, resources, child, spawn, rpc, renewal, recovery, beat>>
      /\ record'[i] \in Record
  <2>1. CASE registered' = registered \ {<<i, exit[i]>>} /\ Upsert(i, [record[i] EXCEPT !.pi = 0])
            /\ history' = history
    <3>1. record'[i] = [record[i] EXCEPT !.pi = 0] /\ file'[i] = record'[i]
      BY <2>1 DEF Upsert, Context, TypeInv, TypeOK
    <3>2. record'[i].status = record[i].status /\ record'[i].pi = 0 /\ record'[i] \in Record
      BY <1>t, <3>1
    <3>3. QED
      BY <2>1, <3>1, <3>2, EndsKept DEF Context, TypeInv, TypeOK, ExitHandled
  <2>2. CASE history' = [history EXCEPT !.stranded = @ \cup {i}] /\ UNCHANGED <<registered, record, file>>
    BY <1>t, <2>2, EndsKept DEF Context, TypeInv, TypeOK, ExitHandled, History
  <2>3. QED
    BY <2>1, <2>2 DEF ExitHandled
<1>2. FreshInv(i)'
  BY <1>t, <1>h, <1>1 DEF Good, FreshInv, FreshInv
<1>3. LostInv(i)'
  BY <1>t, <1>h, <1>1 DEF Good, LostInv, LostInv
<1>4. ProgressInv(i)'
  BY <1>t, <1>h, <1>1 DEF Good, ProgressInv
<1>5. ServerInv(i)'
  BY <1>t, <1>h, <1>1 DEF Good, ServerInv
<1>6. OwnedInv(i)'
  BY <1>t, <1>h, <1>1 DEF Good, OwnedInv, ProgressInv
<1>7. MirrorInv(i)'
  BY <1>t, <1>h, <1>1 DEF Good, MirrorInv
<1>8. StatusInv(i)'
  BY <1>t, <1>h, <1>1 DEF Good, StatusInv, MirrorInv, LostInv, FreshInv
<1>9. RecoveredInv(i)'
  BY <1>t, <1>h, <1>1 DEF Good, RecoveredInv, LostInv
<1>10. RadiusInv(i)'
  BY <1>t, <1>h, <1>1 DEF Good, RadiusInv, Excepted, LostInv, FreshInv
<1>11. BeatInv(i)'
  BY <1>t, <1>h, <1>1 DEF Good, BeatInv, BeatInv
<1>12. NoPiInv(i)'
  BY <1>t, <1>h, <1>1 DEF Good, NoPiInv
<1>13. RejectedInv(i)'
  BY <1>t, <1>h, <1>1 DEF Good, RejectedInv
<1>14. StoppedInv(i)'
  BY <1>t, <1>h, <1>1 DEF Good, StoppedInv
<1>15. QED
  BY <1>2, <1>3, <1>4, <1>5, <1>6, <1>7, <1>8, <1>9, <1>10, <1>11, <1>12, <1>13, <1>14 DEF Good

\* A client's request keeps what is said of its instance.
LEMMA OwnRequest ==
  ASSUME Context, NEW i \in Inst, Good(i), Request(i)
  PROVE  Good(i)'
<1> USE DEF Begun, Alive, Over, Typed, Kept
<1>t. Typed(i)
  BY InstanceTypes DEF Context
<1>h. Kept(i)
  BY DEF Context, HistoryInv, Kept
<1>1. /\ \A c \in Caller : (Ends(c, i)' <=> Ends(c, i)) /\ cleanup'[c] = cleanup[c]
      /\ StopRuns(i)' <=> StopRuns(i)
      /\ StopLost(i)' <=> StopLost(i)
      /\ CleaningUp(i)' <=> CleaningUp(i)
      /\ Alive(i) /\ rpc' = [rpc EXCEPT ![i] = "command"]
      /\ UNCHANGED <<server, live, record, resources, file, child, spawn, exit, renewal, recovery, registered, beat, history>>
  BY EndsKept DEF Context, TypeInv, TypeOK, state, radius, Request
<1>2. FreshInv(i)'
  BY <1>t, <1>h, <1>1 DEF Good, FreshInv, FreshInv
<1>3. LostInv(i)'
  BY <1>t, <1>h, <1>1 DEF Good, LostInv
<1>4. ProgressInv(i)'
  BY <1>t, <1>h, <1>1 DEF Good, ProgressInv
<1>5. ServerInv(i)'
  BY <1>t, <1>h, <1>1 DEF Good, ServerInv
<1>6. OwnedInv(i)'
  BY <1>t, <1>h, <1>1 DEF Good, OwnedInv
<1>7. MirrorInv(i)'
  BY <1>t, <1>h, <1>1 DEF Good, MirrorInv
<1>8. StatusInv(i)'
  BY <1>t, <1>h, <1>1 DEF Good, StatusInv
<1>9. RecoveredInv(i)'
  BY <1>t, <1>h, <1>1 DEF Good, RecoveredInv
<1>10. RadiusInv(i)'
  BY <1>t, <1>h, <1>1 DEF Good, RadiusInv, Excepted
<1>11. BeatInv(i)'
  BY <1>t, <1>h, <1>1 DEF Good, BeatInv
<1>12. NoPiInv(i)'
  BY <1>t, <1>h, <1>1 DEF Good, NoPiInv
<1>13. RejectedInv(i)'
  BY <1>t, <1>h, <1>1 DEF Good, RejectedInv
<1>14. StoppedInv(i)'
  BY <1>t, <1>h, <1>1 DEF Good, StoppedInv
<1>15. QED
  BY <1>2, <1>3, <1>4, <1>5, <1>6, <1>7, <1>8, <1>9, <1>10, <1>11, <1>12, <1>13, <1>14 DEF Good

\* The answer to a client keeps what is said of its instance.
LEMMA OwnAnswered ==
  ASSUME Context, NEW i \in Inst, Good(i), Answered(i)
  PROVE  Good(i)'
<1> USE DEF Begun, Alive, Over, Typed, Kept
<1>t. Typed(i)
  BY InstanceTypes DEF Context
<1>h. Kept(i)
  BY DEF Context, HistoryInv, Kept
<1>1. /\ \A c \in Caller : (Ends(c, i)' <=> Ends(c, i)) /\ cleanup'[c] = cleanup[c]
      /\ StopRuns(i)' <=> StopRuns(i)
      /\ StopLost(i)' <=> StopLost(i)
      /\ CleaningUp(i)' <=> CleaningUp(i)
      /\ rpc[i] # "none"
      /\ record'[i] = record[i] /\ file'[i] \in {file[i], record[i]}
      /\ Alive(i)
      /\ UNCHANGED <<server, live, resources, child, spawn, exit, renewal, recovery, registered, beat, history>>
  BY EndsKept DEF Context, TypeInv, TypeOK, state, radius, Answered, Upsert, Good, ProgressInv
<1>2. FreshInv(i)'
  BY <1>t, <1>h, <1>1 DEF Good, FreshInv
<1>3. LostInv(i)'
  BY <1>t, <1>h, <1>1 DEF Good, LostInv
<1>4. ProgressInv(i)'
  BY <1>t, <1>h, <1>1 DEF Good, ProgressInv
<1>5. ServerInv(i)'
  BY <1>t, <1>h, <1>1 DEF Good, ServerInv
<1>6. OwnedInv(i)'
  BY <1>t, <1>h, <1>1 DEF Good, OwnedInv
<1>7. MirrorInv(i)'
  BY <1>t, <1>h, <1>1 DEF Good, MirrorInv
<1>8. StatusInv(i)'
  BY <1>t, <1>h, <1>1 DEF Good, StatusInv, FreshInv, LostInv
<1>9. RecoveredInv(i)'
  BY <1>t, <1>h, <1>1 DEF Good, RecoveredInv, LostInv
<1>10. RadiusInv(i)'
  BY <1>t, <1>h, <1>1 DEF Good, RadiusInv, Excepted, LostInv, FreshInv
<1>11. BeatInv(i)'
  BY <1>t, <1>h, <1>1 DEF Good, BeatInv
<1>12. NoPiInv(i)'
  BY <1>t, <1>h, <1>1 DEF Good, NoPiInv
<1>13. RejectedInv(i)'
  BY <1>t, <1>h, <1>1 DEF Good, RejectedInv
<1>14. StoppedInv(i)'
  BY <1>t, <1>h, <1>1 DEF Good, StoppedInv
<1>15. QED
  BY <1>2, <1>3, <1>4, <1>5, <1>6, <1>7, <1>8, <1>9, <1>10, <1>11, <1>12, <1>13, <1>14 DEF Good

\* A Pi that the service forgets keeps what is said of its instance.
LEMMA OwnForget ==
  ASSUME Context, NEW i \in Inst, Good(i), NEW k \in Pi, Forget(i, k)
  PROVE  Good(i)'
<1> USE DEF Begun, Alive, Over, Typed, Kept
<1>t. Typed(i)
  BY InstanceTypes DEF Context
<1>h. Kept(i)
  BY DEF Context, HistoryInv, Kept
<1>1. /\ \A c \in Caller : (Ends(c, i)' <=> Ends(c, i)) /\ cleanup'[c] = cleanup[c]
      /\ StopRuns(i)' <=> StopRuns(i)
      /\ StopLost(i)' <=> StopLost(i)
      /\ CleaningUp(i)' <=> CleaningUp(i)
      /\ \A n \in Nat : <<i, n>> \in registered' => <<i, n>> \in registered
      /\ UNCHANGED <<server, live, record, resources, file, child, spawn, exit, rpc, renewal, recovery, beat, history>>
  BY EndsKept DEF Context, TypeInv, TypeOK, state, radius, Forget
<1>2. FreshInv(i)'
  BY <1>t, <1>h, <1>1 DEF Good, FreshInv
<1>3. LostInv(i)'
  BY <1>t, <1>h, <1>1 DEF Good, LostInv
<1>4. ProgressInv(i)'
  BY <1>t, <1>h, <1>1 DEF Good, ProgressInv
<1>5. ServerInv(i)'
  BY <1>t, <1>h, <1>1 DEF Good, ServerInv
<1>6. OwnedInv(i)'
  BY <1>t, <1>h, <1>1 DEF Good, OwnedInv
<1>7. MirrorInv(i)'
  BY <1>t, <1>h, <1>1 DEF Good, MirrorInv
<1>8. StatusInv(i)'
  BY <1>t, <1>h, <1>1 DEF Good, StatusInv
<1>9. RecoveredInv(i)'
  BY <1>t, <1>h, <1>1 DEF Good, RecoveredInv
<1>10. RadiusInv(i)'
  BY <1>t, <1>h, <1>1 DEF Good, RadiusInv, Excepted
<1>11. BeatInv(i)'
  BY <1>t, <1>h, <1>1 DEF Good, BeatInv
<1>12. NoPiInv(i)'
  BY <1>t, <1>h, <1>1 DEF Good, NoPiInv
<1>13. RejectedInv(i)'
  BY <1>t, <1>h, <1>1 DEF Good, RejectedInv
<1>14. StoppedInv(i)'
  BY <1>t, <1>h, <1>1 DEF Good, StoppedInv
<1>15. QED
  BY <1>2, <1>3, <1>4, <1>5, <1>6, <1>7, <1>8, <1>9, <1>10, <1>11, <1>12, <1>13, <1>14 DEF Good

\* The begin of a renewal keeps what is said of its instance.
LEMMA OwnRenew ==
  ASSUME Context, NEW i \in Inst, Good(i), Renew(i)
  PROVE  Good(i)'
<1> USE DEF Begun, Alive, Over, Typed, Kept
<1>t. Typed(i)
  BY InstanceTypes DEF Context
<1>h. Kept(i)
  BY DEF Context, HistoryInv, Kept
<1>1. /\ \A c \in Caller : (Ends(c, i)' <=> Ends(c, i)) /\ cleanup'[c] = cleanup[c]
      /\ StopRuns(i)' <=> StopRuns(i)
      /\ StopLost(i)' <=> StopLost(i)
      /\ CleaningUp(i)' <=> CleaningUp(i)
      /\ server # "down" /\ renewal[i] = None /\ spawn[i] # "rejected"
      /\ \/ beat[i] # 0 /\ <<i, beat[i]>> \notin registered /\ registered' = registered
         \/ i \in live /\ \A n \in Nat : <<i, n>> \notin registered'
      /\ \A n \in Nat : <<i, n>> \in registered' => <<i, n>> \in registered
      /\ IF i \in live THEN renewal'[i] = record[i] /\ beat'[i] = beat[i] ELSE beat'[i] = 0 /\ renewal'[i] = None
      /\ UNCHANGED <<server, live, record, resources, file, child, spawn, exit, rpc, recovery, history>>
  BY EndsKept DEF Context, TypeInv, TypeOK, state, radius, Renew, Settled
<1>2. FreshInv(i)'
  BY <1>t, <1>h, <1>1 DEF Good, FreshInv
<1>3. LostInv(i)'
  BY <1>t, <1>h, <1>1 DEF Good, LostInv
<1>4. ProgressInv(i)'
  BY <1>t, <1>h, <1>1 DEF Good, ProgressInv
<1>5. ServerInv(i)'
  BY <1>t, <1>h, <1>1 DEF Good, ServerInv
<1>6. OwnedInv(i)'
  BY <1>t, <1>h, <1>1 DEF Good, OwnedInv
<1>7. MirrorInv(i)'
  BY <1>t, <1>h, <1>1 DEF Good, MirrorInv
<1>8. StatusInv(i)'
  BY <1>t, <1>h, <1>1 DEF Good, StatusInv, RegularInv, StatusInv, StopRuns
<1>9. RecoveredInv(i)'
  BY <1>t, <1>h, <1>1 DEF Good, RecoveredInv
<1>10. RadiusInv(i)'
  BY <1>t, <1>h, <1>1 DEF Good, RadiusInv, Excepted, BeatInv, RegularInv
<1>11. BeatInv(i)'
  BY <1>t, <1>h, <1>1 DEF Good, BeatInv
<1>12. NoPiInv(i)'
  BY <1>t, <1>h, <1>1 DEF Good, NoPiInv, RegularInv
<1>13. RejectedInv(i)'
  BY <1>t, <1>h, <1>1 DEF Good, RejectedInv
<1>14. StoppedInv(i)'
  BY <1>t, <1>h, <1>1 DEF Good, StoppedInv
<1>15. QED
  BY <1>2, <1>3, <1>4, <1>5, <1>6, <1>7, <1>8, <1>9, <1>10, <1>11, <1>12, <1>13, <1>14 DEF Good

\* The end of a renewal keeps what is said of its instance.
LEMMA OwnRenewed ==
  ASSUME Context, NEW i \in Inst, Good(i), Renewed(i)
  PROVE  Good(i)'
<1> USE DEF Begun, Alive, Over, Typed, Kept
<1>t. Typed(i)
  BY InstanceTypes DEF Context
<1>h. Kept(i)
  BY DEF Context, HistoryInv, Kept
<1>0. i \notin overtaken => spawn[i] = "online"
  <2>1. renewal[i] # None /\ spawn[i] \in Progress
    BY DEF Renewed, Context, TypeInv, TypeOK
  <2>2. CleaningUp(i) => Ends(i, i)
    BY SupervisorAssumption DEF Context, CallersInv, Ends
  <2>3. QED
    BY <1>h, <2>1, <2>2 DEF Progress, Good, RegularInv, NoPiInv, ProgressInv, FreshInv, LostInv
<1>1. PICK n \in Nat :
      /\ \A c \in Caller : (Ends(c, i)' <=> Ends(c, i)) /\ cleanup'[c] = cleanup[c]
      /\ StopRuns(i)' <=> StopRuns(i)
      /\ StopLost(i)' <=> StopLost(i)
      /\ CleaningUp(i)' <=> CleaningUp(i)
      /\ renewal[i] # None /\ renewal'[i] = None
      /\ \/ UNCHANGED <<record, resources, file, registered, beat>>
         \/ /\ n # 0 /\ beat'[i] = n
            /\ \A m \in Nat : <<i, m>> \in registered' <=> <<i, m>> \in registered \/ m = n
            /\ file'[i] \in Record /\ file'[i].status = renewal[i].status /\ file'[i].pi = n
            /\ i \in live => record'[i] = file'[i] /\ resources'[i].pi = n
            /\ i \notin live => record'[i] = record[i] /\ resources'[i] = resources[i]
      /\ resources'[i].rpc = resources[i].rpc
      /\ UNCHANGED <<server, live, child, spawn, exit, rpc, recovery, history>>
  <2>1. CASE UNCHANGED <<record, resources, file, radius>>
    BY <2>1, EndsKept DEF Context, TypeInv, TypeOK, radius, Renewed
  <2>2. CASE \E n \in Pi :
               LET r == [renewal[i] EXCEPT !.pi = n]
               IN /\ Registers(i, n)
                  /\ file' = [file EXCEPT ![i] = r]
                  /\ IF i \in live
                     THEN /\ record' = [record EXCEPT ![i] = r]
                          /\ resources' = [resources EXCEPT ![i].pi = n]
                     ELSE UNCHANGED <<record, resources>>
    <3>1. PICK n \in Pi :
            LET r == [renewal[i] EXCEPT !.pi = n]
            IN /\ Registers(i, n)
               /\ file' = [file EXCEPT ![i] = r]
               /\ IF i \in live
                  THEN /\ record' = [record EXCEPT ![i] = r]
                       /\ resources' = [resources EXCEPT ![i].pi = n]
                  ELSE UNCHANGED <<record, resources>>
      BY <2>2
    <3> DEFINE r == [renewal[i] EXCEPT !.pi = n]
    <3>2. n \in Nat \ {0} /\ beat'[i] = n
          /\ \A m \in Nat : <<i, m>> \in registered' <=> <<i, m>> \in registered \/ m = n
      BY <3>1, PiNumber DEF Registers, Context, TypeInv, TypeOK
    <3>3. renewal[i] \in Record
      BY <1>t DEF Renewed
    <3>4. r \in Record /\ r.status = renewal[i].status /\ r.pi = n
      BY <3>2, <3>3
    <3>5. /\ file' = [file EXCEPT ![i] = r]
          /\ IF i \in live
             THEN /\ record' = [record EXCEPT ![i] = r]
                  /\ resources' = [resources EXCEPT ![i] = [resources[i] EXCEPT !.pi = n]]
             ELSE UNCHANGED <<record, resources>>
      BY <3>1
    <3> HIDE DEF r
    <3>6. /\ file'[i] = r
          /\ i \in live => record'[i] = r /\ resources'[i] = [resources[i] EXCEPT !.pi = n]
          /\ i \notin live => record'[i] = record[i] /\ resources'[i] = resources[i]
      BY <3>5 DEF Context, TypeInv, TypeOK
    <3>7. [resources[i] EXCEPT !.pi = n].pi = n /\ [resources[i] EXCEPT !.pi = n].rpc = resources[i].rpc
      <4>1. resources[i] \in Resources
        BY DEF Context, TypeInv, TypeOK
      <4>2. QED
        BY <4>1 DEF Resources
    <3>8. QED
      BY <3>2, <3>4, <3>6, <3>7, EndsKept DEF Context, TypeInv, TypeOK, Renewed
  <2>3. QED
    BY <2>1, <2>2 DEF Renewed
<1>2. FreshInv(i)'
  BY <1>t, <1>h, <1>1 DEF Good, FreshInv
<1>3. LostInv(i)'
  BY <1>t, <1>h, <1>1 DEF Good, LostInv
<1>4. ProgressInv(i)'
  BY <1>t, <1>h, <1>1 DEF Good, ProgressInv
<1>5. ServerInv(i)'
  BY <1>t, <1>h, <1>1 DEF Good, ServerInv
<1>6. OwnedInv(i)'
  BY <1>t, <1>h, <1>1 DEF Good, OwnedInv
<1>7. MirrorInv(i)'
  BY <1>t, <1>h, <1>1 DEF Good, MirrorInv
<1>8. StatusInv(i)'
  BY <1>t, <1>h, <1>1 DEF Good, StatusInv, RegularInv
<1>9. RecoveredInv(i)'
  BY <1>t, <1>h, <1>1 DEF Good, RecoveredInv, LostInv
<1>10. RadiusInv(i)'
  BY <1>0, <1>t, <1>h, <1>1 DEF Good, RadiusInv, Excepted, RegularInv
<1>11. BeatInv(i)'
  BY <1>0, <1>t, <1>h, <1>1 DEF Good, BeatInv, RegularInv
<1>12. NoPiInv(i)'
  BY <1>t, <1>h, <1>1 DEF Good, NoPiInv, NoPiInv
<1>13. RejectedInv(i)'
  BY <1>t, <1>h, <1>1 DEF Good, RejectedInv
<1>14. StoppedInv(i)'
  BY <1>t, <1>h, <1>1 DEF Good, StoppedInv, RegularInv
<1>15. QED
  BY <1>2, <1>3, <1>4, <1>5, <1>6, <1>7, <1>8, <1>9, <1>10, <1>11, <1>12, <1>13, <1>14 DEF Good

\* A Pi that the recovery disconnects keeps what is said of its instance.
LEMMA OwnRecoverPi ==
  ASSUME Context, NEW i \in Inst, Good(i), RecoverPi(i)
  PROVE  Good(i)'
<1> USE DEF Begun, Alive, Over, Typed, Kept
<1>t. Typed(i)
  BY InstanceTypes DEF Context
<1>h. Kept(i)
  BY DEF Context, HistoryInv, Kept
<1>1. /\ \A c \in Caller : (Ends(c, i)' <=> Ends(c, i)) /\ cleanup'[c] = cleanup[c]
      /\ StopRuns(i)' <=> StopRuns(i)
      /\ StopLost(i)' <=> StopLost(i)
      /\ CleaningUp(i)' <=> CleaningUp(i)
      /\ server = "recovering" /\ recovery'.records = recovery.records
      /\ \A n \in Nat : <<i, n>> \in registered' <=> <<i, n>> \in registered /\ n # recovery.records[i].pi
      /\ UNCHANGED <<server, live, record, resources, file, child, spawn, exit, rpc, renewal, beat, history>>
  BY EndsKept DEF Context, TypeInv, TypeOK, state, radius, RecoverPi
<1>2. FreshInv(i)'
  BY <1>t, <1>h, <1>1 DEF Good, FreshInv
<1>3. LostInv(i)'
  BY <1>t, <1>h, <1>1 DEF Good, LostInv
<1>4. ProgressInv(i)'
  BY <1>t, <1>h, <1>1 DEF Good, ProgressInv
<1>5. ServerInv(i)'
  BY <1>t, <1>h, <1>1 DEF Good, ServerInv
<1>6. OwnedInv(i)'
  BY <1>t, <1>h, <1>1 DEF Good, OwnedInv
<1>7. MirrorInv(i)'
  BY <1>t, <1>h, <1>1 DEF Good, MirrorInv
<1>8. StatusInv(i)'
  BY <1>t, <1>h, <1>1 DEF Good, StatusInv
<1>9. RecoveredInv(i)'
  BY <1>t, <1>h, <1>1 DEF Good, RecoveredInv
<1>10. RadiusInv(i)'
  BY <1>t, <1>h, <1>1 DEF Good, RadiusInv, Excepted
<1>11. BeatInv(i)'
  BY <1>t, <1>h, <1>1 DEF Good, BeatInv
<1>12. NoPiInv(i)'
  BY <1>t, <1>h, <1>1 DEF Good, NoPiInv
<1>13. RejectedInv(i)'
  BY <1>t, <1>h, <1>1 DEF Good, RejectedInv
<1>14. StoppedInv(i)'
  BY <1>t, <1>h, <1>1 DEF Good, StoppedInv
<1>15. QED
  BY <1>2, <1>3, <1>4, <1>5, <1>6, <1>7, <1>8, <1>9, <1>10, <1>11, <1>12, <1>13, <1>14 DEF Good

\* A cleanup that begins is one more that ends its instance.
LEMMA EndsBegin ==
  ASSUME TypeInv, NEW i \in Inst, NEW c \in Caller, CleanupBegins(c, i), ~CleaningUp(c)
  PROVE  /\ \A d \in Caller : /\ Ends(d, i)' <=> Ends(d, i) \/ d = c
                              /\ d # c => cleanup'[d] = cleanup[d]
         /\ cleanup'[c].of = i /\ cleanup'[c].at = "disconnect" /\ cleanup'[c].rpc = resources[i].rpc
         /\ cleanup'[c].pi = IF resources[i].pi = 0 THEN 0 ELSE record[i].pi
         /\ beat'[i] = IF resources[i].pi = 0 THEN beat[i] ELSE 0
         /\ CleaningUp(c)'
BY DEF CleanupBegins, Ends, CleaningUp, TypeInv, TypeOK

\* A cleanup that goes on is the only one that changes, and still ends its instance.
LEMMA EndsMove ==
  ASSUME TypeInv, NEW c \in Caller, CleaningUp(c),
         cleanup' = [cleanup EXCEPT ![c].at = "dispose"], NEW i \in Inst, i = cleanup[c].of
  PROVE  /\ \A d \in Caller : /\ Ends(d, i)' <=> Ends(d, i)
                              /\ d # c => cleanup'[d] = cleanup[d]
         /\ cleanup'[c].of = i /\ cleanup'[c].at = "dispose" /\ cleanup'[c].rpc = cleanup[c].rpc
         /\ cleanup'[c].pi = cleanup[c].pi
         /\ Ends(c, i)
         /\ StopRuns(i)' <=> StopRuns(i)
         /\ StopLost(i)' <=> StopLost(i)
<1>1. /\ \A d \in Caller : d # c => cleanup'[d] = cleanup[d]
      /\ cleanup'[c] = [cleanup[c] EXCEPT !.at = "dispose"]
  BY DEF TypeInv, TypeOK
<1>2. /\ cleanup'[c].of = i /\ cleanup'[c].at = "dispose" /\ cleanup'[c].rpc = cleanup[c].rpc
      /\ cleanup'[c].pi = cleanup[c].pi
  <2>1. cleanup[c] \in Cleanup
    BY DEF TypeInv, TypeOK
  <2>2. QED
    BY <1>1, <2>1 DEF Cleanup
<1>3. /\ \A d \in Caller : Ends(d, i)' <=> Ends(d, i)
      /\ Ends(c, i)
  BY <1>1, <1>2 DEF Ends, CleaningUp
<1>4. \A d \in Stop : cleanup'[d].of = i /\ cleanup'[d].at = "lost" <=> cleanup[d].of = i /\ cleanup[d].at = "lost"
  BY <1>1, <1>2 DEF CleaningUp
<1>5. QED
  BY <1>1, <1>2, <1>3, <1>4 DEF StopRuns, StopLost

\* A cleanup that is over ends its instance no more.
LEMMA EndsOver ==
  ASSUME TypeInv, NEW c \in Caller, CleaningUp(c), NEW at \in {"done", "failed"},
         cleanup' = [cleanup EXCEPT ![c].at = at], NEW i \in Inst, i = cleanup[c].of
  PROVE  /\ Ends(c, i) /\ \A d \in Caller : d # c => cleanup'[d] = cleanup[d]
         /\ \A d \in Caller : Ends(d, i)' <=> Ends(d, i) /\ d # c
         /\ cleanup'[c].at = at /\ cleanup'[c].rpc = cleanup[c].rpc /\ cleanup'[c].pi = cleanup[c].pi
         /\ StopRuns(i)' => StopRuns(i)
         /\ StopLost(i)' <=> StopLost(i)
<1>1. /\ \A d \in Caller : d # c => cleanup'[d] = cleanup[d]
      /\ cleanup'[c] = [cleanup[c] EXCEPT !.at = at]
  BY DEF TypeInv, TypeOK
<1>2. /\ cleanup'[c].of = i /\ cleanup'[c].at = at /\ cleanup'[c].rpc = cleanup[c].rpc
      /\ cleanup'[c].pi = cleanup[c].pi
  <2>1. cleanup[c] \in Cleanup
    BY DEF TypeInv, TypeOK
  <2>2. QED
    BY <1>1, <2>1 DEF Cleanup
<1>3. /\ \A d \in Caller : Ends(d, i)' <=> Ends(d, i) /\ d # c
      /\ Ends(c, i)
  BY <1>1, <1>2 DEF Ends, CleaningUp
<1>4. \A d \in Stop : cleanup'[d].of = i /\ cleanup'[d].at = "lost" <=> cleanup[d].of = i /\ cleanup[d].at = "lost"
  BY <1>1, <1>2 DEF CleaningUp
<1>5. QED
  BY <1>1, <1>2, <1>3, <1>4 DEF StopRuns, StopLost

\* What an instance is dropped with, and what is left of its record.
LEMMA DropIs ==
  ASSUME TypeInv, NEW i \in Inst, NEW c \in Caller, i = cleanup[c].of, c \in Inst => c = i,
         c = i => c \notin Stop, NEW at \in {"done", "failed"}, DropInstance(c, at)
  PROVE  /\ i \notin live' /\ record'[i].status = "stopped" /\ record'[i] \in Record
         /\ file'[i] \in {None, record'[i]} /\ (c \in Stop => file'[i] = None)
         /\ spawn'[i] = IF c = i THEN "failed" ELSE spawn[i]
<1> DEFINE r == [WithStatus(i, "stopped") EXCEPT !.pi = IF at = "done" THEN 0 ELSE @]
<1>1. r \in Record /\ r.status = "stopped"
  <2>1. record[i] \in Record
    BY DEF TypeInv, TypeOK
  <2>2. r = [record[i] EXCEPT !.status = "stopped", !.pi = IF at = "done" THEN 0 ELSE @]
    BY <2>1 DEF WithStatus
  <2>3. QED
    BY <2>1, <2>2
<1>2. /\ live' = live \ {i} /\ record' = [record EXCEPT ![i] = r]
      /\ file' = [file EXCEPT ![i] = IF c \in Stop THEN None ELSE r]
      /\ spawn' = IF c \in Stop THEN spawn ELSE [spawn EXCEPT ![c] = "failed"]
  BY DEF DropInstance
<1> HIDE DEF r
<1>3. QED
  BY <1>1, <1>2 DEF TypeInv, TypeOK

\* The exit of a child keeps what is said of its instance.
LEMMA OwnChildExits ==
  ASSUME Context, NEW i \in Inst, Good(i), ChildExits(i)
  PROVE  Good(i)'
<1> USE DEF Begun, Alive, Over, Typed, Kept
<1>t. Typed(i)
  BY InstanceTypes DEF Context
<1>h. Kept(i)
  BY DEF Context, HistoryInv, Kept
<1>1. /\ \A c \in Caller : (Ends(c, i)' <=> Ends(c, i)) /\ cleanup'[c] = cleanup[c]
      /\ StopRuns(i)' <=> StopRuns(i)
      /\ StopLost(i)' <=> StopLost(i)
      /\ CleaningUp(i)' <=> CleaningUp(i)
      /\ Alive(i) /\ child'[i] = "exited" /\ rpc'[i] = "none"
      /\ spawn[i] # "rejected" /\ spawn'[i] = IF spawn[i] = "state" THEN "rejected" ELSE spawn[i]
      /\ \/ /\ ~Handled(i)
            /\ UNCHANGED <<live, record, resources, file, exit, beat>>
         \/ /\ Handled(i) /\ i \in live
            /\ record'[i].status = "error" /\ record'[i].pi = record[i].pi /\ file'[i] = record'[i]
            /\ record'[i] \in Record
            /\ resources'[i].rpc = FALSE /\ resources'[i].pi = resources[i].pi
            /\ IF resources[i].pi = 0
               THEN i \notin live' /\ exit'[i] = exit[i] /\ beat'[i] = beat[i]
               ELSE i \in live' /\ exit'[i] = record[i].pi /\ beat'[i] = 0
      /\ UNCHANGED <<server, renewal, recovery, registered, history>>
  <2>1. /\ Alive(i) /\ child'[i] = "exited" /\ rpc'[i] = "none"
        /\ spawn[i] # "rejected" /\ spawn'[i] = IF spawn[i] = "state" THEN "rejected" ELSE spawn[i]
        /\ cleanup' = cleanup
        /\ UNCHANGED <<server, renewal, recovery, registered, history>>
    BY DEF Context, TypeInv, TypeOK, ChildExits, Settled
  <2>2. CASE ~Handled(i)
    BY <2>1, <2>2, EndsKept DEF ChildExits, state
  <2>3. CASE Handled(i)
    <3>1. record' = [record EXCEPT ![i] = WithStatus(i, "error")]
          /\ file' = [file EXCEPT ![i] = WithStatus(i, "error")]
          /\ resources' = [resources EXCEPT ![i] = [resources[i] EXCEPT !.rpc = FALSE]]
      BY <2>3 DEF ChildExits, Upsert
    <3>2. /\ WithStatus(i, "error") \in Record /\ WithStatus(i, "error").status = "error"
          /\ WithStatus(i, "error").pi = record[i].pi
      BY <1>t DEF WithStatus
    <3>3. record'[i] = WithStatus(i, "error") /\ file'[i] = WithStatus(i, "error")
      BY <3>1 DEF Context, TypeInv, TypeOK
    <3>4. resources'[i].rpc = FALSE /\ resources'[i].pi = resources[i].pi
      <4>1. resources \in [Inst -> Resources]
        BY DEF Context, TypeInv, TypeOK
      <4>2. QED
        BY <3>1, <4>1 DEF Resources
    <3>5. /\ i \in live
          /\ IF resources[i].pi = 0
             THEN i \notin live' /\ exit'[i] = exit[i] /\ beat'[i] = beat[i]
             ELSE i \in live' /\ exit'[i] = record[i].pi /\ beat'[i] = 0
      BY <2>3 DEF ChildExits, Handled, Context, TypeInv, TypeOK
    <3>6. QED
      BY <2>1, <2>3, <3>2, <3>3, <3>4, <3>5, EndsKept
  <2>4. QED
    BY <2>2, <2>3
<1>2. FreshInv(i)'
  BY <1>t, <1>h, <1>1 DEF Good, FreshInv
<1>3. LostInv(i)'
  BY <1>t, <1>h, <1>1 DEF Good, LostInv, LostInv
<1>4. ProgressInv(i)'
  BY <1>t, <1>h, <1>1 DEF Good, ProgressInv
<1>5. ServerInv(i)'
  BY <1>t, <1>h, <1>1 DEF Good, ServerInv
<1>6. OwnedInv(i)'
  BY <1>t, <1>h, <1>1 DEF Good, OwnedInv
<1>7. MirrorInv(i)'
  BY <1>t, <1>h, <1>1 DEF Good, MirrorInv
<1>8. StatusInv(i)'
  BY <1>t, <1>h, <1>1 DEF Good, StatusInv
<1>9. RecoveredInv(i)'
  BY <1>t, <1>h, <1>1 DEF Good, RecoveredInv, LostInv
<1>10. RadiusInv(i)'
  BY <1>t, <1>h, <1>1 DEF Good, RadiusInv, Excepted, LostInv, FreshInv
<1>11. BeatInv(i)'
  BY <1>t, <1>h, <1>1 DEF Good, BeatInv
<1>12. NoPiInv(i)'
  BY <1>t, <1>h, <1>1 DEF Good, NoPiInv, Handled
<1>13. RejectedInv(i)'
  <2>1. ASSUME i \notin overtaken, spawn[i] = "state", NEW c \in Caller, Ends(c, i) PROVE FALSE
    <3>1. Due(c)
      BY <2>1 DEF Good, NoPiInv, ProgressInv, Due, Ends, CleaningUp
    <3>2. QED
      BY <3>1 DEF ChildExits, Settled, Context, TypeInv, TypeOK
  <2>2. QED
    BY <1>t, <1>h, <1>1, <2>1 DEF RejectedInv
<1>14. StoppedInv(i)'
  BY <1>t, <1>h, <1>1 DEF Good, StoppedInv
<1>15. QED
  BY <1>2, <1>3, <1>4, <1>5, <1>6, <1>7, <1>8, <1>9, <1>10, <1>11, <1>12, <1>13, <1>14 DEF Good

\* The failure of a spawn keeps what is said of its instance.
LEMMA OwnFailSpawn ==
  ASSUME Context, NEW i \in Inst, Good(i), FailSpawn(i)
  PROVE  Good(i)'
<1> USE DEF Begun, Alive, Over, Typed, Kept
<1>t. Typed(i)
  BY InstanceTypes DEF Context
<1>h. Kept(i)
  BY DEF Context, HistoryInv, Kept
<1>1. /\ \A d \in Caller : (Ends(d, i)' <=> Ends(d, i) \/ d = i) /\ (d # i => cleanup'[d] = cleanup[d])
      /\ cleanup'[i].of = i /\ cleanup'[i].at = "disconnect" /\ cleanup'[i].rpc = resources[i].rpc
      /\ cleanup'[i].pi = IF resources[i].pi = 0 THEN 0 ELSE record[i].pi
      /\ beat'[i] = IF resources[i].pi = 0 THEN beat[i] ELSE 0
      /\ CleaningUp(i)'
      /\ i \notin Stop /\ ~Ends(i, i)
      /\ StopRuns(i)' <=> StopRuns(i)
      /\ StopLost(i)' <=> StopLost(i)
      /\ spawn[i] \in {"rejected", "register"} /\ spawn'[i] = "failing"
      /\ record'[i] \in Record /\ record'[i].status = "error" /\ record'[i].pi = record[i].pi /\ file'[i] = record'[i]
      /\ UNCHANGED <<server, live, resources, child, exit, rpc, renewal, recovery, registered, history>>
  <2>1. spawn[i] \in {"rejected", "register"} /\ spawn'[i] = "failing"
    BY DEF FailSpawn, Context, TypeInv, TypeOK
  <2>2. ~CleaningUp(i) /\ CleanupBegins(i, i)
    BY <2>1 DEF Good, ProgressInv, FailSpawn
  <2>3. /\ \A d \in Caller : (Ends(d, i)' <=> Ends(d, i) \/ d = i) /\ (d # i => cleanup'[d] = cleanup[d])
        /\ cleanup'[i].of = i /\ cleanup'[i].at = "disconnect" /\ cleanup'[i].rpc = resources[i].rpc
        /\ cleanup'[i].pi = IF resources[i].pi = 0 THEN 0 ELSE record[i].pi
        /\ beat'[i] = IF resources[i].pi = 0 THEN beat[i] ELSE 0
        /\ CleaningUp(i)'
    BY <2>2, EndsBegin DEF Context
  <2>4. (StopRuns(i)' <=> StopRuns(i)) /\ (StopLost(i)' <=> StopLost(i))
    BY <2>3, SupervisorAssumption DEF StopRuns, StopLost
  <2>5. /\ WithStatus(i, "error") \in Record /\ WithStatus(i, "error").status = "error"
        /\ WithStatus(i, "error").pi = record[i].pi
    BY <1>t DEF WithStatus
  <2>6. record'[i] = WithStatus(i, "error") /\ file'[i] = WithStatus(i, "error")
    BY DEF FailSpawn, Upsert, Context, TypeInv, TypeOK
  <2>7. QED
    BY <2>1, <2>2, <2>3, <2>4, <2>5, <2>6, SupervisorAssumption DEF FailSpawn, Ends
<1>2. FreshInv(i)'
  BY <1>t, <1>h, <1>1 DEF Good, FreshInv
<1>3. LostInv(i)'
  BY <1>t, <1>h, <1>1 DEF Good, LostInv
<1>4. ProgressInv(i)'
  BY <1>t, <1>h, <1>1 DEF Good, ProgressInv
<1>5. ServerInv(i)'
  BY <1>t, <1>h, <1>1 DEF Good, ServerInv
<1>6. OwnedInv(i)'
  BY <1>t, <1>h, <1>1 DEF Good, OwnedInv
<1>7. MirrorInv(i)'
  BY <1>t, <1>h, <1>1 DEF Good, MirrorInv
<1>8. StatusInv(i)'
  BY <1>t, <1>h, <1>1 DEF Good, StatusInv
<1>9. RecoveredInv(i)'
  BY <1>t, <1>h, <1>1 DEF Good, RecoveredInv
<1>10. RadiusInv(i)'
  BY <1>t, <1>h, <1>1 DEF Good, RadiusInv, Excepted
<1>11. BeatInv(i)'
  BY <1>t, <1>h, <1>1 DEF Good, BeatInv, NoPiInv
<1>12. NoPiInv(i)'
  BY <1>t, <1>h, <1>1 DEF Good, NoPiInv
<1>13. RejectedInv(i)'
  BY <1>t, <1>h, <1>1 DEF Good, RejectedInv
<1>14. StoppedInv(i)'
  BY <1>t, <1>h, <1>1 DEF Good, StoppedInv, StoppedInv
<1>15. QED
  BY <1>2, <1>3, <1>4, <1>5, <1>6, <1>7, <1>8, <1>9, <1>10, <1>11, <1>12, <1>13, <1>14 DEF Good

\* The begin of a stop keeps what is said of its instance.
LEMMA OwnStopInstance ==
  ASSUME Context, NEW i \in Inst, Good(i), NEW c \in Stop, StopInstance(c, i)
  PROVE  Good(i)'
<1> USE DEF Begun, Alive, Over, Typed, Kept
<1>t. Typed(i)
  BY InstanceTypes DEF Context
<1>h. Kept(i)
  BY DEF Context, HistoryInv, Kept
<1>1. /\ \A d \in Caller : (Ends(d, i)' <=> Ends(d, i) \/ d = c) /\ (d # c => cleanup'[d] = cleanup[d])
      /\ cleanup'[c].of = i /\ cleanup'[c].at = "disconnect" /\ cleanup'[c].rpc = resources[i].rpc
      /\ cleanup'[c].pi = IF resources[i].pi = 0 THEN 0 ELSE record[i].pi
      /\ beat'[i] = IF resources[i].pi = 0 THEN beat[i] ELSE 0
      /\ cleanup'[i] = cleanup[i] /\ (CleaningUp(i)' <=> CleaningUp(i))
      /\ StopRuns(i)'
      /\ StopLost(i)' <=> StopLost(i)
      /\ i \in live /\ server # "down" /\ spawn[i] # "rejected" /\ ~Ends(c, i)
      /\ record'[i] \in Record /\ record'[i].status = "stopping" /\ record'[i].pi = record[i].pi /\ file'[i] = record'[i]
      /\ UNCHANGED <<server, live, resources, child, spawn, exit, rpc, renewal, recovery, registered, history>>
  <2>1. c \in Caller /\ c # i /\ cleanup[c].at = "ready" /\ cleanup[c].of # i
    BY SupervisorAssumption DEF StopInstance, Context, CallersInv
  <2>2. ~CleaningUp(c) /\ ~Ends(c, i) /\ CleanupBegins(c, i)
    BY <2>1 DEF CleaningUp, Ends, StopInstance
  <2>3. /\ \A d \in Caller : (Ends(d, i)' <=> Ends(d, i) \/ d = c) /\ (d # c => cleanup'[d] = cleanup[d])
        /\ cleanup'[c].of = i /\ cleanup'[c].at = "disconnect" /\ cleanup'[c].rpc = resources[i].rpc
        /\ cleanup'[c].pi = IF resources[i].pi = 0 THEN 0 ELSE record[i].pi
        /\ beat'[i] = IF resources[i].pi = 0 THEN beat[i] ELSE 0
    BY <2>1, <2>2, EndsBegin DEF Context
  <2>4. cleanup'[i] = cleanup[i] /\ (CleaningUp(i)' <=> CleaningUp(i))
    BY <2>1, <2>3 DEF CleaningUp
  <2>5. StopRuns(i)' /\ (StopLost(i)' <=> StopLost(i))
    BY <2>1, <2>3 DEF StopRuns, StopLost
  <2>6. /\ WithStatus(i, "stopping") \in Record /\ WithStatus(i, "stopping").status = "stopping"
        /\ WithStatus(i, "stopping").pi = record[i].pi
    BY <1>t DEF WithStatus
  <2>7. record'[i] = WithStatus(i, "stopping") /\ file'[i] = WithStatus(i, "stopping")
    BY DEF StopInstance, Upsert, Context, TypeInv, TypeOK
  <2>8. i \in live /\ server # "down" /\ spawn[i] # "rejected"
    BY DEF StopInstance, Settled
  <2>9. QED
    BY <2>2, <2>3, <2>4, <2>5, <2>6, <2>7, <2>8 DEF StopInstance
<1>2. FreshInv(i)'
  BY <1>t, <1>h, <1>1 DEF Good, FreshInv, FreshInv
<1>3. LostInv(i)'
  BY <1>t, <1>h, <1>1 DEF Good, LostInv
<1>4. ProgressInv(i)'
  BY <1>t, <1>h, <1>1 DEF Good, ProgressInv
<1>5. ServerInv(i)'
  BY <1>t, <1>h, <1>1 DEF Good, ServerInv
<1>6. OwnedInv(i)'
  BY <1>t, <1>h, <1>1 DEF Good, OwnedInv, UncrossedInv
<1>7. MirrorInv(i)'
  BY <1>t, <1>h, <1>1 DEF Good, MirrorInv
<1>8. StatusInv(i)'
  BY <1>t, <1>h, <1>1 DEF Good, StatusInv
<1>9. RecoveredInv(i)'
  BY <1>t, <1>h, <1>1 DEF Good, RecoveredInv, LostInv
<1>10. RadiusInv(i)'
  BY <1>t, <1>h, <1>1 DEF Good, RadiusInv, Excepted, LostInv, FreshInv
<1>11. BeatInv(i)'
  BY <1>t, <1>h, <1>1 DEF Good, BeatInv
<1>12. NoPiInv(i)'
  BY <1>t, <1>h, <1>1 DEF Good, NoPiInv
<1>13. RejectedInv(i)'
  BY <1>t, <1>h, <1>1 DEF Good, RejectedInv
<1>14. StoppedInv(i)'
  BY <1>t, <1>h, <1>1 DEF Good, StoppedInv
<1>15. QED
  BY <1>2, <1>3, <1>4, <1>5, <1>6, <1>7, <1>8, <1>9, <1>10, <1>11, <1>12, <1>13, <1>14 DEF Good

\* A Pi that a cleanup disconnects keeps what is said of its instance.
LEMMA OwnDisconnected ==
  ASSUME Context, NEW i \in Inst, Good(i), NEW c \in Caller, i = cleanup[c].of, Disconnected(c)
  PROVE  Good(i)'
<1> USE DEF Begun, Alive, Over, Typed, Kept
<1>t. Typed(i)
  BY InstanceTypes DEF Context
<1>h. Kept(i)
  BY DEF Context, HistoryInv, Kept
<1>0. cleanup[c].of = i /\ CleaningUp(c) /\ (c \in Inst => c = i) /\ (c = i => c \notin Stop)
  BY SupervisorAssumption DEF Disconnected, CleaningUp, Context, CallersInv
<1>1. /\ cleanup[c].of = i /\ Ends(c, i)
      /\ \A d \in Caller : d # c => cleanup'[d] = cleanup[d]
      /\ cleanup'[c].rpc = cleanup[c].rpc /\ cleanup'[c].pi = cleanup[c].pi
      /\ StopLost(i)' <=> StopLost(i)
      /\ \A d \in Caller : Ends(d, i)' <=> Ends(d, i)
      /\ StopRuns(i)' <=> StopRuns(i)
      /\ CleaningUp(i)' <=> CleaningUp(i)
      /\ cleanup[c].at = "disconnect" /\ cleanup'[c].at = "dispose"
      /\ \A n \in Nat : <<i, n>> \in registered' <=> <<i, n>> \in registered /\ n # cleanup[c].pi
      /\ resources'[i].rpc = (IF cleanup[c].rpc THEN FALSE ELSE resources[i].rpc) /\ resources'[i].pi = 0
      /\ record'[i] \in Record /\ record'[i].status = record[i].status /\ record'[i].pi = 0
      /\ child'[i] = IF cleanup[c].rpc /\ Alive(i) THEN "terminating" ELSE child[i]
      /\ spawn'[i] = IF cleanup[c].rpc /\ spawn[i] = "state" THEN "rejected" ELSE spawn[i]
      /\ rpc'[i] = IF cleanup[c].rpc THEN "none" ELSE rpc[i]
      /\ UNCHANGED <<server, live, file, exit, renewal, recovery, beat, history>>
  <2>1. cleanup' = [cleanup EXCEPT ![c].at = "dispose"]
    BY DEF Disconnected
  <2>2. /\ Ends(c, i) /\ \A d \in Caller : d # c => cleanup'[d] = cleanup[d]
        /\ \A d \in Caller : Ends(d, i)' <=> Ends(d, i)
        /\ cleanup'[c].at = "dispose" /\ cleanup'[c].rpc = cleanup[c].rpc /\ cleanup'[c].pi = cleanup[c].pi
        /\ (StopRuns(i)' <=> StopRuns(i)) /\ (StopLost(i)' <=> StopLost(i))
    BY <1>0, <2>1, EndsMove DEF Context
  <2>3. CleaningUp(i)' <=> CleaningUp(i)
    BY <1>0, <2>2 DEF CleaningUp
  <2>4. record'[i] = [record[i] EXCEPT !.pi = 0]
        /\ resources'[i] = [rpc |-> IF cleanup[c].rpc THEN FALSE ELSE resources[i].rpc, pi |-> 0]
    <3>1. record' = [record EXCEPT ![i] = [record[i] EXCEPT !.pi = 0]]
          /\ resources' = [resources EXCEPT ![i] =
               [rpc |-> IF cleanup[c].rpc THEN FALSE ELSE resources[i].rpc, pi |-> 0]]
      BY <1>0 DEF Disconnected
    <3>2. record \in [Inst -> Record] /\ resources \in [Inst -> Resources]
      BY DEF Context, TypeInv, TypeOK
    <3>3. QED
      BY <3>1, <3>2
  <2>5. /\ \A n \in Nat : <<i, n>> \in registered' <=> <<i, n>> \in registered /\ n # cleanup[c].pi
        /\ child'[i] = IF cleanup[c].rpc /\ Alive(i) THEN "terminating" ELSE child[i]
        /\ spawn'[i] = IF cleanup[c].rpc /\ spawn[i] = "state" THEN "rejected" ELSE spawn[i]
        /\ rpc'[i] = IF cleanup[c].rpc THEN "none" ELSE rpc[i]
    BY <1>0 DEF Disconnected, Context, TypeInv, TypeOK
  <2>6. record'[i] \in Record /\ record'[i].status = record[i].status /\ record'[i].pi = 0
    BY <1>t, <2>4
  <2>7. resources'[i].rpc = (IF cleanup[c].rpc THEN FALSE ELSE resources[i].rpc) /\ resources'[i].pi = 0
    BY <2>4
  <2>8. cleanup[c].at = "disconnect"
        /\ UNCHANGED <<server, live, file, exit, renewal, recovery, beat, history>>
    BY DEF Disconnected
  <2>9. QED
    BY <1>0, <2>2, <2>3, <2>5, <2>6, <2>7, <2>8
<1>2. FreshInv(i)'
  BY <1>t, <1>h, <1>1 DEF Good, FreshInv, FreshInv
<1>3. LostInv(i)'
  BY <1>t, <1>h, <1>1 DEF Good, LostInv, LostInv
<1>4. ProgressInv(i)'
  BY <1>t, <1>h, <1>1 DEF Good, ProgressInv
<1>5. ServerInv(i)'
  BY <1>t, <1>h, <1>1 DEF Good, ServerInv
<1>6. OwnedInv(i)'
  BY <1>t, <1>h, <1>1 DEF Good, OwnedInv
<1>7. MirrorInv(i)'
  BY <1>t, <1>h, <1>1 DEF Good, MirrorInv
<1>8. StatusInv(i)'
  BY <1>t, <1>h, <1>1 DEF Good, StatusInv
<1>9. RecoveredInv(i)'
  BY <1>t, <1>h, <1>1 DEF Good, RecoveredInv, LostInv
<1>10. RadiusInv(i)'
  BY <1>t, <1>h, <1>1 DEF Good, RadiusInv, Excepted, FreshInv, LostInv
<1>11. BeatInv(i)'
  BY <1>t, <1>h, <1>1 DEF Good, BeatInv
<1>12. NoPiInv(i)'
  BY <1>t, <1>h, <1>1 DEF Good, NoPiInv
<1>13. RejectedInv(i)'
  BY <1>t, <1>h, <1>1 DEF Good, RejectedInv, ProgressInv
<1>14. StoppedInv(i)'
  BY <1>t, <1>h, <1>1 DEF Good, StoppedInv
<1>15. QED
  BY <1>2, <1>3, <1>4, <1>5, <1>6, <1>7, <1>8, <1>9, <1>10, <1>11, <1>12, <1>13, <1>14 DEF Good

\* A Pi that cannot be disconnected keeps what is said of its instance.
LEMMA OwnDisconnectFails ==
  ASSUME Context, NEW i \in Inst, Good(i), NEW c \in Caller, i = cleanup[c].of, DisconnectFails(c)
  PROVE  Good(i)'
<1> USE DEF Begun, Alive, Over, Typed, Kept
<1>t. Typed(i)
  BY InstanceTypes DEF Context
<1>h. Kept(i)
  BY DEF Context, HistoryInv, Kept
<1>0. cleanup[c].of = i /\ CleaningUp(c) /\ (c \in Inst => c = i) /\ (c = i => c \notin Stop)
  BY SupervisorAssumption DEF DisconnectFails, CleaningUp, Context, CallersInv
<1>1. /\ cleanup[c].of = i /\ Ends(c, i)
      /\ \A d \in Caller : d # c => cleanup'[d] = cleanup[d]
      /\ cleanup'[c].rpc = cleanup[c].rpc /\ cleanup'[c].pi = cleanup[c].pi
      /\ StopLost(i)' <=> StopLost(i)
      /\ \A d \in Caller : Ends(d, i)' <=> Ends(d, i) /\ d # c
      /\ StopRuns(i)' => StopRuns(i)
      /\ CleaningUp(i)' <=> CleaningUp(i) /\ c # i
      /\ spawn'[i] = IF c = i THEN "failed" ELSE spawn[i]
      /\ i \notin live'
      /\ record'[i] \in Record /\ record'[i].status = "stopped"
      /\ file'[i] \in {None, record'[i]} /\ (c \in Stop => file'[i] = None)
      /\ cleanup[c].at = "disconnect"
      /\ i \in history'.stranded /\ history'.early = history.early /\ history'.stopped = history.stopped
      /\ UNCHANGED <<server, resources, child, exit, rpc, renewal, recovery, registered, beat>>
  <2>1. cleanup' = [cleanup EXCEPT ![c].at = "failed"] /\ DropInstance(c, "failed")
    BY DEF DisconnectFails, DropInstance
  <2>2. /\ Ends(c, i) /\ \A d \in Caller : d # c => cleanup'[d] = cleanup[d]
        /\ \A d \in Caller : Ends(d, i)' <=> Ends(d, i) /\ d # c
        /\ cleanup'[c].at = "failed" /\ cleanup'[c].rpc = cleanup[c].rpc /\ cleanup'[c].pi = cleanup[c].pi
        /\ (StopRuns(i)' => StopRuns(i)) /\ (StopLost(i)' <=> StopLost(i))
    <3>1. cleanup' = [cleanup EXCEPT ![c].at = "failed"] /\ TypeInv
      BY <2>1 DEF Context
    <3>2. QED
      BY <1>0, <3>1, EndsOver
  <2>3. CleaningUp(i)' <=> CleaningUp(i) /\ c # i
    BY <1>0, <2>2 DEF CleaningUp
  <2>4. /\ i \notin live' /\ record'[i].status = "stopped" /\ record'[i] \in Record
        /\ file'[i] \in {None, record'[i]} /\ (c \in Stop => file'[i] = None)
        /\ spawn'[i] = IF c = i THEN "failed" ELSE spawn[i]
    BY <1>0, <2>1, DropIs DEF Context
  <2>5. i \in history'.stranded /\ history'.early = history.early /\ history'.stopped = history.stopped
    BY <1>0 DEF DisconnectFails, Context, TypeInv, History
  <2>6. QED
    BY <1>0, <2>2, <2>3, <2>4, <2>5 DEF DisconnectFails, radius
<1>2. FreshInv(i)'
  BY <1>t, <1>h, <1>1 DEF Good, FreshInv, FreshInv
<1>3. LostInv(i)'
  BY <1>t, <1>h, <1>1 DEF Good, LostInv, LostInv
<1>4. ProgressInv(i)'
  BY <1>t, <1>h, <1>1 DEF Good, ProgressInv, ProgressInv, LostInv
<1>5. ServerInv(i)'
  BY <1>t, <1>h, <1>0, <1>1 DEF Good, ServerInv, ProgressInv
<1>6. OwnedInv(i)'
  BY <1>t, <1>h, <1>1 DEF Good, OwnedInv
<1>7. MirrorInv(i)'
  BY <1>t, <1>h, <1>1 DEF Good, MirrorInv
<1>8. StatusInv(i)'
  BY <1>t, <1>h, <1>1 DEF Good, StatusInv, StopRuns
<1>9. RecoveredInv(i)'
  BY <1>t, <1>h, <1>1 DEF Good, RecoveredInv, LostInv
<1>10. RadiusInv(i)'
  BY <1>t, <1>h, <1>1 DEF Good, RadiusInv, Excepted
<1>11. BeatInv(i)'
  BY <1>t, <1>h, <1>1 DEF Good, BeatInv
<1>12. NoPiInv(i)'
  BY <1>t, <1>h, <1>1 DEF Good, NoPiInv
<1>13. RejectedInv(i)'
  BY <1>t, <1>h, <1>1 DEF Good, RejectedInv
<1>14. StoppedInv(i)'
  BY <1>t, <1>h, <1>1 DEF Good, StoppedInv, StoppedInv
<1>15. QED
  BY <1>2, <1>3, <1>4, <1>5, <1>6, <1>7, <1>8, <1>9, <1>10, <1>11, <1>12, <1>13, <1>14 DEF Good

\* A cleanup that is over keeps what is said of its instance.
LEMMA OwnDisposed ==
  ASSUME Context, NEW i \in Inst, Good(i), NEW c \in Caller, i = cleanup[c].of, Disposed(c)
  PROVE  Good(i)'
<1> USE DEF Begun, Alive, Over, Typed, Kept
<1>t. Typed(i)
  BY InstanceTypes DEF Context
<1>h. Kept(i)
  BY DEF Context, HistoryInv, Kept
<1>0. cleanup[c].of = i /\ CleaningUp(c) /\ (c \in Inst => c = i) /\ (c = i => c \notin Stop)
  BY SupervisorAssumption DEF Disposed, CleaningUp, Context, CallersInv
<1>1. /\ cleanup[c].of = i /\ Ends(c, i)
      /\ \A d \in Caller : d # c => cleanup'[d] = cleanup[d]
      /\ cleanup'[c].rpc = cleanup[c].rpc /\ cleanup'[c].pi = cleanup[c].pi
      /\ StopLost(i)' <=> StopLost(i)
      /\ \A d \in Caller : Ends(d, i)' <=> Ends(d, i) /\ d # c
      /\ StopRuns(i)' => StopRuns(i)
      /\ CleaningUp(i)' <=> CleaningUp(i) /\ c # i
      /\ spawn'[i] = IF c = i THEN "failed" ELSE spawn[i]
      /\ i \notin live'
      /\ record'[i] \in Record /\ record'[i].status = "stopped"
      /\ file'[i] \in {None, record'[i]} /\ (c \in Stop => file'[i] = None)
      /\ cleanup[c].at = "dispose" /\ (cleanup[c].rpc => ~Alive(i))
      /\ history'.stranded = history.stranded /\ history'.early = history.early
      /\ i \in history'.stopped <=> i \in history.stopped \/ c \in Stop
      /\ UNCHANGED <<server, resources, child, exit, rpc, renewal, recovery, registered, beat>>
  <2>1. cleanup' = [cleanup EXCEPT ![c].at = "done"] /\ DropInstance(c, "done")
    BY DEF Disposed, DropInstance
  <2>2. /\ Ends(c, i) /\ \A d \in Caller : d # c => cleanup'[d] = cleanup[d]
        /\ \A d \in Caller : Ends(d, i)' <=> Ends(d, i) /\ d # c
        /\ cleanup'[c].at = "done" /\ cleanup'[c].rpc = cleanup[c].rpc /\ cleanup'[c].pi = cleanup[c].pi
        /\ (StopRuns(i)' => StopRuns(i)) /\ (StopLost(i)' <=> StopLost(i))
    <3>1. cleanup' = [cleanup EXCEPT ![c].at = "done"] /\ TypeInv
      BY <2>1 DEF Context
    <3>2. QED
      BY <1>0, <3>1, EndsOver
  <2>3. CleaningUp(i)' <=> CleaningUp(i) /\ c # i
    BY <1>0, <2>2 DEF CleaningUp
  <2>4. /\ i \notin live' /\ record'[i].status = "stopped" /\ record'[i] \in Record
        /\ file'[i] \in {None, record'[i]} /\ (c \in Stop => file'[i] = None)
        /\ spawn'[i] = IF c = i THEN "failed" ELSE spawn[i]
    BY <1>0, <2>1, DropIs DEF Context
  <2>5. history'.stranded = history.stranded /\ history'.early = history.early
        /\ (i \in history'.stopped <=> i \in history.stopped \/ c \in Stop)
    BY <1>0 DEF Disposed, Context, TypeInv, History
  <2>6. cleanup[c].at = "dispose" /\ (cleanup[c].rpc => ~Alive(i))
    BY <1>0 DEF Disposed, Due
  <2>7. QED
    BY <1>0, <2>2, <2>3, <2>4, <2>5, <2>6 DEF Disposed, radius
<1>2. FreshInv(i)'
  BY <1>t, <1>h, <1>1 DEF Good, FreshInv, FreshInv
<1>3. LostInv(i)'
  BY <1>t, <1>h, <1>1 DEF Good, LostInv, LostInv
<1>4. ProgressInv(i)'
  BY <1>t, <1>h, <1>1 DEF Good, ProgressInv, ProgressInv, LostInv
<1>5. ServerInv(i)'
  BY <1>t, <1>h, <1>0, <1>1 DEF Good, ServerInv, ProgressInv
<1>6. OwnedInv(i)'
  BY <1>t, <1>h, <1>1 DEF Good, OwnedInv
<1>7. MirrorInv(i)'
  BY <1>t, <1>h, <1>1 DEF Good, MirrorInv
<1>8. StatusInv(i)'
  BY <1>t, <1>h, <1>1 DEF Good, StatusInv, StopRuns
<1>9. RecoveredInv(i)'
  BY <1>t, <1>h, <1>1 DEF Good, RecoveredInv, LostInv
<1>10. RadiusInv(i)'
  BY <1>t, <1>h, <1>1 DEF Good, RadiusInv, Excepted, FreshInv, LostInv
<1>11. BeatInv(i)'
  BY <1>t, <1>h, <1>1 DEF Good, BeatInv
<1>12. NoPiInv(i)'
  BY <1>t, <1>h, <1>1 DEF Good, NoPiInv
<1>13. RejectedInv(i)'
  BY <1>t, <1>h, <1>1 DEF Good, RejectedInv
<1>14. StoppedInv(i)'
  <2> SUFFICES ASSUME i \notin overtaken \cup crossed, c \in Stop PROVE StoppedInv(i)'
    BY <1>h, <1>1 DEF Good, StoppedInv
  <2>1. ~Alive(i)
    BY <1>1 DEF Good, OwnedInv
  <2>2. exit[i] = None /\ renewal[i] = None /\ spawn[i] # "register" /\ \A d \in Caller : Ends(d, i) => d = c
    BY <1>h, <1>1 DEF RegularInv, UncrossedInv
  <2>3. spawn[i] # "failing"
    <3>1. CleaningUp(i) => Ends(i, i)
      BY SupervisorAssumption DEF Context, CallersInv, Ends
    <3>2. QED
      BY <1>0, <2>2, <3>1 DEF Good, ProgressInv
  <2>4. spawn[i] \notin {"none", "lost", "state", "rejected"}
    BY <1>1, <2>1 DEF Good, FreshInv, LostInv, ProgressInv, RejectedInv
  <2>5. spawn[i] \in Progress
    BY DEF Context, TypeInv, TypeOK
  <2>6. QED
    BY <1>0, <1>1, <2>1, <2>2, <2>3, <2>4, <2>5 DEF Progress, Good, ServerInv, StoppedInv
<1>15. QED
  BY <1>2, <1>3, <1>4, <1>5, <1>6, <1>7, <1>8, <1>9, <1>10, <1>11, <1>12, <1>13, <1>14 DEF Good

\* A crash leaves of an instance its record in the file and its registration.
LEMMA OwnCrash ==
  ASSUME Context, NEW i \in Inst, Good(i), Crash
  PROVE  Good(i)'
<1> USE DEF Begun, Alive, Over, Typed, Kept
<1>t. Typed(i)
  BY InstanceTypes DEF Context
<1>h. Kept(i)
  BY DEF Context, HistoryInv, Kept
<1>1. /\ \A c \in Caller : ~Ends(c, i)' /\ cleanup'[c].of = cleanup[c].of
      /\ ~StopRuns(i)' /\ ~CleaningUp(i)'
      /\ StopLost(i)' <=> StopLost(i) \/ StopRuns(i)
      /\ server' = "down" /\ i \notin live' /\ record'[i].status = "starting"
      /\ ~Alive(i)' /\ (child[i] = "none" => child'[i] = "none")
      /\ spawn'[i] = IF spawn[i] = "none" THEN "none" ELSE "lost"
      /\ resources'[i].pi = 0
      /\ exit'[i] = None /\ rpc'[i] = "none" /\ renewal'[i] = None /\ beat'[i] = 0
      /\ UNCHANGED <<file, registered, history>>
  <2>1. \A c \in Caller : /\ cleanup'[c].of = cleanup[c].of
                          /\ cleanup'[c].at = IF CleaningUp(c) THEN "lost" ELSE cleanup[c].at
    <3>1. cleanup \in [Caller -> Cleanup]
      BY DEF Context, TypeInv, TypeOK
    <3>2. cleanup' = [c \in Caller |-> IF CleaningUp(c) THEN [cleanup[c] EXCEPT !.at = "lost"] ELSE cleanup[c]]
      BY <3>1 DEF Crash
    <3>3. QED
      BY <3>1, <3>2 DEF Cleanup
  <2>2. \A c \in Caller : ~Ends(c, i)' /\ cleanup'[c].of = cleanup[c].of /\ ~CleaningUp(c)'
    BY <2>1 DEF Ends, CleaningUp
  <2>3. StopLost(i)' <=> StopLost(i) \/ StopRuns(i)
    BY <2>1 DEF StopLost, StopRuns, Ends, CleaningUp
  <2>4. QED
    BY <2>2, <2>3 DEF Crash, StopRuns
<1>2. FreshInv(i)'
  BY <1>t, <1>h, <1>1 DEF Good, FreshInv, FreshInv
<1>3. LostInv(i)'
  BY <1>t, <1>h, <1>1 DEF Good, LostInv
<1>4. ProgressInv(i)'
  BY <1>t, <1>h, <1>1 DEF Good, ProgressInv
<1>5. ServerInv(i)'
  BY <1>t, <1>h, <1>1 DEF Good, ServerInv
<1>6. OwnedInv(i)'
  BY <1>t, <1>h, <1>1 DEF Good, OwnedInv
<1>7. MirrorInv(i)'
  BY <1>t, <1>h, <1>1 DEF Good, MirrorInv
<1>8. StatusInv(i)'
  BY <1>t, <1>h, <1>1 DEF Good, StatusInv
<1>9. RecoveredInv(i)'
  BY <1>t, <1>h, <1>1 DEF Good, RecoveredInv
<1>10. RadiusInv(i)'
  BY <1>t, <1>h, <1>1 DEF Good, RadiusInv, Excepted
<1>11. BeatInv(i)'
  BY <1>t, <1>h, <1>1 DEF Good, BeatInv
<1>12. NoPiInv(i)'
  BY <1>t, <1>h, <1>1 DEF Good, NoPiInv
<1>13. RejectedInv(i)'
  BY <1>t, <1>h, <1>1 DEF Good, RejectedInv
<1>14. StoppedInv(i)'
  BY <1>t, <1>h, <1>1 DEF Good, StoppedInv, StoppedInv, FreshInv
<1>15. QED
  BY <1>2, <1>3, <1>4, <1>5, <1>6, <1>7, <1>8, <1>9, <1>10, <1>11, <1>12, <1>13, <1>14 DEF Good

\* The begin of a recovery keeps what is said of an instance.
LEMMA OwnRestart ==
  ASSUME Context, NEW i \in Inst, Good(i), Restart
  PROVE  Good(i)'
<1> USE DEF Begun, Alive, Over, Typed, Kept
<1>t. Typed(i)
  BY InstanceTypes DEF Context
<1>h. Kept(i)
  BY DEF Context, HistoryInv, Kept
<1>1. /\ \A c \in Caller : (Ends(c, i)' <=> Ends(c, i)) /\ cleanup'[c] = cleanup[c]
      /\ StopRuns(i)' <=> StopRuns(i)
      /\ StopLost(i)' <=> StopLost(i)
      /\ CleaningUp(i)' <=> CleaningUp(i)
      /\ server = "down" /\ server' = "recovering" /\ ~Begun(i)
      /\ file[i] = None => recovery'.records[i] = None
      /\ file[i] # None => /\ recovery'.records[i] \in Record /\ recovery'.records[i].pi = file[i].pi
                          /\ recovery'.records[i].status \notin {"online", "starting"}
                          /\ recovery'.records[i].status \in {"stopped", file[i].status}
      /\ file[i] # None /\ file[i].pi # 0 => i \in recovery'.left
      /\ UNCHANGED <<live, record, resources, file, child, spawn, exit, rpc, renewal, registered, beat, history>>
  <2> DEFINE r == [file[i] EXCEPT !.status = IF file[i].status \in {"online", "starting"} THEN "stopped" ELSE file[i].status]
  <2>1. recovery'.records[i] = (IF file[i] = None THEN None ELSE r)
        /\ (file[i] # None /\ file[i].pi # 0 => i \in recovery'.left)
    BY DEF Restart
  <2>2. ASSUME file[i] # None
        PROVE  /\ r \in Record /\ r.pi = file[i].pi /\ r.status \notin {"online", "starting"}
               /\ r.status \in {"stopped", file[i].status}
    BY <1>t, <2>2
  <2> HIDE DEF r
  <2>3. server = "down" /\ server' = "recovering" /\ ~Begun(i)
    BY DEF Restart, Good, ServerInv
  <2>4. UNCHANGED <<live, record, resources, file, child, spawn, exit, rpc, renewal, registered, beat, history>>
        /\ cleanup' = cleanup
    BY DEF Restart, state, radius
  <2>5. QED
    BY <2>1, <2>2, <2>3, <2>4, EndsKept
<1>2. FreshInv(i)'
  BY <1>t, <1>h, <1>1 DEF Good, FreshInv, FreshInv
<1>3. LostInv(i)'
  BY <1>t, <1>h, <1>1 DEF Good, LostInv
<1>4. ProgressInv(i)'
  BY <1>t, <1>h, <1>1 DEF Good, ProgressInv
<1>5. ServerInv(i)'
  BY <1>t, <1>h, <1>1 DEF Good, ServerInv, FreshInv, LostInv
<1>6. OwnedInv(i)'
  BY <1>t, <1>h, <1>1 DEF Good, OwnedInv
<1>7. MirrorInv(i)'
  BY <1>t, <1>h, <1>1 DEF Good, MirrorInv
<1>8. StatusInv(i)'
  BY <1>t, <1>h, <1>1 DEF Good, StatusInv
<1>9. RecoveredInv(i)'
  BY <1>t, <1>h, <1>1 DEF Good, RecoveredInv, LostInv, StatusInv, StopRuns
<1>10. RadiusInv(i)'
  BY <1>t, <1>h, <1>1 DEF Good, RadiusInv, Excepted
<1>11. BeatInv(i)'
  BY <1>t, <1>h, <1>1 DEF Good, BeatInv
<1>12. NoPiInv(i)'
  BY <1>t, <1>h, <1>1 DEF Good, NoPiInv
<1>13. RejectedInv(i)'
  BY <1>t, <1>h, <1>1 DEF Good, RejectedInv
<1>14. StoppedInv(i)'
  BY <1>t, <1>h, <1>1 DEF Good, StoppedInv
<1>15. QED
  BY <1>2, <1>3, <1>4, <1>5, <1>6, <1>7, <1>8, <1>9, <1>10, <1>11, <1>12, <1>13, <1>14 DEF Good

\* The end of a recovery keeps what is said of an instance.
LEMMA OwnRecovered ==
  ASSUME Context, NEW i \in Inst, Good(i), Recovered
  PROVE  Good(i)'
<1> USE DEF Begun, Alive, Over, Typed, Kept
<1>t. Typed(i)
  BY InstanceTypes DEF Context
<1>h. Kept(i)
  BY DEF Context, HistoryInv, Kept
<1>1. /\ \A c \in Caller : (Ends(c, i)' <=> Ends(c, i)) /\ cleanup'[c] = cleanup[c]
      /\ StopRuns(i)' <=> StopRuns(i)
      /\ StopLost(i)' <=> StopLost(i)
      /\ CleaningUp(i)' <=> CleaningUp(i)
      /\ server = "recovering" /\ server' = "up" /\ recovery.left = {}
      /\ file'[i] = recovery.records[i] /\ recovery.records[i] \in Record \cup {None}
      /\ UNCHANGED <<live, record, resources, child, spawn, exit, rpc, renewal, registered, beat, history>>
  BY EndsKept DEF Context, TypeInv, Recovered, radius
<1>2. FreshInv(i)'
  BY <1>t, <1>h, <1>1 DEF Good, FreshInv, ServerInv
<1>3. LostInv(i)'
  BY <1>t, <1>h, <1>1 DEF Good, LostInv
<1>4. ProgressInv(i)'
  BY <1>t, <1>h, <1>1 DEF Good, ProgressInv
<1>5. ServerInv(i)'
  BY <1>t, <1>h, <1>1 DEF Good, ServerInv
<1>6. OwnedInv(i)'
  BY <1>t, <1>h, <1>1 DEF Good, OwnedInv
<1>7. MirrorInv(i)'
  BY <1>t, <1>h, <1>1 DEF Good, MirrorInv, FreshInv, LostInv, ServerInv
<1>8. StatusInv(i)'
  BY <1>t, <1>h, <1>1 DEF Good, StatusInv, ServerInv, RecoveredInv
<1>9. RecoveredInv(i)'
  BY <1>t, <1>h, <1>1 DEF Good, RecoveredInv
<1>10. RadiusInv(i)'
  BY <1>t, <1>h, <1>1 DEF Good, RadiusInv, Excepted, ServerInv
<1>11. BeatInv(i)'
  BY <1>t, <1>h, <1>1 DEF Good, BeatInv
<1>12. NoPiInv(i)'
  BY <1>t, <1>h, <1>1 DEF Good, NoPiInv
<1>13. RejectedInv(i)'
  BY <1>t, <1>h, <1>1 DEF Good, RejectedInv
<1>14. StoppedInv(i)'
  BY <1>t, <1>h, <1>1 DEF Good, StoppedInv
<1>15. QED
  BY <1>2, <1>3, <1>4, <1>5, <1>6, <1>7, <1>8, <1>9, <1>10, <1>11, <1>12, <1>13, <1>14 DEF Good

\* A step that changes nothing keeps what is said of an instance.
LEMMA Stuttering ==
  ASSUME UNCHANGED vars, NEW i \in Inst
  PROVE  Same(i)
BY DEF vars, steps, state, radius, Same

-----------------------------------------------------------------------------
(* The invariant. *)

\* Every step keeps what is said of every instance.
LEMMA GoodNext ==
  ASSUME SupervisorInv, Context, [Next]_vars, NEW i \in Inst
  PROVE  Good(i)'
<1>1. Good(i)
  BY DEF SupervisorInv
<1>2. ASSUME UNCHANGED vars PROVE Good(i)'
  BY <1>1, <1>2, Stuttering, GoodFar
<1>3. ASSUME NEW j \in Inst,
             \/ Spawn(j) \/ StateKnown(j) \/ SpawnRegistered(j) \/ FailSpawn(j) \/ ChildExits(j)
             \/ ExitHandled(j) \/ Request(j) \/ Answered(j) \/ Renew(j) \/ Renewed(j) \/ RecoverPi(j)
             \/ \E c \in Stop : StopInstance(c, j)
             \/ \E n \in Pi : Forget(j, n)
             \/ \E c \in Caller : cleanup[c].of = j /\ Continue(c)
      PROVE  Good(i)'
  <2>1. CASE i # j
    <3>1. Same(i)
      BY <1>3, <2>1, OthersSame
    <3>2. QED
      BY <1>1, <3>1, GoodFar
  <2>2. CASE i = j
    <3>1. ASSUME \/ Spawn(i) \/ StateKnown(i) \/ SpawnRegistered(i) \/ FailSpawn(i) \/ ChildExits(i)
                 \/ ExitHandled(i)
          PROVE  Good(i)'
      BY <1>1, <3>1, OwnSpawn, OwnStateKnown, OwnSpawnRegistered, OwnFailSpawn, OwnChildExits,
         OwnExitHandled
    <3>2. ASSUME Request(i) \/ Answered(i) \/ Renew(i) \/ Renewed(i) \/ RecoverPi(i)
          PROVE  Good(i)'
      BY <1>1, <3>2, OwnRequest, OwnAnswered, OwnRenew, OwnRenewed, OwnRecoverPi
    <3>3. ASSUME NEW c \in Stop, StopInstance(c, i) PROVE Good(i)'
      BY <1>1, <3>3, OwnStopInstance
    <3>4. ASSUME NEW n \in Pi, Forget(i, n) PROVE Good(i)'
      BY <1>1, <3>4, OwnForget
    <3>5. ASSUME NEW c \in Caller, cleanup[c].of = i, Continue(c) PROVE Good(i)'
      BY <1>1, <3>5, OwnDisconnected, OwnDisconnectFails, OwnDisposed DEF Continue
    <3>6. QED
      BY <1>3, <2>2, <3>1, <3>2, <3>3, <3>4, <3>5
  <2>3. QED
    BY <2>1, <2>2
<1>4. ASSUME NEW c \in Caller, Continue(c) PROVE Good(i)'
  <2>1. cleanup[c].of \in Inst
    BY <1>4 DEF Continue, Disconnected, DisconnectFails, Disposed, CleaningUp, Context, CallersInv
  <2>2. QED
    BY <1>3, <1>4, <2>1
<1>5. ASSUME Crash \/ Restart \/ Recovered PROVE Good(i)'
  BY <1>1, <1>5, OwnCrash, OwnRestart, OwnRecovered
<1>6. QED
  BY <1>2, <1>3, <1>4, <1>5 DEF Next, Step, SpawnGoesOn, ServerGoesOn

\* The server starts with nothing to be said of any instance.
LEMMA SupervisorInit == Init => SupervisorInv
<1> SUFFICES ASSUME Init PROVE SupervisorInv
  OBVIOUS
<1>1. TypeInv /\ CallersInv
  BY TypeInit, CallersInit
<1>2. \A c \in Caller : cleanup[c].of = None /\ ~CleaningUp(c) /\ cleanup[c].at = "ready"
  BY DEF Init, CleaningUp
<1>3. ASSUME NEW i \in Inst
      PROVE  /\ spawn[i] = "none" /\ i \notin live /\ file[i] = None /\ child[i] = "none"
             /\ rpc[i] = "none" /\ exit[i] = None /\ renewal[i] = None /\ beat[i] = 0
             /\ resources[i].pi = 0 /\ resources[i].rpc = FALSE /\ record[i].status = "starting"
             /\ server = "up" /\ registered = {} /\ history.stopped = {} /\ i # None
             /\ \A c \in Caller : ~Ends(c, i)
  BY <1>2, SupervisorAssumption DEF Init, Ends
<1>4. ASSUME NEW i \in Inst PROVE RegularInv(i) /\ UncrossedInv(i)
  BY <1>3 DEF RegularInv, UncrossedInv
<1>5. ASSUME NEW i \in Inst PROVE Good(i)
  BY <1>2, <1>3 DEF Good, FreshInv, LostInv, ProgressInv, ServerInv, OwnedInv, MirrorInv, StatusInv,
     RecoveredInv, RadiusInv, BeatInv, NoPiInv, RejectedInv, StoppedInv, Begun, Alive, StopRuns
<1>6. QED
  BY <1>1, <1>4, <1>5 DEF SupervisorInv, HistoryInv

\* Every step keeps the invariant.
LEMMA SupervisorNext == SupervisorInv /\ [Next]_vars => SupervisorInv'
<1> SUFFICES ASSUME SupervisorInv, [Next]_vars PROVE SupervisorInv'
  OBVIOUS
<1>1. TypeInv' /\ CallersInv'
  BY TypeNext, CallersNext DEF SupervisorInv
<1>2. HistoryInv' /\ overtaken \subseteq overtaken' /\ crossed \subseteq crossed'
  BY <1>1, HistoryNext DEF SupervisorInv
<1>3. Context
  BY <1>1, <1>2 DEF Context, SupervisorInv
<1>4. \A i \in Inst : Good(i)'
  BY <1>3, GoodNext
<1>5. QED
  BY <1>1, <1>2, <1>4 DEF SupervisorInv

\* What clients, the service and the operating system see follows from the invariant.
LEMMA InvIsTrue == SupervisorInv => RecordsAreTrue
<1> SUFFICES ASSUME SupervisorInv PROVE RecordsAreTrue
  OBVIOUS
<1> USE DEF Begun, Alive, Over
<1>1. TypeOK /\ DOMAIN cleanup = Caller
  BY DEF SupervisorInv, TypeInv, TypeOK
<1>2. \A i \in Inst : Leaving(i) <=> \E c \in Caller : Ends(c, i)
  BY <1>1 DEF Leaving, Ends
<1>3. ChildrenOwned
  BY <1>1 DEF ChildrenOwned, SupervisorInv, Good, OwnedInv, Ends
<1>4. FileMirrorsLive
  BY <1>1, <1>2 DEF FileMirrorsLive, SupervisorInv, Good, MirrorInv, TypeOK
<1>5. DeadAreNotOnline
  <2> SUFFICES ASSUME server = "up", NEW i \in Inst, i \notin live, i \notin overtaken, file[i] # None
               PROVE  \/ Over(file[i].status) \/ Leaving(i)
                      \/ /\ file[i].status = "stopping"
                         /\ \E c \in Stop : cleanup[c].of = i /\ cleanup[c].at = "lost"
    BY DEF DeadAreNotOnline
  <2>1. FreshInv(i) /\ StatusInv(i) /\ RecoveredInv(i) /\ LostInv(i)
    BY DEF SupervisorInv, Good
  <2>2. CASE Begun(i)
    BY <1>2, <2>1, <2>2 DEF StatusInv
  <2>3. CASE spawn[i] = "lost"
    <3>1. file[i].status \notin {"online", "starting"} /\ file[i].status \in Status
      BY <1>1, <2>1, <2>3 DEF RecoveredInv, TypeOK
    <3>2. file[i].status = "stopping" => StopLost(i)
      BY <2>1, <2>3 DEF StatusInv, LostInv, StopRuns
    <3>3. QED
      BY <3>1, <3>2 DEF StopLost
  <2>4. CASE spawn[i] = "none"
    BY <2>1, <2>4 DEF FreshInv
  <2>5. QED
    BY <2>2, <2>3, <2>4
<1>6. NoGhostAtRadius
  BY <1>1 DEF NoGhostAtRadius, SupervisorInv, Good, RadiusInv, BeatInv, Excepted, Pi
<1>7. StoppedStaysGone
  <2>1. history.stopped \subseteq Inst
    BY DEF SupervisorInv, TypeInv
  <2>2. QED
    BY <2>1 DEF StoppedStaysGone, SupervisorInv, Good, StoppedInv
<1>8. QED
  BY <1>1, <1>3, <1>4, <1>5, <1>6, <1>7 DEF RecordsAreTrue

\* Children, records and registrations agree on which instances there are, whatever crashes,
\* exits, fails and is forgotten: a child that runs has an owner, clients are told what holds of
\* the live instances, the file calls no dead one online, the service knows no Pi of a dead one,
\* and what was stopped stays gone.
THEOREM RecordsStayTrue == Spec => []RecordsAreTrue
<1>1. Spec => []SupervisorInv
  BY SupervisorInit, SupervisorNext, PTL DEF Spec
<1>2. QED
  BY <1>1, InvIsTrue, PTL
=============================================================================
