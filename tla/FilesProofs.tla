---------------------------- MODULE FilesProofs ----------------------------
(***************************************************************************)
(* Proofs about what is kept in files.  The file tools: for every set of   *)
(* calls, files and links, for files that come and go, and for every patch *)
(* and directory.  The session manager: for any sessions, files, kinds of  *)
(* entries, forks, compactions and failing writes.                         *)
(*                                                                         *)
(* The queue.  KeysExclusive is not inductive: why two calls do not run    *)
(* together lies in what the later one waits for.  QueueInv says it.  A    *)
(* registered call that has not returned is behind the entry of each of    *)
(* its keys (Covered), hence whoever registers later waits for it, or for  *)
(* a call that is behind it (Awaits), hence it has returned before a later *)
(* call that needs one of its keys runs (Ordered).                         *)
(*                                                                         *)
(* The patch.  PatchInv keeps what the call knows of each file: until the  *)
(* patch writes it, its entry is what the others left; at the last look it *)
(* is also what the call had read, unless it was a link; and of a file the *)
(* patch has replaced, what the others had left is what was read, unless   *)
(* the call has already replaced a later change.  So the rollback, which   *)
(* takes the operations back from the last, restores what the others left. *)
(*                                                                         *)
(* The session manager.  A file is read back as the entries that are sound *)
(* in it, so that SInv speaks of positions: the lines of a file that parse *)
(* are in the order of their making, parents first (NewFile), or the file  *)
(* is as it was found (OldFile); what is in memory is such a chain         *)
(* (Chain); and the file of a session that is written has, with its tail,  *)
(* all of the session's entries but two for each write that failed         *)
(* (Saves).  What the tail is, is needed to count: a whole line without    *)
(* its line feed is not lost yet, and costs the next one with it.          *)
(***************************************************************************)
EXTENDS FileTools, SessionFile, FiniteSets, SequenceTheorems, FiniteSetTheorems, WellFoundedInduction, TLAPS

\* o has registered.
Registered(o) == ticket[o] # 0

\* Tickets are numbers of registrations, each given once.
TicketsFit ==
  /\ \A o \in Op : ticket[o] <= registered
  /\ \A o, p \in Op : Registered(o) /\ ticket[o] = ticket[p] => o = p

\* How far a call is tells whether it has registered; a call that runs without a
\* ticket was made without paths.
StatesFit ==
  \A o \in Op :
     /\ state[o] \in {"idle", "registering", "failed"} => ~Registered(o)
     /\ state[o] = "waiting" => Registered(o)
     /\ state[o] = "idle" => keys[o] = {}
     /\ state[o] \in {"running", "done"} /\ ~Registered(o) => keys[o] = {}
     /\ state[o] = "registering" => lookups[o] \cup keys[o] # {}

\* The calls that are to register do so once.
QueueFits ==
  /\ \A i \in 1 .. Len(registrationQueue) : state[registrationQueue[i]] = "registering"
  /\ \A i, j \in 1 .. Len(registrationQueue) :
        registrationQueue[i] = registrationQueue[j] => i = j

\* The entry of a key is a registered call that has the key and has not returned.
EntriesFit ==
  \A k \in Path : fileMutationQueues[k] # NoOp =>
     /\ Registered(fileMutationQueues[k]) /\ k \in keys[fileMutationQueues[k]]
     /\ ~Settled(fileMutationQueues[k])

\* A call waits for registered calls it shares a key with.
WaitsFit ==
  \A o \in Op : Registered(o) => \A p \in currentQueues[o] :
     Registered(p) /\ keys[o] \cap keys[p] # {}

\* The entry of each key of a call that has not returned is that call or a later one.
Covered ==
  \A o \in Op : \A k \in Path : Registered(o) /\ k \in keys[o] =>
     \/ Settled(o)
     \/ fileMutationQueues[k] # NoOp /\ ticket[o] <= ticket[fileMutationQueues[k]]

\* A call waits for each earlier call it shares a key with, or for one behind that.
Awaits ==
  \A o, q \in Op : \A k \in keys[o] \cap keys[q] :
     Registered(o) /\ ticket[o] < ticket[q] =>
        \/ Settled(o)
        \/ \E p \in currentQueues[q] :
              k \in keys[p] /\ ticket[o] <= ticket[p] /\ ticket[p] < ticket[q]

\* Earlier calls that share a key have returned before a call runs.
Ordered ==
  \A o, q \in Op :
     /\ Registered(o) /\ ticket[o] < ticket[q] /\ keys[o] \cap keys[q] # {}
     /\ state[q] \in {"running", "done"}
     => Settled(o)

QueueInv ==
  /\ TypeOK /\ TicketsFit /\ StatesFit /\ QueueFits /\ EntriesFit /\ WaitsFit
  /\ Covered /\ Awaits /\ Ordered

-----------------------------------------------------------------------------
(* Types *)

\* The key of a path is a path.
LEMMA KeyIsPath ==
  ASSUME NEW p \in Path
  PROVE  MutationQueueKey(p) \in Path
<1> QED BY QueueAssumption DEF MutationQueueKey, FileOf, Path

\* A call waits for calls only.
LEMMA QueuesAreCalls ==
  ASSUME TypeOK, NEW o \in Op
  PROVE  QueuesOf(o) \in SUBSET Op
<1> QED BY DEF TypeOK, QueuesOf

\* What is left of the registrations when the first is taken.
LEMMA TailOfQueue ==
  ASSUME NEW q \in Seq(Op), q # <<>>
  PROVE  /\ Tail(q) \in Seq(Op)
         /\ Head(q) = q[1] /\ Len(q) \in Nat /\ Len(q) > 0
         /\ Len(Tail(q)) = Len(q) - 1
         /\ \A i \in 1 .. Len(Tail(q)) : Tail(q)[i] = q[i + 1]
<1> QED OBVIOUS

\* Initially, every variable has its type.
LEMMA TypeInit == Init => TypeOK
<1> QED BY QueueAssumption DEF Init, TypeOK

\* Every step of the system keeps the types.
LEMMA TypeStep == TypeOK /\ [Next]_vars => TypeOK'
<1> SUFFICES ASSUME TypeOK, [Next]_vars PROVE TypeOK'
  OBVIOUS
<1>1. ASSUME NEW o \in Op, NEW ps \in SUBSET Path, Call(o, ps) PROVE TypeOK'
  <2>1. CASE ps = {}
    BY <1>1, <2>1 DEF TypeOK, Call
  <2>2. CASE ps # {}
    <3>1. Append(registrationQueue, o) \in Seq(Op)
      BY DEF TypeOK
    <3>2. lookups' \in [Op -> SUBSET Path] /\ paths' \in [Op -> SUBSET Path]
      BY <1>1, <2>2 DEF TypeOK, Call
    <3>3. state' = [state EXCEPT ![o] = "registering"]
      BY <1>1, <2>2 DEF Call
    <3> QED BY <1>1, <2>2, <3>1, <3>2, <3>3 DEF TypeOK, Call
  <2> QED BY <2>1, <2>2
<1>2. ASSUME NEW o \in Op, NEW p \in Path, Lookup(o, p) PROVE TypeOK'
  BY <1>2, KeyIsPath DEF TypeOK, Lookup
<1>3. ASSUME NEW o \in Op, LookupFails(o) PROVE TypeOK'
  BY <1>3, TailOfQueue DEF TypeOK, LookupFails, Registering
<1>4. ASSUME NEW o \in Op, Register(o) PROVE TypeOK'
  BY <1>4, TailOfQueue, QueuesAreCalls DEF TypeOK, Register, Registering
<1>5. ASSUME NEW o \in Op, Enter(o) PROVE TypeOK'
  BY <1>5 DEF TypeOK, Enter
<1>6. ASSUME NEW o \in Op, Leave(o) PROVE TypeOK'
  BY <1>6 DEF TypeOK, Leave, Deleted
<1>7. ASSUME NEW o \in Op, NEW p \in Path, Mutate(o, p) PROVE TypeOK'
  BY <1>7, QueueAssumption DEF TypeOK, Mutate, FileOf, Path
<1>8. CASE UNCHANGED vars
  BY <1>8 DEF TypeOK, vars
<1> QED BY <1>1, <1>2, <1>3, <1>4, <1>5, <1>6, <1>7, <1>8 DEF Next, GoesOn

\* Every variable has its type in every reachable state.
THEOREM TypeCorrect == Spec => []TypeOK
<1> QED BY TypeInit, TypeStep, PTL DEF Spec

-----------------------------------------------------------------------------
(* Every step keeps QueueInv: one lemma for each action *)

\* Initially nobody has registered.
LEMMA InvInit == Init => QueueInv
<1> SUFFICES ASSUME Init PROVE QueueInv
  OBVIOUS
<1>1. TypeOK
  BY TypeInit
<1> QED BY <1>1 DEF Init, QueueInv, TicketsFit, StatesFit, QueueFits, EntriesFit, WaitsFit,
                    Covered, Awaits, Ordered, Registered

\* A new call has no ticket and no keys; it is put behind the other registrations.
LEMMA InvCall ==
  ASSUME QueueInv, TypeOK', NEW o \in Op, NEW ps \in SUBSET Path, Call(o, ps)
  PROVE  QueueInv'
<1> USE DEF QueueInv, TypeOK, Call, Registered, Settled
<1>a. /\ ~Registered(o) /\ keys[o] = {}
      /\ state'[o] = "running" \/ (state'[o] = "registering" /\ lookups'[o] # {})
      /\ \A x \in Op \ {o} : state'[x] = state[x] /\ lookups'[x] = lookups[x]
  <2>1. CASE ps = {}
    BY <2>1 DEF StatesFit
  <2>2. CASE ps # {}
    BY <2>2 DEF StatesFit
  <2> QED BY <2>1, <2>2
<1>1. TicketsFit'
  BY DEF TicketsFit
<1>2. StatesFit'
  <2> SUFFICES ASSUME NEW x \in Op PROVE StatesFit!(x)'
    BY DEF StatesFit
  <2>1. CASE x = o
    BY <2>1, <1>a DEF StatesFit
  <2>2. CASE x # o
    BY <2>2, <1>a DEF StatesFit
  <2> QED BY <2>1, <2>2
<1>3. QueueFits'
  <2>1. \A i \in 1 .. Len(registrationQueue) : registrationQueue[i] \in Op \ {o}
    <3> SUFFICES ASSUME NEW i \in 1 .. Len(registrationQueue)
                 PROVE  registrationQueue[i] \in Op \ {o}
      OBVIOUS
    <3>1. registrationQueue[i] \in Op
      BY ElementOfSeq
    <3> QED BY <3>1 DEF QueueFits
  <2>2. CASE ps = {}
    BY <2>1, <2>2, <1>a DEF QueueFits
  <2>3. CASE ps # {}
    <3>1. /\ Len(registrationQueue) \in Nat
          /\ Len(registrationQueue') = Len(registrationQueue) + 1
          /\ registrationQueue'[Len(registrationQueue) + 1] = o
          /\ \A i \in 1 .. Len(registrationQueue) :
                registrationQueue'[i] = registrationQueue[i]
      BY <2>3
    <3>2. state'[o] = "registering"
      BY <2>3
    <3> DEFINE n == Len(registrationQueue)
    <3>3. ASSUME NEW i \in 1 .. n
          PROVE  /\ registrationQueue'[i] # o
                 /\ state'[registrationQueue'[i]] = "registering"
      BY <2>1, <3>1, <1>a DEF QueueFits
    <3>4. ASSUME NEW i \in 1 .. n, NEW j \in 1 .. n,
                 registrationQueue'[i] = registrationQueue'[j]
          PROVE  i = j
      BY <3>1, <3>4 DEF QueueFits
    <3>5. \A i \in 1 .. Len(registrationQueue') : i \in 1 .. n \/ i = n + 1
      BY <3>1
    <3> HIDE DEF n, QueueInv, TypeOK, Call
    <3> QED BY <3>1, <3>2, <3>3, <3>4, <3>5 DEF QueueFits, n
  <2> QED BY <2>2, <2>3
<1>4. EntriesFit'
  BY DEF EntriesFit
<1>5. WaitsFit'
  BY DEF WaitsFit
<1>6. Covered'
  BY DEF Covered
<1>7. Awaits'
  BY DEF Awaits
<1>8. Ordered'
  BY DEF Ordered, StatesFit
<1> QED BY <1>1, <1>2, <1>3, <1>4, <1>5, <1>6, <1>7, <1>8

\* The first of the registrations, o, is of a call without a ticket, and no other.
LEMMA FirstRegisters ==
  ASSUME QueueInv, NEW o \in Op, Registering(o)
  PROVE  /\ state[o] = "registering" /\ ~Registered(o)
         /\ \A i \in 1 .. Len(Tail(registrationQueue)) :
               /\ Tail(registrationQueue)[i] # o
               /\ state[Tail(registrationQueue)[i]] = "registering"
         /\ \A i, j \in 1 .. Len(Tail(registrationQueue)) :
               Tail(registrationQueue)[i] = Tail(registrationQueue)[j] => i = j
<1> USE DEF QueueInv, TypeOK
<1>1. /\ o = registrationQueue[1] /\ Len(registrationQueue) \in Nat
      /\ Len(registrationQueue) > 0
      /\ Len(Tail(registrationQueue)) = Len(registrationQueue) - 1
      /\ \A i \in 1 .. Len(Tail(registrationQueue)) :
            Tail(registrationQueue)[i] = registrationQueue[i + 1]
  BY TailOfQueue DEF Registering
<1>2. state[o] = "registering" /\ ~Registered(o)
  BY <1>1 DEF QueueFits, StatesFit
<1>3. ASSUME NEW i \in 1 .. Len(Tail(registrationQueue))
      PROVE  i + 1 \in 1 .. Len(registrationQueue) /\ i + 1 # 1
  BY <1>1
<1>4. ASSUME NEW i \in 1 .. Len(Tail(registrationQueue))
      PROVE  /\ Tail(registrationQueue)[i] # o
             /\ state[Tail(registrationQueue)[i]] = "registering"
  BY <1>1, <1>3 DEF QueueFits
<1>5. ASSUME NEW i \in 1 .. Len(Tail(registrationQueue)),
             NEW j \in 1 .. Len(Tail(registrationQueue)),
             Tail(registrationQueue)[i] = Tail(registrationQueue)[j]
      PROVE  i = j
  <2>1. i + 1 = j + 1
    BY <1>1, <1>3, <1>5 DEF QueueFits
  <2> QED BY <2>1
<1> QED BY <1>2, <1>4, <1>5

\* A lookup changes the keys of a call without a ticket.
LEMMA InvLookup ==
  ASSUME QueueInv, TypeOK', NEW o \in Op, NEW p \in Path, Lookup(o, p)
  PROVE  QueueInv'
<1> USE DEF QueueInv, TypeOK, Lookup, Registered, Settled
<1>0. state[o] = "registering" /\ ~Registered(o)
  BY FirstRegisters
<1>1. TicketsFit'
  BY DEF TicketsFit
<1>2. StatesFit'
  BY <1>0 DEF StatesFit
<1>3. QueueFits'
  BY DEF QueueFits
<1>4. EntriesFit'
  BY <1>0 DEF EntriesFit
<1>5. WaitsFit'
  BY <1>0 DEF WaitsFit
<1>6. Covered'
  BY <1>0 DEF Covered
<1>7. Awaits'
  <2> SUFFICES ASSUME NEW x \in Op, NEW q \in Op, NEW k \in (keys[x] \cap keys[q])',
                      Registered(x), ticket[x] < ticket[q], ~Settled(x)
               PROVE  \E r \in currentQueues[q] :
                         k \in keys'[r] /\ ticket[x] <= ticket[r] /\ ticket[r] < ticket[q]
    BY DEF Awaits
  <2>1. x # o /\ q # o /\ k \in keys[x] \cap keys[q]
    BY <1>0
  <2>2. PICK r \in currentQueues[q] :
           k \in keys[r] /\ ticket[x] <= ticket[r] /\ ticket[r] < ticket[q]
    BY <2>1 DEF Awaits
  <2>3. r \in Op /\ k \in keys'[r]
    BY <2>2
  <2> QED BY <2>2, <2>3
<1>8. Ordered'
  BY <1>0 DEF Ordered
<1> QED BY <1>1, <1>2, <1>3, <1>4, <1>5, <1>6, <1>7, <1>8

\* A call whose lookup fails has no ticket and never gets one.
LEMMA InvLookupFails ==
  ASSUME QueueInv, TypeOK', NEW o \in Op, LookupFails(o)
  PROVE  QueueInv'
<1> USE DEF QueueInv, TypeOK, LookupFails, Registered, Settled
<1>0. state[o] = "registering" /\ ~Registered(o)
  BY FirstRegisters
<1>1. TicketsFit'
  BY DEF TicketsFit
<1>2. StatesFit'
  BY <1>0 DEF StatesFit
<1>3. QueueFits'
  <2>1. \A i \in 1 .. Len(registrationQueue') : registrationQueue'[i] \in Op
    BY ElementOfSeq
  <2> QED BY <2>1, FirstRegisters DEF QueueFits
<1>4. EntriesFit'
  BY <1>0 DEF EntriesFit
<1>5. WaitsFit'
  BY <1>0 DEF WaitsFit
<1>6. Covered'
  BY <1>0 DEF Covered
<1>7. Awaits'
  BY <1>0 DEF Awaits
<1>8. Ordered'
  BY <1>0 DEF Ordered
<1> QED BY <1>1, <1>2, <1>3, <1>4, <1>5, <1>6, <1>7, <1>8

\* A registered call becomes the entry of its keys and waits for the entries before.
LEMMA InvRegister ==
  ASSUME QueueInv, TypeOK', NEW o \in Op, Register(o)
  PROVE  QueueInv'
<1> USE DEF QueueInv, TypeOK, Register, Registered, Settled
<1>0. state[o] = "registering" /\ ~Registered(o)
  BY FirstRegisters
<1>a. /\ ticket'[o] = registered + 1 /\ state'[o] = "waiting"
      /\ currentQueues'[o] = QueuesOf(o)
      /\ \A x \in Op \ {o} : /\ ticket'[x] = ticket[x] /\ state'[x] = state[x]
                             /\ currentQueues'[x] = currentQueues[x]
  OBVIOUS
<1>b. \A x \in Op : ticket[x] \in Nat /\ ticket[x] < registered + 1
  BY DEF TicketsFit
<1>1. TicketsFit'
  BY <1>a, <1>b DEF TicketsFit
<1>2. StatesFit'
  <2> SUFFICES ASSUME NEW x \in Op PROVE StatesFit!(x)'
    BY DEF StatesFit
  <2>1. CASE x = o
    <3>1. ticket'[x] # 0 /\ state'[x] = "waiting"
      BY <2>1, <1>a, <1>b
    <3> QED BY <3>1
  <2>2. CASE x # o
    BY <2>2, <1>a DEF StatesFit
  <2> QED BY <2>1, <2>2
<1>3. QueueFits'
  <2>1. \A i \in 1 .. Len(registrationQueue') : registrationQueue'[i] \in Op
    BY ElementOfSeq
  <2> QED BY <2>1, FirstRegisters DEF QueueFits
<1>c. ASSUME NEW k \in keys[o], fileMutationQueues[k] # NoOp
      PROVE  /\ fileMutationQueues[k] \in Op \ {o} /\ fileMutationQueues[k] \in QueuesOf(o)
             /\ Registered(fileMutationQueues[k]) /\ k \in keys[fileMutationQueues[k]]
  BY <1>0, <1>c DEF EntriesFit, QueuesOf
<1>4. EntriesFit'
  BY <1>0, <1>a, <1>b, QueueAssumption DEF EntriesFit
<1>5. WaitsFit'
  <2> SUFFICES ASSUME NEW x \in Op, Registered(x)', NEW p \in currentQueues'[x]
               PROVE  Registered(p)' /\ keys[x] \cap keys[p] # {}
    BY DEF WaitsFit
  <2>1. CASE x = o
    <3>1. PICK k \in keys[o] : p = fileMutationQueues[k] /\ p # NoOp
      BY <2>1, <1>a DEF QueuesOf
    <3> QED BY <3>1, <2>1, <1>a, <1>c
  <2>2. CASE x # o
    BY <2>2, <1>a, <1>b, <1>0 DEF WaitsFit
  <2> QED BY <2>1, <2>2
<1>6. Covered'
  <2> SUFFICES ASSUME NEW x \in Op, NEW k \in Path, Registered(x)', k \in keys[x],
                      ~Settled(x)'
               PROVE  /\ fileMutationQueues'[k] # NoOp
                      /\ ticket'[x] <= ticket'[fileMutationQueues'[k]]
    BY DEF Covered
  <2>1. CASE k \in keys[o]
    BY <2>1, <1>a, <1>b, QueueAssumption
  <2>2. CASE k \notin keys[o]
    <3>1. x # o /\ fileMutationQueues'[k] = fileMutationQueues[k]
      BY <2>2
    <3>2. /\ fileMutationQueues[k] # NoOp
          /\ ticket[x] <= ticket[fileMutationQueues[k]]
      BY <3>1, <1>a DEF Covered
    <3>3. fileMutationQueues[k] \in Op \ {o}
      BY <3>2, <1>0 DEF EntriesFit
    <3> QED BY <3>1, <3>2, <3>3, <1>a
  <2> QED BY <2>1, <2>2
<1>7. Awaits'
  <2> SUFFICES ASSUME NEW x \in Op, NEW q \in Op, NEW k \in keys[x] \cap keys[q],
                      Registered(x)', ticket'[x] < ticket'[q], ~Settled(x)'
               PROVE  \E p \in currentQueues'[q] :
                        k \in keys[p] /\ ticket'[x] <= ticket'[p] /\ ticket'[p] < ticket'[q]
    BY DEF Awaits
  <2>0. x # o
    BY <1>a, <1>b
  <2>1. CASE q = o
    <3>1. /\ fileMutationQueues[k] # NoOp
          /\ ticket[x] <= ticket[fileMutationQueues[k]]
      BY <2>0, <1>a DEF Covered
    <3> QED BY <3>1, <2>0, <2>1, <1>a, <1>b, <1>c
  <2>2. CASE q # o
    <3>1. PICK p \in currentQueues[q] :
             k \in keys[p] /\ ticket[x] <= ticket[p] /\ ticket[p] < ticket[q]
      BY <2>0, <2>2, <1>a DEF Awaits
    <3>2. Registered(q)
      BY <2>0, <2>2, <1>a, <1>b
    <3>3. p \in Op \ {o}
      BY <3>1, <3>2, <1>0 DEF WaitsFit
    <3> QED BY <3>1, <3>3, <2>0, <2>2, <1>a
  <2> QED BY <2>1, <2>2
<1>8. Ordered'
  BY <1>a, <1>b DEF Ordered
<1> QED BY <1>1, <1>2, <1>3, <1>4, <1>5, <1>6, <1>7, <1>8

\* When what a call waits for has returned, so has every earlier call it shares a key
\* with.
LEMMA EarlierHaveReturned ==
  ASSUME QueueInv, NEW o \in Op, Enter(o), NEW x \in Op, Registered(x),
         ticket[x] < ticket[o], keys[x] \cap keys[o] # {}
  PROVE  Settled(x)
<1> USE DEF QueueInv, TypeOK
<1>1. PICK k \in Path : k \in keys[x] \cap keys[o]
  OBVIOUS
<1>2. CASE \E p \in currentQueues[o] :
              k \in keys[p] /\ ticket[x] <= ticket[p] /\ ticket[p] < ticket[o]
  <2>1. PICK p \in currentQueues[o] :
           k \in keys[p] /\ ticket[x] <= ticket[p] /\ ticket[p] < ticket[o]
    BY <1>2
  <2>2. p \in Op /\ state[p] = "done"
    BY <2>1 DEF Enter, Settled
  <2>3. CASE ticket[x] = ticket[p]
    BY <2>2, <2>3 DEF TicketsFit, Settled
  <2>4. CASE ticket[x] < ticket[p]
    BY <2>1, <2>2, <2>4, <1>1 DEF Ordered
  <2> QED BY <2>1, <2>2, <2>3, <2>4
<1> QED BY <1>1, <1>2 DEF Awaits

\* A call that runs comes after the earlier ones it shares a key with.
LEMMA InvEnter ==
  ASSUME QueueInv, TypeOK', NEW o \in Op, Enter(o)
  PROVE  QueueInv'
<1> USE DEF QueueInv, TypeOK, Enter, Registered, Settled
<1>1. TicketsFit'
  BY DEF TicketsFit
<1>2. StatesFit'
  BY DEF StatesFit
<1>3. QueueFits'
  BY DEF QueueFits
<1>4. EntriesFit'
  BY DEF EntriesFit
<1>5. WaitsFit'
  BY DEF WaitsFit
<1>6. Covered'
  BY DEF Covered
<1>7. Awaits'
  BY DEF Awaits
<1>8. Ordered'
  <2> SUFFICES ASSUME NEW x \in Op, NEW q \in Op, Registered(x), ticket[x] < ticket[q],
                      keys[x] \cap keys[q] # {}, state'[q] \in {"running", "done"}
               PROVE  Settled(x)'
    BY DEF Ordered
  <2>1. CASE q = o
    BY <2>1, EarlierHaveReturned
  <2>2. CASE q # o
    BY <2>2 DEF Ordered
  <2> QED BY <2>1, <2>2
<1> QED BY <1>1, <1>2, <1>3, <1>4, <1>5, <1>6, <1>7, <1>8

\* A call that returns leaves entries of others alone.
LEMMA InvLeave ==
  ASSUME QueueInv, TypeOK', NEW o \in Op, Leave(o)
  PROVE  QueueInv'
<1> USE DEF QueueInv, TypeOK, Leave, Registered, Settled
<1>1. TicketsFit'
  BY DEF TicketsFit
<1>2. StatesFit'
  BY DEF StatesFit
<1>3. QueueFits'
  BY DEF QueueFits
<1>a. \A k \in Path :
         fileMutationQueues'[k] =
           IF fileMutationQueues[k] = o THEN NoOp ELSE fileMutationQueues[k]
  BY QueueAssumption DEF Deleted, EntriesFit
<1>4. EntriesFit'
  BY <1>a DEF EntriesFit
<1>5. WaitsFit'
  BY DEF WaitsFit
<1>6. Covered'
  <2> SUFFICES ASSUME NEW x \in Op, NEW k \in Path, Registered(x), k \in keys[x],
                      ~Settled(x)'
               PROVE  /\ fileMutationQueues'[k] # NoOp
                      /\ ticket[x] <= ticket[fileMutationQueues'[k]]
    BY DEF Covered
  <2>1. x # o /\ ~Settled(x)
    OBVIOUS
  <2>2. /\ fileMutationQueues[k] # NoOp
        /\ ticket[x] <= ticket[fileMutationQueues[k]]
    BY <2>1 DEF Covered
  <2>3. fileMutationQueues[k] # o
    <3> SUFFICES ASSUME fileMutationQueues[k] = o PROVE FALSE
      OBVIOUS
    <3>1. k \in keys[o] /\ ticket[x] < ticket[o]
      BY <2>1, <2>2 DEF EntriesFit, TicketsFit
    <3> QED BY <3>1, <2>1 DEF Ordered
  <2> QED BY <2>2, <2>3, <1>a
<1>7. Awaits'
  BY DEF Awaits
<1>8. Ordered'
  BY DEF Ordered
<1> QED BY <1>1, <1>2, <1>3, <1>4, <1>5, <1>6, <1>7, <1>8

\* QueueInv says nothing of which files exist.
LEMMA InvSame ==
  ASSUME QueueInv, TypeOK',
         UNCHANGED <<state, paths, registrationQueue, lookups, keys, currentQueues,
                     fileMutationQueues, registered, ticket>>
  PROVE  QueueInv'
<1> QED BY DEF QueueInv, TicketsFit, StatesFit, QueueFits, EntriesFit, WaitsFit, Covered,
               Awaits, Ordered, Registered, Settled

\* Every step keeps the invariant.
LEMMA InvStep == QueueInv /\ [Next]_vars => QueueInv'
<1> SUFFICES ASSUME QueueInv, [Next]_vars PROVE QueueInv'
  OBVIOUS
<1>0. TypeOK'
  BY TypeStep DEF QueueInv
<1>1. ASSUME NEW o \in Op, NEW p \in Path, Mutate(o, p) PROVE QueueInv'
  BY <1>0, <1>1, InvSame DEF Mutate
<1>2. CASE UNCHANGED vars
  BY <1>0, <1>2, InvSame DEF vars
<1> QED BY <1>0, <1>1, <1>2, InvCall, InvLookup, InvLookupFails, InvRegister, InvEnter,
           InvLeave DEF Next, GoesOn

\* The inductive invariant holds in every reachable state.
THEOREM QueueInvariant == Spec => []QueueInv
<1> QED BY InvInit, InvStep, PTL DEF Spec

-----------------------------------------------------------------------------
(* What follows *)

\* Two calls that run have no key in common: of two registered calls with a common
\* key, the earlier has returned when the later runs.
LEMMA InvExclusive == QueueInv => KeysExclusive
<1> SUFFICES ASSUME QueueInv, NEW o \in Op, NEW p \in Op, o # p,
                    state[o] = "running", state[p] = "running",
                    keys[o] \cap keys[p] # {}
             PROVE  FALSE
  BY DEF KeysExclusive
<1>1. Registered(o) /\ Registered(p)
  BY DEF QueueInv, StatesFit
<1>2. ticket[o] \in Nat /\ ticket[p] \in Nat /\ ticket[o] # ticket[p]
  BY <1>1 DEF QueueInv, TypeOK, TicketsFit
<1>3. ~Settled(o) /\ ~Settled(p)
  BY DEF Settled
<1>4. ~(ticket[o] < ticket[p]) /\ ~(ticket[p] < ticket[o])
  BY <1>1, <1>3 DEF QueueInv, Ordered
<1> QED BY <1>2, <1>4

\* Two mutations that run at once have no key in common, whatever sets of paths their
\* calls name, and whatever files come and go in between.
THEOREM MutationsExclusive == Spec => []KeysExclusive
<1> QED BY QueueInvariant, InvExclusive, PTL

\* Whoever is registered is waiting, runs or has returned.
LEMMA RegisteredStates ==
  ASSUME QueueInv, NEW o \in Op, Registered(o)
  PROVE  state[o] \in {"waiting", "running", "done"}
<1> QED BY DEF QueueInv, TypeOK, StatesFit

\* A mutation waits only for calls it shares a key with, and those do return: they wait,
\* run or have returned, and are not among those whose lookup failed.
THEOREM WaitsAreShared == Spec => []WaitsForSharedKey
<1>1. QueueInv => WaitsForSharedKey
  <2> SUFFICES ASSUME QueueInv, NEW o \in Op, state[o] = "waiting",
                      NEW p \in currentQueues[o]
               PROVE  /\ keys[o] \cap keys[p] # {}
                      /\ Settled(p) \/ state[p] \in {"waiting", "running"}
    BY DEF WaitsForSharedKey
  <2>1. Registered(o) /\ p \in Op
    BY DEF QueueInv, TypeOK, StatesFit
  <2>2. Registered(p) /\ keys[o] \cap keys[p] # {}
    BY <2>1 DEF QueueInv, WaitsFit
  <2> QED BY <2>1, <2>2, RegisteredStates DEF Settled
<1> QED BY <1>1, QueueInvariant, PTL

\* The map holds no entry of a call that has returned.
THEOREM NothingIsStale == Spec => []NoStaleEntry
<1>1. QueueInv => NoStaleEntry
  <2> SUFFICES ASSUME QueueInv, NEW k \in Path, fileMutationQueues[k] # NoOp
               PROVE  state[fileMutationQueues[k]] \in {"waiting", "running"}
    BY DEF NoStaleEntry
  <2>1. /\ fileMutationQueues[k] \in Op /\ Registered(fileMutationQueues[k])
        /\ ~Settled(fileMutationQueues[k])
    BY DEF QueueInv, TypeOK, EntriesFit
  <2> QED BY <2>1, RegisteredStates DEF Settled
<1> QED BY <1>1, QueueInvariant, PTL

-----------------------------------------------------------------------------
(* The queue implements KeyLocks *)

\* The locks as the queue implements them.
ticketBar == [o \in Op |-> IF state[o] \in {"waiting", "running"} THEN ticket[o] ELSE 0]
needBar == [o \in Op |-> IF ticket[o] # 0 THEN keys[o] ELSE {}]
insideBar == {o \in Op : state[o] = "running" /\ ticket[o] # 0}

\* A step that leaves the registered calls and their states alone is none of the locks.
LEMMA Stutters ==
  ASSUME registered' = registered, ticket' = ticket,
         \A o \in Op : Registered(o) => state'[o] = state[o] /\ keys'[o] = keys[o]
  PROVE  UNCHANGED Locks!vars
<1>1. ticketBar' = ticketBar
  BY DEF ticketBar, Registered
<1>2. needBar' = needBar
  BY DEF needBar, Registered
<1>3. insideBar' = insideBar
  BY DEF insideBar, Registered
<1> QED BY <1>1, <1>2, <1>3 DEF Locks!vars, ticketBar, needBar, insideBar

\* A registration is the arrival at the locks of the call's keys.
LEMMA RegisterArrives ==
  ASSUME QueueInv, NEW o \in Op, Register(o)
  PROVE  Locks!Next
<1> USE DEF QueueInv, TypeOK
<1>1. state[o] = "registering" /\ ticket[o] = 0
  BY FirstRegisters DEF Register, Registered
<1>2. keys[o] \in SUBSET Path /\ keys[o] # {} /\ registered + 1 # 0
  <2>1. lookups[o] = {} /\ lookups[o] \cup keys[o] # {}
    BY <1>1 DEF Register, StatesFit
  <2> QED BY <2>1
<1>3. ticketBar[o] = 0 /\ needBar[o] = {}
  BY <1>1 DEF ticketBar, needBar
<1>4. ticketBar' = [ticketBar EXCEPT ![o] = registered + 1]
  BY <1>1 DEF ticketBar, Register
<1>5. needBar' = [needBar EXCEPT ![o] = keys[o]]
  <2>1. ticket'[o] # 0 /\ \A x \in Op \ {o} : ticket'[x] = ticket[x]
    BY <1>2 DEF Register
  <2>2. keys' = keys
    BY DEF Register
  <2> QED BY <2>1, <2>2 DEF needBar
<1>6. insideBar' = insideBar
  BY <1>1 DEF insideBar, Register
<1>7. PICK ks \in (SUBSET Path) \ {{}} : ks = keys[o]
  BY <1>2
<1>8. Locks!Arrive(o, ks)
  BY <1>3, <1>4, <1>5, <1>6, <1>7
  DEF Locks!Arrive, Register, ticketBar, needBar, insideBar
<1>9. \E es \in (SUBSET Path) \ {{}} : Locks!Arrive(o, es)
  BY <1>7, <1>8
<1> QED BY <1>9 DEF Locks!Next

\* A mutation starts when the locks of all its keys are its own.
LEMMA EnterLocks ==
  ASSUME QueueInv, NEW o \in Op, Enter(o)
  PROVE  Locks!Next
<1> USE DEF QueueInv, TypeOK
<1>1. state[o] = "waiting" /\ Registered(o)
  BY DEF Enter, StatesFit
<1>2. ticketBar[o] # 0 /\ o \notin insideBar
  BY <1>1 DEF ticketBar, insideBar, Registered
<1>3. ASSUME NEW p \in Op, ticketBar[p] # 0, ticketBar[p] < ticketBar[o]
      PROVE  needBar[o] \cap needBar[p] = {}
  <2>1. /\ Registered(p) /\ ticket[p] < ticket[o] /\ ~Settled(p)
    BY <1>1, <1>3 DEF ticketBar, Registered, Settled
  <2>2. keys[p] \cap keys[o] = {}
    BY <2>1, EarlierHaveReturned
  <2> QED BY <2>2 DEF needBar
<1>5. \A p \in Op : ticketBar[p] # 0 /\ ticketBar[p] < ticketBar[o] => ~Locks!Conflicts(o, p)
  BY <1>3 DEF Locks!Conflicts, needBar
<1>6. ticketBar' = ticketBar
  BY <1>1 DEF ticketBar, Enter
<1>7. needBar' = needBar
  BY DEF needBar, Enter
<1>8. insideBar' = insideBar \cup {o}
  BY <1>1 DEF insideBar, Enter, Registered
<1>9. Locks!Enter(o)
  BY <1>2, <1>5, <1>6, <1>7, <1>8 DEF Locks!Enter, Enter, ticketBar, needBar, insideBar
<1> QED BY <1>9 DEF Locks!Next

\* A mutation that returns gives its locks back.
LEMMA LeaveUnlocks ==
  ASSUME QueueInv, NEW o \in Op, Leave(o), Registered(o)
  PROVE  Locks!Next
<1> USE DEF QueueInv, TypeOK
<1>1. o \in insideBar
  BY DEF insideBar, Leave, Registered
<1>2. ticketBar' = [ticketBar EXCEPT ![o] = 0]
  BY DEF ticketBar, Leave
<1>3. needBar' = needBar
  BY DEF needBar, Leave
<1>4. insideBar' = insideBar \ {o}
  BY DEF insideBar, Leave
<1>5. Locks!Leave(o)
  BY <1>1, <1>2, <1>3, <1>4 DEF Locks!Leave, Leave, ticketBar, needBar, insideBar
<1> QED BY <1>5 DEF Locks!Next

\* Every step of the queue is one of the locks or none.
LEMMA LocksStep == QueueInv /\ [Next]_vars => [Locks!Next]_(Locks!vars)
<1> SUFFICES ASSUME QueueInv, [Next]_vars PROVE [Locks!Next]_(Locks!vars)
  OBVIOUS
<1> USE DEF QueueInv, TypeOK
<1>1. ASSUME NEW o \in Op, NEW ps \in SUBSET Path, Call(o, ps)
      PROVE  UNCHANGED Locks!vars
  <2>1. \A x \in Op : Registered(x) => x # o /\ state'[x] = state[x]
    <3>1. ~Registered(o)
      BY <1>1 DEF Call, StatesFit
    <3>2. CASE ps = {}
      BY <1>1, <3>1, <3>2 DEF Call
    <3>3. CASE ps # {}
      BY <1>1, <3>1, <3>3 DEF Call
    <3> QED BY <3>2, <3>3
  <2> QED BY <1>1, <2>1, Stutters DEF Call
<1>2. ASSUME NEW o \in Op, NEW p \in Path, Lookup(o, p) PROVE UNCHANGED Locks!vars
  <2>1. ~Registered(o)
    BY <1>2, FirstRegisters DEF Lookup
  <2> QED BY <1>2, <2>1, Stutters DEF Lookup
<1>3. ASSUME NEW o \in Op, LookupFails(o) PROVE UNCHANGED Locks!vars
  <2>1. ~Registered(o)
    BY <1>3, FirstRegisters DEF LookupFails
  <2> QED BY <1>3, <2>1, Stutters DEF LookupFails
<1>4. ASSUME NEW o \in Op, Leave(o), ~Registered(o) PROVE UNCHANGED Locks!vars
  BY <1>4, Stutters DEF Leave
<1>5. ASSUME NEW o \in Op, NEW p \in Path, Mutate(o, p) PROVE UNCHANGED Locks!vars
  BY <1>5, Stutters DEF Mutate
<1>6. CASE UNCHANGED vars
  BY <1>6, Stutters DEF vars
<1> QED BY <1>1, <1>2, <1>3, <1>4, <1>5, <1>6, RegisterArrives, EnterLocks, LeaveUnlocks
        DEF Next, GoesOn

\* The promise of the queue, KeyLocks: a mutation has all its keys to itself while it
\* runs, and those that need a common key run in the order of their registration,
\* whatever sets of paths the calls name and whatever files come and go.
THEOREM QueueImplementsLocks == Spec => GrantsInOrder
<1>1. Init => Locks!Init
  BY DEF Init, Locks!Init
<1> QED BY <1>1, LocksStep, QueueInvariant, PTL DEF Spec, GrantsInOrder, Locks!Spec

-----------------------------------------------------------------------------
(* Files *)

\* When no link dangles, the keys of a call are the files its paths lead to.
KeysAreFiles ==
  /\ Present \ Removable \subseteq present
  /\ \A o \in Op :
        /\ {FileOf(q) : q \in paths[o]} = keys[o] \cup {FileOf(q) : q \in lookups[o]}
        /\ state[o] \in {"idle", "waiting", "running", "done"} => lookups[o] = {}
        /\ state[o] = "idle" => paths[o] = {} /\ keys[o] = {}

\* Two mutations that run at once lead to different files, as long as every link leads
\* to a file that is there at first and is never removed; other files may come and go.
THEOREM MutationsApart ==
  ASSUME \A q \in Link : PointsTo[q] \in Present \ Removable
  PROVE  Spec => []FilesExclusive
<1>0. ASSUME KeysAreFiles, NEW p \in Path PROVE MutationQueueKey(p) = FileOf(p)
  BY <1>0, QueueAssumption DEF KeysAreFiles, MutationQueueKey, FileOf, Path
<1>1. Init => KeysAreFiles
  BY DEF Init, KeysAreFiles
<1>2. ASSUME KeysAreFiles, QueueInv, [Next]_vars PROVE KeysAreFiles'
  <2> USE <1>2 DEF KeysAreFiles, QueueInv, TypeOK
  <2>1. ASSUME NEW o \in Op, NEW ps \in SUBSET Path, Call(o, ps) PROVE KeysAreFiles'
    <3>1. lookups'[o] = ps /\ keys'[o] = {} /\ paths'[o] = ps
      BY <2>1 DEF Call
    <3>2. ps = {} \/ state'[o] = "registering"
      BY <2>1 DEF Call
    <3>3. \A x \in Op \ {o} : /\ lookups'[x] = lookups[x] /\ keys'[x] = keys[x]
                              /\ paths'[x] = paths[x] /\ state'[x] = state[x]
      <4>1. CASE ps = {}
        BY <2>1, <4>1 DEF Call
      <4>2. CASE ps # {}
        BY <2>1, <4>2 DEF Call
      <4> QED BY <4>1, <4>2
    <3>4. present' = present /\ state'[o] # "idle"
      BY <2>1 DEF Call
    <3> QED BY <3>1, <3>2, <3>3, <3>4 DEF FileOf
  <2>2. ASSUME NEW o \in Op, NEW p \in Path, Lookup(o, p) PROVE KeysAreFiles'
    <3>1. state[o] = "registering"
      BY <2>2, FirstRegisters DEF Lookup
    <3>2. /\ keys'[o] = keys[o] \cup {FileOf(p)} /\ lookups'[o] = lookups[o] \ {p}
          /\ p \in lookups[o]
      BY <2>2, <1>0 DEF Lookup
    <3>3. keys'[o] \cup {FileOf(q) : q \in lookups'[o]}
            = keys[o] \cup {FileOf(q) : q \in lookups[o]}
      BY <3>2
    <3> QED BY <2>2, <3>1, <3>3 DEF Lookup, FileOf
  <2>3. ASSUME NEW o \in Op, LookupFails(o) PROVE KeysAreFiles'
    BY <2>3 DEF LookupFails, FileOf
  <2>4. ASSUME NEW o \in Op, Register(o) PROVE KeysAreFiles'
    BY <2>4 DEF Register, FileOf
  <2>5. ASSUME NEW o \in Op, Enter(o) PROVE KeysAreFiles'
    BY <2>5 DEF Enter, FileOf
  <2>6. ASSUME NEW o \in Op, Leave(o) PROVE KeysAreFiles'
    BY <2>6 DEF Leave, FileOf
  <2>7. ASSUME NEW o \in Op, NEW p \in Path, Mutate(o, p) PROVE KeysAreFiles'
    BY <2>7 DEF Mutate, FileOf
  <2>8. CASE UNCHANGED vars
    BY <2>8 DEF vars, FileOf
  <2> QED BY <1>2, <2>1, <2>2, <2>3, <2>4, <2>5, <2>6, <2>7, <2>8 DEF Next, GoesOn
<1>3. ASSUME KeysAreFiles, KeysExclusive PROVE FilesExclusive
  BY <1>3 DEF KeysAreFiles, KeysExclusive, FilesExclusive
<1> QED BY <1>1, <1>2, <1>3, QueueInvariant, MutationsExclusive, PTL DEF Spec

-----------------------------------------------------------------------------
(* apply_patch: the inductive invariant *)

\* A function on the paths.
OfPaths(f) == f = [p \in PatchPath |-> f[p]]

\* The patch is one of those parsed, and each path has an entry and a writer.
PatchTypes ==
  /\ patch \in Patches
  /\ phase \in {"targets", "preflight", "commit", "rollback", "answered", "failed", "crashed"}
  /\ OfPaths(entry) /\ OfPaths(theirs) /\ OfPaths(writer)
  /\ \A p \in PatchPath : writer[p] \in {"nobody", "outside", "patch", "rollback"}
  /\ at \in Nat \ {0}

\* How far the call has come: what is applied is a prefix of the patch, and nothing of it
\* before the commit.
PatchFlow ==
  /\ \E k \in 0 .. Len(patch) : applied = 1 .. k
  /\ applied # {} => phase \in {"commit", "rollback", "answered", "crashed"}
  /\ phase = "targets" => at <= Len(patch)
  /\ phase = "commit" => applied = 1 .. (at - 1) /\ at <= Len(patch) + 1 /\ (checked => at <= Len(patch))
  /\ phase = "answered" => applied = 1 .. Len(patch)
  /\ phase \in {"targets", "preflight", "commit", "answered"} =>
       rollbackErrors = {} /\ \A p \in PatchPath : writer[p] # "rollback"
  /\ phase \in {"targets", "preflight"} => ~checked

\* Who has written a file, and what its entry is then: what others wrote is in place and
\* no link, what the patch wrote is of an operation applied or not restored.
PatchWriters ==
  /\ \A p \in PatchPath :
       /\ writer[p] \in {"nobody", "outside"} => entry[p] = theirs[p]
       /\ writer[p] = "outside" => entry[p].kind # "link"
       /\ writer[p] = "patch" =>
            p \in rollbackErrors \/ \E i \in applied : Patch!PathOf(i) = p
  /\ \A i \in applied :
       \/ writer[Patch!PathOf(i)] = "patch"
       \/ writer[Patch!PathOf(i)] = "outside" /\ Patch!PathOf(i) \in late
  /\ cancelled = "early" =>
       /\ phase \in {"targets", "preflight", "failed", "crashed"}
       /\ \A p \in PatchPath : writer[p] \in {"nobody", "outside"}

\* What was read is what others left, unless they changed it since the last look or left
\* a link; of what was replaced this stays known until it is put back.
PatchReads ==
  /\ phase = "commit" /\ checked =>
       LET p == Patch!PathOf(at)
       IN  /\ entry[p] = theirs[p]
           /\ \/ theirs[p].kind = "link" \/ theirs[p] = planned[at].preflight
              \/ writer[p] = "outside" /\ p \in late
  /\ phase \in {"commit", "answered"} => \A i \in applied :
       writer[Patch!PathOf(i)] = "patch" => entry[Patch!PathOf(i)] = planned[i].next
  /\ \A i \in applied :
       LET p == Patch!PathOf(i)
       IN  \/ theirs[p] = planned[i].preflight \/ theirs[p].kind = "link"
           \/ p \in lost \/ writer[p] = "outside"
  /\ \A p \in PatchPath :
       \/ entry[p] = theirs[p] \/ theirs[p].kind = "link"
       \/ p \in rollbackErrors \cup lost \/ \E i \in applied : Patch!PathOf(i) = p
  /\ lost \subseteq late

PatchInv == PatchTypes /\ PatchFlow /\ PatchWriters /\ PatchReads
-----------------------------------------------------------------------------
(* apply_patch: the steps *)

LEMMA PathsOfPatch ==
  ASSUME patch \in Patches
  PROVE  /\ Len(patch) \in Nat \ {0} /\ DOMAIN patch = 1 .. Len(patch)
         /\ \A i \in 1 .. Len(patch) : Patch!PathOf(i) \in PatchPath
         /\ \A i, j \in 1 .. Len(patch) : Patch!PathOf(i) = Patch!PathOf(j) => i = j
  BY PatchAssumption DEF Patch!PathOf

LEMMA PatchInvInit == Patch!Init => PatchInv
<1> SUFFICES ASSUME Patch!Init PROVE PatchInv
  OBVIOUS
<1>1. /\ patch \in Patches /\ entry \in Directories /\ theirs = entry
      /\ writer = [p \in PatchPath |-> "nobody"]
      /\ phase = "targets" /\ at = 1 /\ checked = FALSE /\ applied = {} /\ rollbackErrors = {}
      /\ lost = {} /\ late = {} /\ cancelled = "no"
  BY DEF Patch!Init
<1>2. Len(patch) \in Nat \ {0}
  BY <1>1, PathsOfPatch
<1>3. PatchTypes
  <2>1. OfPaths(entry) /\ OfPaths(theirs) /\ OfPaths(writer)
    BY <1>1, PatchAssumption DEF OfPaths
  <2> QED  BY <1>1, <2>1 DEF PatchTypes
<1>4. PatchFlow
  <2>1. applied = 1 .. 0 /\ 0 \in 0 .. Len(patch)
    BY <1>1, <1>2
  <2>2. \A p \in PatchPath : writer[p] # "rollback"
    BY <1>1
  <2> QED  BY <1>1, <1>2, <2>1, <2>2 DEF PatchFlow
<1>5. PatchWriters
  BY <1>1 DEF PatchWriters
<1>6. PatchReads
  BY <1>1 DEF PatchReads
<1> QED  BY <1>3, <1>4, <1>5, <1>6 DEF PatchInv

\* The steps before the commit.
LEMMA InvPlanning ==
  ASSUME PatchInv, Patch!CheckTarget \/ Patch!PlanOperation
  PROVE  PatchInv'
<1>0. PatchTypes /\ PatchFlow /\ PatchWriters /\ PatchReads
  BY DEF PatchInv
<1>1. /\ phase \in {"targets", "preflight"}
      /\ UNCHANGED <<entry, patch, applied, rollbackErrors, cancelled, theirs, writer, late, lost, checked>>
  BY DEF Patch!CheckTarget, Patch!PlanOperation, Patch!Unchanged, Patch!history
<1>2. Len(patch) \in Nat \ {0}
  BY <1>0, PathsOfPatch DEF PatchTypes
<1>3. /\ phase' \in {"targets", "preflight", "failed"} /\ at' \in Nat \ {0}
      /\ phase' = "targets" => at' <= Len(patch)
  <2>1. at \in Nat \ {0} /\ (phase = "targets" => at <= Len(patch))
    BY <1>0 DEF PatchTypes, PatchFlow
  <2>2. CASE Patch!CheckTarget
    BY <1>2, <2>1, <2>2 DEF Patch!CheckTarget, Patch!Fail
  <2>3. CASE Patch!PlanOperation
    BY <1>2, <2>1, <2>3 DEF Patch!PlanOperation, Patch!Fail
  <2> QED  BY <2>2, <2>3
<1>4. applied = {}
  BY <1>0, <1>1 DEF PatchFlow
<1>5. PatchTypes'
  BY <1>0, <1>1, <1>3 DEF PatchTypes
<1>6. PatchFlow'
  BY <1>0, <1>1, <1>3, <1>4 DEF PatchFlow
<1>7. PatchWriters'
  BY <1>0, <1>1, <1>3, <1>4 DEF PatchWriters
<1>8. PatchReads'
  BY <1>0, <1>1, <1>3, <1>4 DEF PatchReads
<1> QED  BY <1>5, <1>6, <1>7, <1>8 DEF PatchInv

LEMMA InvBeginCommit ==
  ASSUME PatchInv, Patch!BeginCommit
  PROVE  PatchInv'
<1>0. PatchTypes /\ PatchFlow /\ PatchWriters /\ PatchReads
  BY DEF PatchInv
<1>1. /\ phase = "preflight"
      /\ UNCHANGED <<entry, patch, applied, rollbackErrors, cancelled, theirs, writer, late, lost, checked,
                     planned>>
      /\ \/ phase' = "failed" /\ at' = at
         \/ cancelled = "no" /\ phase' = "commit" /\ at' = 1
  BY DEF Patch!BeginCommit, Patch!Unchanged, Patch!history, Patch!Fail, Patch!Aborted
<1>2. Len(patch) \in Nat \ {0}
  BY <1>0, PathsOfPatch DEF PatchTypes
<1>3. applied = {} /\ ~checked
  BY <1>0, <1>1 DEF PatchFlow
<1>4. PatchTypes'
  BY <1>0, <1>1 DEF PatchTypes
<1>5. PatchFlow'
  <2>1. 1 .. (1 - 1) = {}
    OBVIOUS
  <2> QED  BY <1>0, <1>1, <1>2, <1>3, <2>1 DEF PatchFlow
<1>6. PatchWriters'
  BY <1>0, <1>1, <1>3 DEF PatchWriters
<1>7. PatchReads'
  BY <1>0, <1>1, <1>3 DEF PatchReads
<1> QED  BY <1>4, <1>5, <1>6, <1>7 DEF PatchInv

\* The steps that only go on to how the call ends, or to the rollback.
LEMMA InvPasses ==
  ASSUME PatchInv, Patch!Answer \/ Patch!FailOperation \/ Patch!Throw \/ Patch!Crash
  PROVE  PatchInv'
<1>0. PatchTypes /\ PatchFlow /\ PatchWriters /\ PatchReads
  BY DEF PatchInv
<1>1. UNCHANGED <<entry, patch, applied, rollbackErrors, cancelled, theirs, writer, late, lost, checked,
                  planned, at>>
  BY DEF Patch!Answer, Patch!FailOperation, Patch!Throw, Patch!Crash, Patch!Unchanged, Patch!history
<1>2. \/ phase = "commit" /\ at > Len(patch) /\ phase' = "answered"
      \/ phase = "commit" /\ phase' = "rollback"
      \/ phase \in {"targets", "preflight"} /\ phase' = "failed"
      \/ phase = "rollback" /\ applied = {} /\ phase' = "failed"
      \/ phase' = "crashed"
  BY DEF Patch!Answer, Patch!FailOperation, Patch!Throw, Patch!Crash, Patch!Fail
<1>3. cancelled = "early" => phase \in {"targets", "preflight"} \/ phase' = "crashed"
  BY <1>0, <1>2 DEF PatchWriters
<1>4. PatchTypes'
  BY <1>0, <1>1, <1>2 DEF PatchTypes
<1>5. PatchFlow'
  <2>1. Len(patch) \in Nat \ {0} /\ at \in Nat
    BY <1>0, PathsOfPatch DEF PatchTypes
  <2>2. phase' = "answered" => applied = 1 .. Len(patch)
    <3> SUFFICES ASSUME phase' = "answered" PROVE applied = 1 .. Len(patch)
      OBVIOUS
    <3>1. phase = "commit" /\ at > Len(patch)
      BY <1>2
    <3>2. at = Len(patch) + 1 /\ applied = 1 .. (at - 1)
      BY <1>0, <2>1, <3>1 DEF PatchFlow
    <3> QED  BY <2>1, <3>2
  <2>3. applied # {} => phase' \in {"commit", "rollback", "answered", "crashed"}
    BY <1>0, <1>2 DEF PatchFlow
  <2>4. phase' = "answered" => rollbackErrors = {} /\ \A p \in PatchPath : writer[p] # "rollback"
    BY <1>0, <1>2 DEF PatchFlow
  <2>5. phase' \in {"answered", "rollback", "failed", "crashed"}
    BY <1>2
  <2> QED  BY <1>0, <1>1, <2>2, <2>3, <2>4, <2>5 DEF PatchFlow
<1>6. PatchWriters'
  BY <1>0, <1>1, <1>2, <1>3 DEF PatchWriters, Patch!PathOf
<1>7. PatchReads'
  <2>1. phase' # "commit" /\ (phase' = "answered" => phase = "commit")
    BY <1>2
  <2> QED  BY <1>0, <1>1, <2>1 DEF PatchReads, Patch!PathOf
<1> QED  BY <1>4, <1>5, <1>6, <1>7 DEF PatchInv

\* A file that passes the last look is as others left it, unless they left a link.
LEMMA InvCheck ==
  ASSUME PatchInv, Patch!CheckPreflight
  PROVE  PatchInv'
<1>0. PatchTypes /\ PatchFlow /\ PatchWriters /\ PatchReads
  BY DEF PatchInv
<1> DEFINE p == Patch!PathOf(at)
<1>1. /\ phase = "commit" /\ at <= Len(patch) /\ ~checked
      /\ UNCHANGED <<entry, patch, applied, rollbackErrors, cancelled, theirs, writer, late, lost, planned, at>>
      /\ \/ Patch!StateOf(p) = planned[at].preflight /\ checked' = TRUE /\ phase' = "commit"
         \/ phase' = "rollback" /\ ~checked'
  BY <1>0 DEF Patch!CheckPreflight, Patch!Unchanged, Patch!history, Patch!PreflightUnchanged, PatchTypes
<1>2. /\ Len(patch) \in Nat \ {0} /\ at \in 1 .. Len(patch) /\ p \in PatchPath
      /\ \A i, j \in 1 .. Len(patch) : Patch!PathOf(i) = Patch!PathOf(j) => i = j
  BY <1>0, <1>1, PathsOfPatch DEF PatchTypes
<1>3. applied = 1 .. (at - 1)
  BY <1>0, <1>1 DEF PatchFlow
<1>4. writer[p] \in {"nobody", "outside"}
  <2>1. writer[p] \in {"nobody", "outside", "patch", "rollback"}
    BY <1>0, <1>2 DEF PatchTypes
  <2>2. writer[p] # "rollback" /\ rollbackErrors = {}
    BY <1>0, <1>1, <1>2 DEF PatchFlow
  <2>3. ASSUME NEW i \in applied, Patch!PathOf(i) = p
        PROVE  FALSE
    BY <1>2, <1>3, <2>3
  <2>4. writer[p] # "patch"
    BY <1>0, <1>2, <2>2, <2>3 DEF PatchWriters
  <2> QED  BY <2>1, <2>2, <2>4
<1>5. entry[p] = theirs[p]
  BY <1>0, <1>2, <1>4 DEF PatchWriters
<1>6. checked' => entry[p].kind = "link" \/ entry[p] = planned[at].preflight
  BY <1>1 DEF Patch!StateOf
<1>7. PatchTypes'
  BY <1>0, <1>1 DEF PatchTypes
<1>8. PatchFlow'
  BY <1>0, <1>1 DEF PatchFlow
<1>9. PatchWriters'
  BY <1>0, <1>1 DEF PatchWriters, Patch!PathOf
<1>10. PatchReads'
  BY <1>0, <1>1, <1>5, <1>6 DEF PatchReads, Patch!PathOf
<1> QED  BY <1>7, <1>8, <1>9, <1>10 DEF PatchInv

\* An operation is applied to a file that is as it was read, or changed since.
LEMMA InvApply ==
  ASSUME PatchInv, Patch!ApplyOperation
  PROVE  PatchInv'
<1>0. PatchTypes /\ PatchFlow /\ PatchWriters /\ PatchReads
  BY DEF PatchInv
<1> DEFINE p == Patch!PathOf(at)
<1>1. /\ phase = "commit" /\ checked
      /\ UNCHANGED <<patch, planned, rollbackErrors>>
  BY DEF Patch!ApplyOperation
<1>2. /\ Len(patch) \in Nat \ {0} /\ at \in 1 .. Len(patch) /\ p \in PatchPath
      /\ \A i, j \in 1 .. Len(patch) : Patch!PathOf(i) = Patch!PathOf(j) => i = j
      /\ \A i \in 1 .. Len(patch) : Patch!PathOf(i) \in PatchPath
  BY <1>0, <1>1, PathsOfPatch DEF PatchTypes, PatchFlow
<1>3. applied = 1 .. (at - 1) /\ rollbackErrors = {} /\ cancelled # "early"
  BY <1>0, <1>1 DEF PatchFlow, PatchWriters
<1>4. CASE phase' = "rollback"
  <2>1. UNCHANGED <<entry, at, checked, applied, cancelled, theirs, writer, late, lost>>
    BY <1>1, <1>4 DEF Patch!ApplyOperation, Patch!history
  <2>2. PatchTypes'
    BY <1>0, <1>1, <1>4, <2>1 DEF PatchTypes
  <2>3. PatchFlow'
    BY <1>0, <1>1, <1>4, <2>1 DEF PatchFlow
  <2>4. PatchWriters'
    BY <1>0, <1>1, <1>3, <1>4, <2>1 DEF PatchWriters, Patch!PathOf
  <2>5. PatchReads'
    BY <1>0, <1>1, <1>4, <2>1 DEF PatchReads, Patch!PathOf
  <2> QED  BY <2>2, <2>3, <2>4, <2>5 DEF PatchInv
<1>5. CASE phase' # "rollback"
  <2>1. /\ entry' = [entry EXCEPT ![p] = planned[at].next]
        /\ writer' = [writer EXCEPT ![p] = "patch"]
        /\ lost' = (IF writer[p] = "outside" /\ entry[p] # planned[at].preflight THEN lost \cup {p} ELSE lost)
        /\ UNCHANGED <<cancelled, theirs, late>>
        /\ applied' = applied \cup {at} /\ at' = at + 1 /\ checked' = FALSE /\ phase' = "commit"
    BY <1>1, <1>5 DEF Patch!ApplyOperation, Patch!Replace
  <2>2. applied' = 1 .. at /\ at \in 0 .. Len(patch)
    BY <1>2, <1>3, <2>1
  <2>3. \A i \in 1 .. Len(patch) : Patch!PathOf(i)' = Patch!PathOf(i)
    BY <1>1 DEF Patch!PathOf
  <2>4. /\ writer'[p] = "patch" /\ entry'[p] = planned[at].next
        /\ \A q \in PatchPath \ {p} : writer'[q] = writer[q] /\ entry'[q] = entry[q]
    BY <1>0, <1>2, <2>1 DEF PatchTypes, OfPaths
  <2>5. \A i \in applied : Patch!PathOf(i) \in PatchPath \ {p}
    BY <1>2, <1>3
  <2>6. PatchTypes'
    <3>1. OfPaths(entry') /\ OfPaths(writer')
      BY <1>0, <2>1 DEF PatchTypes, OfPaths
    <3>2. \A q \in PatchPath : writer'[q] \in {"nobody", "outside", "patch", "rollback"}
      BY <1>0, <2>4 DEF PatchTypes
    <3> QED  BY <1>0, <1>1, <2>1, <3>1, <3>2 DEF PatchTypes
  <2>7. PatchFlow'
    <3>1. \A q \in PatchPath : writer'[q] # "rollback"
      BY <1>0, <1>1, <2>4 DEF PatchFlow
    <3>2. applied' = 1 .. (at' - 1) /\ at' <= Len(patch) + 1
      BY <1>2, <2>1, <2>2
    <3> QED  BY <1>1, <1>3, <2>1, <2>2, <3>1, <3>2 DEF PatchFlow
  <2>8. PatchWriters'
    <3>1. ASSUME NEW q \in PatchPath
          PROVE  /\ writer'[q] \in {"nobody", "outside"} => entry'[q] = theirs[q]
                 /\ writer'[q] = "outside" => entry'[q].kind # "link"
                 /\ writer'[q] = "patch" => \E i \in applied' : Patch!PathOf(i) = q
      <4>1. CASE q = p
        BY <2>1, <2>4, <4>1
      <4>2. CASE q # p
        BY <1>0, <1>3, <2>1, <2>4, <4>2 DEF PatchWriters
      <4> QED  BY <4>1, <4>2
    <3>2. ASSUME NEW i \in applied'
          PROVE  \/ writer'[Patch!PathOf(i)] = "patch"
                 \/ writer'[Patch!PathOf(i)] = "outside" /\ Patch!PathOf(i) \in late
      BY <1>0, <2>1, <2>4, <2>5 DEF PatchWriters
    <3>3. \A i \in applied' : i \in 1 .. Len(patch)
      BY <1>2, <2>2
    <3> QED  BY <1>1, <1>3, <2>1, <2>3, <3>1, <3>2, <3>3 DEF PatchWriters
  <2>9. PatchReads'
    <3>1. /\ entry[p] = theirs[p]
          /\ \/ theirs[p].kind = "link" \/ theirs[p] = planned[at].preflight
             \/ writer[p] = "outside" /\ p \in late
      BY <1>0, <1>1 DEF PatchReads
    <3>2. lost \subseteq lost' /\ (lost' # lost => lost' = lost \cup {p})
      BY <2>1
    <3>3. theirs[p] = planned[at].preflight \/ theirs[p].kind = "link" \/ p \in lost'
      BY <2>1, <3>1
    <3>4. lost' # lost => p \in late
      <4> SUFFICES ASSUME lost' # lost PROVE p \in late
        OBVIOUS
      <4>1. writer[p] = "outside" /\ entry[p] # planned[at].preflight
        BY <2>1
      <4>2. entry[p].kind # "link"
        BY <1>0, <1>2, <4>1 DEF PatchWriters
      <4> QED  BY <3>1, <4>1, <4>2
    <3>5. lost' \subseteq late
      BY <1>0, <3>2, <3>4 DEF PatchReads
    <3>6. ASSUME NEW i \in applied'
          PROVE  writer'[Patch!PathOf(i)] = "patch" => entry'[Patch!PathOf(i)] = planned[i].next
      BY <1>0, <1>1, <2>1, <2>4, <2>5 DEF PatchReads
    <3>7. ASSUME NEW i \in applied'
          PROVE  \/ theirs[Patch!PathOf(i)] = planned[i].preflight \/ theirs[Patch!PathOf(i)].kind = "link"
                 \/ Patch!PathOf(i) \in lost' \/ writer'[Patch!PathOf(i)] = "outside"
      <4>1. CASE i = at
        BY <3>3, <4>1
      <4>2. CASE i \in applied
        <5>1. writer'[Patch!PathOf(i)] = writer[Patch!PathOf(i)]
          BY <2>4, <2>5, <4>2
        <5> QED  BY <1>0, <3>2, <4>2, <5>1 DEF PatchReads
      <4> QED  BY <2>1, <4>1, <4>2
    <3>8. ASSUME NEW q \in PatchPath
          PROVE  \/ entry'[q] = theirs[q] \/ theirs[q].kind = "link"
                 \/ q \in rollbackErrors \cup lost' \/ \E i \in applied' : Patch!PathOf(i) = q
      <4>1. CASE q = p
        BY <2>1, <4>1
      <4>2. CASE q # p
        <5>1. entry'[q] = entry[q]
          BY <2>4, <4>2
        <5> QED  BY <1>0, <2>1, <3>2, <5>1 DEF PatchReads
      <4> QED  BY <4>1, <4>2
    <3>9. \A i \in applied' : i \in 1 .. Len(patch)
      BY <1>2, <2>2
    <3> QED  BY <1>1, <2>1, <2>3, <3>5, <3>6, <3>7, <3>8, <3>9 DEF PatchReads
  <2> QED  BY <2>6, <2>7, <2>8, <2>9 DEF PatchInv
<1> QED  BY <1>4, <1>5

\* The rollback takes back the last operation that is applied.
LEMMA LastApplied ==
  ASSUME NEW k \in Nat, applied = 1 .. k, applied # {}
  PROVE  Patch!Restoring = k /\ k \in applied /\ applied \ {k} = 1 .. (k - 1)
<1>1. k \in applied /\ \A j \in applied : k >= j
  OBVIOUS
<1>2. \A m \in applied : (\A j \in applied : m >= j) => m = k
  BY <1>1
<1>3. Patch!Max(applied) = k
  BY <1>1, <1>2 DEF Patch!Max
<1> QED  BY <1>1, <1>3 DEF Patch!Restoring

LEMMA InvRestore ==
  ASSUME PatchInv, Patch!Restore
  PROVE  PatchInv'
<1>0. PatchTypes /\ PatchFlow /\ PatchWriters /\ PatchReads
  BY DEF PatchInv
<1>1. PICK k \in 0 .. Len(patch) : applied = 1 .. k
  BY <1>0 DEF PatchFlow
<1> DEFINE p == Patch!PathOf(k)
<1>2. phase = "rollback" /\ phase' = phase /\ applied # {} /\ UNCHANGED <<patch, planned, checked, at>>
  BY DEF Patch!Restore
<1>3. /\ Len(patch) \in Nat \ {0}
      /\ \A i, j \in 1 .. Len(patch) : Patch!PathOf(i) = Patch!PathOf(j) => i = j
      /\ \A i \in 1 .. Len(patch) : Patch!PathOf(i) \in PatchPath
  BY <1>0, PathsOfPatch DEF PatchTypes
<1>4. /\ Patch!Restoring = k /\ k \in applied /\ k \in 1 .. Len(patch) /\ p \in PatchPath
      /\ applied \ {k} = 1 .. (k - 1) /\ k - 1 \in 0 .. Len(patch)
      /\ \A i \in applied : i \in 1 .. Len(patch)
  <2>1. Patch!Restoring = k /\ k \in applied /\ applied \ {k} = 1 .. (k - 1)
    BY <1>1, <1>2, <1>3, LastApplied
  <2> QED  BY <1>1, <1>3, <2>1
<1>5. /\ applied' = applied \ {k} /\ cancelled' = cancelled /\ theirs' = theirs /\ late' = late
      /\ \/ /\ entry' = [entry EXCEPT ![p] = planned[k].preflight]
            /\ writer' = [writer EXCEPT ![p] = "rollback"]
            /\ lost' = (IF writer[p] = "outside" /\ entry[p] # planned[k].preflight THEN lost \cup {p} ELSE lost)
            /\ rollbackErrors' = rollbackErrors
         \/ rollbackErrors' = rollbackErrors \cup {p} /\ UNCHANGED <<entry, writer, lost>>
  BY <1>4 DEF Patch!Restore, Patch!Replace, Patch!Restored, Patch!history
<1>6. \A i \in 1 .. Len(patch) : Patch!PathOf(i)' = Patch!PathOf(i)
  BY <1>2 DEF Patch!PathOf
<1>7. /\ \A q \in PatchPath \ {p} : writer'[q] = writer[q] /\ entry'[q] = entry[q]
      /\ writer'[p] \in {"rollback", writer[p]}
      /\ writer'[p] = "rollback" \/ (p \in rollbackErrors' /\ entry'[p] = entry[p])
  BY <1>0, <1>4, <1>5 DEF PatchTypes, OfPaths
<1>8. \A i \in applied' : i \in applied /\ i \in 1 .. Len(patch) /\ Patch!PathOf(i) \in PatchPath \ {p}
  BY <1>3, <1>4, <1>5
<1>9. cancelled # "early"
  BY <1>0, <1>2 DEF PatchWriters
<1>10. PatchTypes'
  <2>1. OfPaths(entry') /\ OfPaths(writer')
    BY <1>0, <1>5 DEF PatchTypes, OfPaths
  <2>2. \A q \in PatchPath : writer'[q] \in {"nobody", "outside", "patch", "rollback"}
    BY <1>0, <1>7 DEF PatchTypes
  <2> QED  BY <1>0, <1>2, <1>5, <2>1, <2>2 DEF PatchTypes
<1>11. PatchFlow'
  BY <1>2, <1>4, <1>5 DEF PatchFlow
<1>12. rollbackErrors \subseteq rollbackErrors' /\ lost \subseteq lost'
  BY <1>5
<1>13. PatchWriters'
  <2>1. ASSUME NEW q \in PatchPath
        PROVE  /\ writer'[q] \in {"nobody", "outside"} => entry'[q] = theirs[q]
               /\ writer'[q] = "outside" => entry'[q].kind # "link"
               /\ writer'[q] = "patch" => q \in rollbackErrors' \/ \E i \in applied' : Patch!PathOf(i) = q
    <3>1. CASE q = p
      BY <1>0, <1>7, <3>1 DEF PatchWriters
    <3>2. CASE q # p
      <4>1. \A i \in applied : Patch!PathOf(i) = q => i \in applied'
        BY <1>5, <3>2
      <4> QED  BY <1>0, <1>7, <1>12, <3>2, <4>1 DEF PatchWriters
    <3> QED  BY <3>1, <3>2
  <2>2. ASSUME NEW i \in applied'
        PROVE  \/ writer'[Patch!PathOf(i)] = "patch"
               \/ writer'[Patch!PathOf(i)] = "outside" /\ Patch!PathOf(i) \in late
    BY <1>0, <1>7, <1>8 DEF PatchWriters
  <2> QED  BY <1>5, <1>6, <1>8, <1>9, <2>1, <2>2 DEF PatchWriters
<1>14. PatchReads'
  <2>1. /\ theirs[p] = planned[k].preflight \/ theirs[p].kind = "link"
           \/ p \in lost \/ writer[p] = "outside"
        /\ writer[p] = "outside" => p \in late /\ entry[p] = theirs[p]
    BY <1>0, <1>4 DEF PatchReads, PatchWriters
  <2>2. lost' \subseteq late
    BY <1>0, <1>5, <2>1 DEF PatchReads
  <2>3. ASSUME NEW i \in applied'
        PROVE  \/ theirs[Patch!PathOf(i)] = planned[i].preflight \/ theirs[Patch!PathOf(i)].kind = "link"
               \/ Patch!PathOf(i) \in lost' \/ writer'[Patch!PathOf(i)] = "outside"
    <3>1. writer'[Patch!PathOf(i)] = writer[Patch!PathOf(i)]
      BY <1>7, <1>8
    <3> QED  BY <1>0, <1>8, <1>12, <3>1 DEF PatchReads
  <2>4. entry'[p] = theirs[p] \/ theirs[p].kind = "link" \/ p \in rollbackErrors' \cup lost'
    <3>1. CASE rollbackErrors' = rollbackErrors \cup {p}
      BY <3>1
    <3>2. CASE /\ entry' = [entry EXCEPT ![p] = planned[k].preflight]
               /\ lost' = (IF writer[p] = "outside" /\ entry[p] # planned[k].preflight
                           THEN lost \cup {p} ELSE lost)
      <4>1. entry'[p] = planned[k].preflight
        BY <1>0, <1>4, <3>2 DEF PatchTypes, OfPaths
      <4> QED  BY <2>1, <3>2, <4>1
    <3> QED  BY <1>5, <3>1, <3>2
  <2>5. ASSUME NEW q \in PatchPath
        PROVE  \/ entry'[q] = theirs[q] \/ theirs[q].kind = "link"
               \/ q \in rollbackErrors' \cup lost' \/ \E i \in applied' : Patch!PathOf(i) = q
    <3>1. CASE q = p
      BY <2>4, <3>1
    <3>2. CASE q # p
      <4>1. entry'[q] = entry[q]
        BY <1>7, <3>2
      <4>2. \A i \in applied : Patch!PathOf(i) = q => i \in applied'
        BY <1>5, <3>2
      <4> QED  BY <1>0, <1>12, <4>1, <4>2 DEF PatchReads
    <3> QED  BY <3>1, <3>2
  <2> QED  BY <1>2, <1>5, <1>6, <1>8, <2>2, <2>3, <2>5 DEF PatchReads
<1> QED  BY <1>10, <1>11, <1>13, <1>14 DEF PatchInv

\* Another program changes a file, whenever it likes.
LEMMA InvEdit ==
  ASSUME PatchInv, NEW p \in PatchPath, NEW e \in Outside, Patch!Edit(p, e)
  PROVE  PatchInv'
<1>0. PatchTypes /\ PatchFlow /\ PatchWriters /\ PatchReads
  BY DEF PatchInv
<1>1. /\ phase \notin {"answered", "failed", "crashed"}
      /\ entry' = [entry EXCEPT ![p] = e] /\ theirs' = [theirs EXCEPT ![p] = e]
      /\ writer' = [writer EXCEPT ![p] = "outside"]
      /\ late' = (IF \E i \in DOMAIN patch : Patch!PathOf(i) = p /\ Patch!LookedAt(i)
                  THEN late \cup {p} ELSE late)
      /\ UNCHANGED <<patch, phase, at, planned, checked, applied, rollbackErrors, cancelled, lost>>
  BY DEF Patch!Edit, Patch!Ended
<1>2. /\ Len(patch) \in Nat \ {0} /\ DOMAIN patch = 1 .. Len(patch)
      /\ \A i \in 1 .. Len(patch) : Patch!PathOf(i) \in PatchPath
  BY <1>0, PathsOfPatch DEF PatchTypes
<1>3. \A i \in 1 .. Len(patch) : Patch!PathOf(i)' = Patch!PathOf(i)
  BY <1>1 DEF Patch!PathOf
<1>4. /\ entry'[p] = e /\ theirs'[p] = e /\ writer'[p] = "outside" /\ e.kind # "link"
      /\ \A q \in PatchPath \ {p} : /\ entry'[q] = entry[q] /\ theirs'[q] = theirs[q]
                                    /\ writer'[q] = writer[q]
  BY <1>0, <1>1, PatchAssumption DEF PatchTypes, OfPaths
<1>5. \A i \in applied : i \in 1 .. Len(patch)
  <2>1. PICK k \in 0 .. Len(patch) : applied = 1 .. k
    BY <1>0 DEF PatchFlow
  <2> QED  BY <1>2, <2>1
<1>6. late \subseteq late'
  BY <1>1
<1>7. \A i \in applied : Patch!PathOf(i) = p => p \in late'
  <2> SUFFICES ASSUME NEW i \in applied, Patch!PathOf(i) = p PROVE p \in late'
    OBVIOUS
  <2>1. phase \in {"commit", "rollback"}
    BY <1>0, <1>1 DEF PatchFlow
  <2>2. Patch!LookedAt(i)
    <3>1. CASE phase = "rollback"
      BY <3>1 DEF Patch!LookedAt
    <3>2. CASE phase = "commit"
      <4>1. applied = 1 .. (at - 1) /\ at \in Nat
        BY <1>0, <3>2 DEF PatchFlow, PatchTypes
      <4>2. i < at
        BY <4>1
      <4> QED  BY <3>2, <4>2 DEF Patch!LookedAt
    <3> QED  BY <2>1, <3>1, <3>2
  <2> QED  BY <1>1, <1>2, <1>5, <2>2
<1>8. phase = "commit" /\ checked /\ Patch!PathOf(at) = p => p \in late'
  <2> SUFFICES ASSUME phase = "commit", checked, Patch!PathOf(at) = p PROVE p \in late'
    OBVIOUS
  <2>1. at \in DOMAIN patch
    BY <1>0, <1>2 DEF PatchFlow, PatchTypes
  <2>2. Patch!LookedAt(at)
    BY DEF Patch!LookedAt
  <2> QED  BY <1>1, <2>1, <2>2
<1>9. PatchTypes'
  <2>1. OfPaths(entry') /\ OfPaths(writer') /\ OfPaths(theirs')
    BY <1>0, <1>1 DEF PatchTypes, OfPaths
  <2>2. \A q \in PatchPath : writer'[q] \in {"nobody", "outside", "patch", "rollback"}
    BY <1>0, <1>4 DEF PatchTypes
  <2> QED  BY <1>0, <1>1, <2>1, <2>2 DEF PatchTypes
<1>10. PatchFlow'
  <2>1. (\A q \in PatchPath : writer[q] # "rollback") => \A q \in PatchPath : writer'[q] # "rollback"
    BY <1>4
  <2> QED  BY <1>0, <1>1, <2>1 DEF PatchFlow
<1>11. PatchWriters'
  <2>1. ASSUME NEW q \in PatchPath
        PROVE  /\ writer'[q] \in {"nobody", "outside"} => entry'[q] = theirs'[q]
               /\ writer'[q] = "outside" => entry'[q].kind # "link"
               /\ writer'[q] = "patch" => q \in rollbackErrors \/ \E i \in applied : Patch!PathOf(i) = q
    <3>1. CASE q = p
      BY <1>4, <3>1
    <3>2. CASE q # p
      BY <1>0, <1>4, <3>2 DEF PatchWriters
    <3> QED  BY <3>1, <3>2
  <2>2. ASSUME NEW i \in applied
        PROVE  \/ writer'[Patch!PathOf(i)] = "patch"
               \/ writer'[Patch!PathOf(i)] = "outside" /\ Patch!PathOf(i) \in late'
    <3>1. CASE Patch!PathOf(i) = p
      BY <1>4, <1>7, <3>1
    <3>2. CASE Patch!PathOf(i) # p
      BY <1>0, <1>2, <1>4, <1>5, <1>6, <3>2 DEF PatchWriters
    <3> QED  BY <3>1, <3>2
  <2>3. cancelled = "early" => /\ phase \in {"targets", "preflight", "failed", "crashed"}
                               /\ \A q \in PatchPath : writer'[q] \in {"nobody", "outside"}
    BY <1>0, <1>4 DEF PatchWriters
  <2> QED  BY <1>1, <1>3, <1>5, <2>1, <2>2, <2>3 DEF PatchWriters
<1>12. PatchReads'
  <2>1. phase = "commit" /\ checked => at \in 1 .. Len(patch)
    BY <1>0, <1>2 DEF PatchFlow, PatchTypes
  <2>2. ASSUME phase = "commit", checked
        PROVE  /\ entry'[Patch!PathOf(at)] = theirs'[Patch!PathOf(at)]
               /\ \/ theirs'[Patch!PathOf(at)].kind = "link"
                  \/ theirs'[Patch!PathOf(at)] = planned[at].preflight
                  \/ writer'[Patch!PathOf(at)] = "outside" /\ Patch!PathOf(at) \in late'
    <3>1. CASE Patch!PathOf(at) = p
      BY <1>4, <1>8, <2>2, <3>1
    <3>2. CASE Patch!PathOf(at) # p
      <4>1. Patch!PathOf(at) \in PatchPath \ {p}
        BY <1>2, <2>1, <2>2, <3>2
      <4> HIDE <3>2
      <4> QED  BY <1>0, <1>4, <1>6, <2>2, <4>1 DEF PatchReads
    <3> QED  BY <3>1, <3>2
  <2>3. ASSUME NEW i \in applied, phase \in {"commit", "answered"},
               writer'[Patch!PathOf(i)] = "patch"
        PROVE  entry'[Patch!PathOf(i)] = planned[i].next
    <3>1. Patch!PathOf(i) \in PatchPath \ {p}
      BY <1>2, <1>4, <1>5, <2>3
    <3> QED  BY <1>0, <1>4, <2>3, <3>1 DEF PatchReads
  <2>4. ASSUME NEW i \in applied
        PROVE  \/ theirs'[Patch!PathOf(i)] = planned[i].preflight \/ theirs'[Patch!PathOf(i)].kind = "link"
               \/ Patch!PathOf(i) \in lost \/ writer'[Patch!PathOf(i)] = "outside"
    <3>1. CASE Patch!PathOf(i) = p
      BY <1>4, <3>1
    <3>2. CASE Patch!PathOf(i) # p
      <4>1. Patch!PathOf(i) \in PatchPath \ {p}
        BY <1>2, <1>5, <3>2
      <4> QED  BY <1>0, <1>4, <4>1 DEF PatchReads
    <3> QED  BY <3>1, <3>2
  <2>5. ASSUME NEW q \in PatchPath
        PROVE  \/ entry'[q] = theirs'[q] \/ theirs'[q].kind = "link"
               \/ q \in rollbackErrors \cup lost \/ \E i \in applied : Patch!PathOf(i) = q
    <3>1. CASE q = p
      BY <1>4, <3>1
    <3>2. CASE q # p
      <4>1. entry'[q] = entry[q] /\ theirs'[q] = theirs[q]
        BY <1>4, <3>2
      <4> QED  BY <1>0, <4>1 DEF PatchReads
    <3> QED  BY <3>1, <3>2
  <2>6. lost \subseteq late'
    BY <1>0, <1>6 DEF PatchReads
  <2> QED  BY <1>1, <1>3, <1>5, <2>1, <2>2, <2>3, <2>4, <2>5, <2>6 DEF PatchReads
<1> QED  BY <1>9, <1>10, <1>11, <1>12 DEF PatchInv

LEMMA InvAbort ==
  ASSUME PatchInv, Patch!Abort \/ UNCHANGED Patch!vars
  PROVE  PatchInv'
<1>0. PatchTypes /\ PatchFlow /\ PatchWriters /\ PatchReads
  BY DEF PatchInv
<1>1. UNCHANGED <<entry, patch, phase, at, planned, checked, applied, rollbackErrors, theirs, writer, late, lost>>
  BY DEF Patch!Abort, Patch!vars, Patch!history
<1>2. cancelled' = "early" =>
        cancelled = "early" \/ phase \notin {"commit", "rollback", "answered", "failed", "crashed"}
  BY DEF Patch!Abort, Patch!Ended, Patch!vars, Patch!history
<1>3. PatchTypes'
  BY <1>0, <1>1 DEF PatchTypes
<1>4. PatchFlow'
  BY <1>0, <1>1 DEF PatchFlow
<1>5. PatchWriters'
  <2>1. ASSUME cancelled' = "early"
        PROVE  /\ phase \in {"targets", "preflight", "failed", "crashed"}
               /\ \A p \in PatchPath : writer[p] \in {"nobody", "outside"}
    <3>1. CASE cancelled = "early"
      BY <1>0, <3>1 DEF PatchWriters
    <3>2. CASE phase \in {"targets", "preflight"}
      <4>1. applied = {} /\ rollbackErrors = {} /\ \A p \in PatchPath : writer[p] # "rollback"
        BY <1>0, <3>2 DEF PatchFlow
      <4>2. \A p \in PatchPath : writer[p] \in {"nobody", "outside"}
        BY <1>0, <4>1 DEF PatchTypes, PatchWriters
      <4> QED  BY <3>2, <4>2
    <3> QED  BY <1>0, <1>2, <2>1, <3>1, <3>2 DEF PatchTypes
  <2> QED  BY <1>0, <1>1, <2>1 DEF PatchWriters, Patch!PathOf
<1>6. PatchReads'
  BY <1>0, <1>1 DEF PatchReads, Patch!PathOf
<1> QED  BY <1>3, <1>4, <1>5, <1>6 DEF PatchInv

LEMMA PatchInvStep ==
  ASSUME PatchInv, [Patch!Next]_(Patch!vars)
  PROVE  PatchInv'
BY InvPlanning, InvBeginCommit, InvPasses, InvCheck, InvApply, InvRestore, InvEdit, InvAbort
DEF Patch!Next

THEOREM PatchInvariant == Patch!Spec => []PatchInv
<1>1. PatchInv /\ [Patch!Next]_(Patch!vars) => PatchInv'
  BY PatchInvStep
<1> QED  BY PatchInvInit, <1>1, PTL DEF Patch!Spec

-----------------------------------------------------------------------------
(* apply_patch: what it promises *)

\* What other programs change before the call has looked at the file for the last time
\* is never overwritten, by the patch or by its rollback, whatever the patch and the
\* directory are and however often others write.
THEOREM PatchKeepsEdits == Patch!Spec => []OutsideEditsKept
<1>1. PatchInv => OutsideEditsKept
  BY DEF PatchInv, PatchReads, OutsideEditsKept, Patch!OutsideEditsKept
<1> QED  BY <1>1, PatchInvariant, PTL

\* A patch that answers is applied whole; one that fails leaves what the others left,
\* but for what its error names; a crash leaves a prefix; a call that is cancelled before
\* its commit changes nothing.
THEOREM PatchIsAtomic == Patch!Spec => []PatchIsWhole
<1>1. ASSUME PatchInv PROVE Patch!AllOrNothing
  <2>0. PatchTypes /\ PatchFlow /\ PatchWriters /\ PatchReads
    BY <1>1 DEF PatchInv
  <2>1. DOMAIN patch = 1 .. Len(patch)
    BY <2>0, PathsOfPatch DEF PatchTypes
  <2>2. ASSUME phase = "answered", NEW i \in DOMAIN patch
        PROVE  \/ writer[Patch!PathOf(i)] = "patch" /\ entry[Patch!PathOf(i)] = planned[i].next
               \/ writer[Patch!PathOf(i)] = "outside" /\ Patch!PathOf(i) \in late
    <3>1. i \in applied
      BY <2>0, <2>1, <2>2 DEF PatchFlow
    <3> QED  BY <2>0, <2>2, <3>1 DEF PatchWriters, PatchReads
  <2>3. ASSUME phase = "failed", NEW p \in PatchPath
        PROVE  entry[p] = theirs[p] \/ p \in rollbackErrors \cup lost \/ theirs[p].kind = "link"
    <3>1. applied = {}
      BY <2>0, <2>3 DEF PatchFlow
    <3> QED  BY <2>0, <3>1 DEF PatchReads
  <2> QED  BY <2>2, <2>3 DEF Patch!AllOrNothing
<1>2. ASSUME PatchInv PROVE Patch!CrashLeavesPrefix
  <2>0. PatchTypes /\ PatchFlow /\ PatchWriters
    BY <1>2 DEF PatchInv
  <2>1. /\ Len(patch) \in Nat \ {0} /\ DOMAIN patch = 1 .. Len(patch)
        /\ \A i \in 1 .. Len(patch) : Patch!PathOf(i) \in PatchPath
        /\ \A i, j \in 1 .. Len(patch) : Patch!PathOf(i) = Patch!PathOf(j) => i = j
    BY <2>0, PathsOfPatch DEF PatchTypes
  <2>2. PICK k \in 0 .. Len(patch) : applied = 1 .. k
    BY <2>0 DEF PatchFlow
  <2>3. ASSUME NEW i \in DOMAIN patch, NEW j \in DOMAIN patch, i < j, writer[Patch!PathOf(j)] = "patch",
               Patch!PathOf(j) \notin rollbackErrors
        PROVE  writer[Patch!PathOf(i)] \in {"patch", "outside"}
    <3>1. PICK m \in applied : Patch!PathOf(m) = Patch!PathOf(j)
      BY <2>0, <2>1, <2>3 DEF PatchWriters
    <3>2. m \in 1 .. Len(patch)
      BY <2>1, <2>2
    <3>3. m = j
      BY <2>1, <3>1, <3>2
    <3>4. i \in applied
      BY <2>1, <2>2, <2>3, <3>3
    <3> QED  BY <2>0, <3>4 DEF PatchWriters
  <2> QED  BY <2>3 DEF Patch!CrashLeavesPrefix
<1>3. ASSUME PatchInv PROVE Patch!EarlyAbortChangesNothing
  BY <1>3 DEF PatchInv, PatchWriters, Patch!EarlyAbortChangesNothing
<1>4. PatchInv => Patch!OutsideEditsKept
  BY DEF PatchInv, PatchReads, Patch!OutsideEditsKept
<1>5. PatchInv => PatchIsWhole
  BY <1>1, <1>2, <1>3, <1>4 DEF PatchIsWhole, Patch!PatchIsWhole
<1> QED  BY <1>5, PatchInvariant, PTL

-----------------------------------------------------------------------------
(* Numbers *)

\* A set of natural numbers has a least element.
LEMMA Least ==
  ASSUME NEW S \in SUBSET Nat, S # {}
  PROVE  \E i \in S : \A j \in S : i <= j
<1> DEFINE T == {0 .. i : i \in S}
<1>1. T \subseteq FiniteSubsetsOf(Nat)
  <2>1. \A i \in Nat : IsFiniteSet(0 .. i) /\ 0 .. i \subseteq Nat
    BY FS_Interval
  <2> QED  BY <2>1 DEF FiniteSubsetsOf
<1>2. PICK x \in T : \A y \in T : <<y, x>> \notin StrictSubsetOrdering(Nat)
  <2>1. T # {}
    OBVIOUS
  <2> QED  BY <1>1, <2>1, FS_StrictSubsetOrderingWellFounded, WFMin
<1>3. PICK i \in S : x = 0 .. i
  BY <1>2
<1>4. ASSUME NEW j \in S, j < i PROVE FALSE
  <2>1. 0 .. j \subseteq Nat /\ 0 .. i \subseteq Nat /\ 0 .. j \subseteq 0 .. i /\ i \notin 0 .. j /\ i \in 0 .. i
    BY <1>4
  <2>2. <<0 .. j, 0 .. i>> \in StrictSubsetOrdering(Nat)
    BY <2>1 DEF StrictSubsetOrdering
  <2> QED  BY <1>2, <1>3, <2>2
<1> QED  BY <1>4

\* A set of numbers up to n has a greatest one.
LEMMA Greatest ==
  ASSUME NEW n \in Nat, NEW S \in SUBSET (1 .. n), S # {}
  PROVE  Store!Max(S) \in S /\ \A i \in S : i <= Store!Max(S)
<1> DEFINE Above == {k \in Nat : \A i \in S : i <= k}
<1>1. n \in Above
  OBVIOUS
<1>2. PICK k \in Above : \A j \in Above : k <= j
  BY <1>1, Least
<1>3. k \in S
  <2>1. SUFFICES ASSUME k \notin S PROVE FALSE
    OBVIOUS
  <2>2. \A i \in S : i < k /\ i \in Nat
    BY <2>1
  <2>3. PICK x \in S : TRUE
    OBVIOUS
  <2>4. x \in Nat /\ x < k /\ k \in Nat
    BY <1>2, <2>2
  <2>5. k - 1 \in Nat /\ k - 1 < k
    BY <2>4
  <2>6. \A i \in S : i <= k - 1
    BY <2>2, <2>4
  <2>7. k - 1 \in Above
    BY <2>5, <2>6
  <2> QED  BY <1>2, <2>4, <2>5, <2>7
<1>4. \E x \in S : \A y \in S : x >= y
  BY <1>2, <1>3
<1>5. Store!Max(S) = CHOOSE x \in S : \A y \in S : x >= y
  BY DEF Store!Max
<1>6. Store!Max(S) \in S /\ \A y \in S : Store!Max(S) >= y
  BY <1>4, <1>5
<1> QED  BY <1>6

-----------------------------------------------------------------------------
(* Entries taken from a sequence *)

Taken(s, P) ==
  LET taken[n \in 0 .. Len(s)] ==
        IF n = 0 THEN <<>> ELSE IF n \in P THEN Append(taken[n - 1], s[n]) ELSE taken[n - 1]
  IN  taken

\* The recursion of At is well defined.
LEMMA TakenIs ==
  ASSUME NEW s, Len(s) \in Nat, NEW P
  PROVE  Taken(s, P) = [n \in 0 .. Len(s) |->
           IF n = 0 THEN <<>>
           ELSE IF n \in P THEN Append(Taken(s, P)[n - 1], s[n]) ELSE Taken(s, P)[n - 1]]
<1> DEFINE Step(t, n) == IF n \in P THEN Append(t, s[n]) ELSE t
           Solves(F, k) == F = [n \in 0 .. k |-> IF n = 0 THEN <<>> ELSE Step(F[n - 1], n)]
           Unsolved == {k \in Nat : ~\E F : Solves(F, k)}
<1>1. Unsolved = {}
  <2>1. SUFFICES ASSUME Unsolved # {} PROVE FALSE
    OBVIOUS
  <2>2. PICK k \in Unsolved : \A j \in Unsolved : k <= j
    <3>1. Unsolved \in SUBSET Nat
      OBVIOUS
    <3> QED  BY <2>1, <3>1, Least
  <2> HIDE DEF Step
  <2>3. CASE k = 0
    <3> DEFINE F == [n \in 0 .. 0 |-> <<>>]
    <3>1. \A n \in 0 .. 0 : n = 0
      OBVIOUS
    <3>2. Solves(F, 0)
      BY <3>1
    <3> QED  BY <2>2, <2>3, <3>2
  <2>4. CASE k # 0
    <3>1. k - 1 \in Nat /\ k - 1 \notin Unsolved
      BY <2>2, <2>4
    <3>2. PICK F : Solves(F, k - 1)
      BY <3>1
    <3> DEFINE G == [n \in 0 .. k |-> IF n = k THEN Step(F[k - 1], k) ELSE F[n]]
    <3>3. ASSUME NEW n \in 0 .. k
          PROVE  G[n] = IF n = 0 THEN <<>> ELSE Step(G[n - 1], n)
      <4>1. CASE n = k
        <5>1. k - 1 \in 0 .. k /\ k - 1 # k
          BY <3>1
        <5>2. G[n] = Step(F[k - 1], k) /\ G[k - 1] = F[k - 1]
          BY <4>1, <5>1
        <5> QED  BY <2>4, <4>1, <5>2
      <4>2. CASE n # k
        <5>1. n \in 0 .. k - 1 /\ (n # 0 => n - 1 \in 0 .. k /\ n - 1 # k)
          BY <3>1, <4>2
        <5>2. F[n] = IF n = 0 THEN <<>> ELSE Step(F[n - 1], n)
          BY <3>2, <5>1
        <5>3. G[n] = F[n] /\ (n # 0 => G[n - 1] = F[n - 1])
          BY <4>2, <5>1
        <5> QED  BY <5>2, <5>3
      <4> QED  BY <4>1, <4>2
    <3>4. Solves(G, k)
      BY <3>3
    <3> QED  BY <2>2, <3>4
  <2> QED  BY <2>3, <2>4
<1>2. \E F : Solves(F, Len(s))
  BY <1>1
<1>3. Taken(s, P) = CHOOSE F : Solves(F, Len(s))
  BY DEF Taken
<1>4. Solves(Taken(s, P), Len(s))
  BY <1>2, <1>3, Zenon
<1> QED  BY <1>4

\* places leads the positions of t to those in P, in their order, where s has the same.
Picks(t, s, P, places) ==
  /\ places \in [DOMAIN t -> P]
  /\ \A i \in DOMAIN t : t[i] = s[places[i]]
  /\ \A i, j \in DOMAIN t : i < j => places[i] < places[j]
  /\ \A p \in P : \E i \in DOMAIN t : places[i] = p

\* At takes the entries at the positions that it is given, in their order.
LEMMA AtTakes ==
  ASSUME NEW S, NEW s \in Seq(S), NEW P \in SUBSET DOMAIN s
  PROVE  /\ Store!At(s, P) \in Seq(S)
         /\ \E places : Picks(Store!At(s, P), s, P, places)
         /\ IsFiniteSet(P) /\ Len(Store!At(s, P)) = Cardinality(P)
<1> DEFINE T == Taken(s, P)
           Part(n) == P \cap (1 .. n)
           Good(n) == /\ T[n] \in Seq(S)
                      /\ \E places : Picks(T[n], s, Part(n), places)
                      /\ IsFiniteSet(Part(n)) /\ Len(T[n]) = Cardinality(Part(n))
           Wrong == {n \in 0 .. Len(s) : ~Good(n)}
<1>1. Len(s) \in Nat /\ DOMAIN s = 1 .. Len(s) /\ \A i \in 1 .. Len(s) : s[i] \in S
  OBVIOUS
<1>2. T = [n \in 0 .. Len(s) |->
             IF n = 0 THEN <<>> ELSE IF n \in P THEN Append(T[n - 1], s[n]) ELSE T[n - 1]]
  BY <1>1, TakenIs
<1> HIDE DEF T
<1>3. Good(0)
  <2>1. T[0] = <<>> /\ Part(0) = {}
    BY <1>1, <1>2
  <2>2. Picks(<<>>, s, {}, <<>>)
    BY DEF Picks
  <2>3. IsFiniteSet({}) /\ Cardinality({}) = 0
    BY FS_EmptySet
  <2> QED  BY <2>1, <2>2, <2>3, EmptySeq
<1>4. ASSUME NEW n \in 1 .. Len(s), Good(n - 1)
      PROVE  Good(n)
  <2> DEFINE t == T[n - 1]
  <2>1. n \in 0 .. Len(s) /\ n - 1 \in 0 .. Len(s) /\ n # 0 /\ n \in Nat /\ s[n] \in S
    BY <1>1
  <2>2. T[n] = IF n \in P THEN Append(t, s[n]) ELSE t
    BY <1>2, <2>1
  <2>3. t \in Seq(S) /\ IsFiniteSet(Part(n - 1)) /\ Len(t) = Cardinality(Part(n - 1))
    BY <1>4
  <2>4. PICK places : Picks(t, s, Part(n - 1), places)
    BY <1>4
  <2>5. CASE n \notin P
    <3>1. Part(n) = Part(n - 1)
      BY <2>1, <2>5
    <3>2. T[n] = t
      BY <2>2, <2>5
    <3> QED  BY <2>3, <2>4, <3>1, <3>2
  <2>6. CASE n \in P
    <3>1. Part(n) = Part(n - 1) \cup {n} /\ n \notin Part(n - 1) /\ \A p \in Part(n - 1) : p < n
      BY <2>1, <2>6
    <3> DEFINE u == Append(t, s[n])
               more == [i \in 1 .. Len(t) + 1 |-> IF i = Len(t) + 1 THEN n ELSE places[i]]
    <3>2. Len(t) \in Nat /\ DOMAIN t = 1 .. Len(t)
      BY <2>3
    <3> HIDE DEF t, Part, more
    <3>3. /\ u \in Seq(S) /\ DOMAIN u = 1 .. Len(t) + 1 /\ Len(u) = Len(t) + 1
          /\ u[Len(t) + 1] = s[n] /\ \A i \in 1 .. Len(t) : u[i] = t[i]
      BY <2>1, <2>3, <3>2, AppendProperties
    <3> HIDE DEF u
    <3>4. \A i \in 1 .. Len(t) + 1 : i = Len(t) + 1 \/ (i \in DOMAIN t /\ i # Len(t) + 1)
      BY <3>2
    <3>5. /\ places \in [DOMAIN t -> Part(n - 1)]
          /\ \A i \in DOMAIN t : t[i] = s[places[i]]
          /\ \A i, j \in DOMAIN t : i < j => places[i] < places[j]
          /\ \A p \in Part(n - 1) : \E i \in DOMAIN t : places[i] = p
      BY <2>4 DEF Picks
    <3> USE DEF more
    <3>6. \A i \in DOMAIN t : i \in 1 .. Len(t) + 1 /\ more[i] = places[i] /\ more[i] \in Part(n - 1)
      BY <3>2, <3>5
    <3>7. Len(t) + 1 \in 1 .. Len(t) + 1 /\ more[Len(t) + 1] = n
      BY <3>2
    <3>8. more \in [1 .. Len(t) + 1 -> Part(n)]
      <4>1. \A i \in 1 .. Len(t) + 1 : more[i] \in Part(n)
        BY <3>1, <3>4, <3>6, <3>7
      <4> QED  BY <4>1
    <3> HIDE DEF more
    <3>9. \A i \in 1 .. Len(t) + 1 : u[i] = s[more[i]]
      BY <3>2, <3>3, <3>4, <3>5, <3>6, <3>7
    <3>10. \A i, j \in 1 .. Len(t) + 1 : i < j => more[i] < more[j]
      <4> SUFFICES ASSUME NEW i \in 1 .. Len(t) + 1, NEW j \in 1 .. Len(t) + 1, i < j
                   PROVE  more[i] < more[j]
        OBVIOUS
      <4>1. i \in DOMAIN t
        BY <3>2
      <4>2. CASE j = Len(t) + 1
        BY <3>1, <3>6, <3>7, <4>1, <4>2
      <4>3. CASE j \in DOMAIN t
        BY <3>5, <3>6, <4>1, <4>3
      <4> QED  BY <3>4, <4>2, <4>3
    <3>11. \A p \in Part(n) : \E i \in 1 .. Len(t) + 1 : more[i] = p
      BY <3>1, <3>5, <3>6, <3>7
    <3>12. Picks(u, s, Part(n), more)
      BY <3>3, <3>8, <3>9, <3>10, <3>11 DEF Picks
    <3>13. IsFiniteSet(Part(n)) /\ Cardinality(Part(n)) = Cardinality(Part(n - 1)) + 1
      BY <2>3, <3>1, FS_AddElement
    <3>14. T[n] = u
      BY <2>2, <2>6 DEF u, t
    <3> QED  BY <2>3, <3>3, <3>12, <3>13, <3>14
  <2> QED  BY <2>5, <2>6
<1>5. Wrong = {}
  <2> SUFFICES ASSUME Wrong # {} PROVE FALSE
    OBVIOUS
  <2>1. PICK n \in Wrong : \A j \in Wrong : n <= j
    <3>1. Wrong \in SUBSET Nat
      BY <1>1
    <3> QED  BY <3>1, Least
  <2> HIDE DEF Good
  <2>2. n # 0 /\ n \in 0 .. Len(s) /\ ~Good(n)
    BY <1>3, <2>1
  <2>3. n \in 1 .. Len(s) /\ n - 1 \in 0 .. Len(s) /\ n - 1 \notin Wrong
    BY <1>1, <2>1, <2>2
  <2> QED  BY <1>4, <2>2, <2>3
<1>6. Good(Len(s))
  <2> HIDE DEF Good
  <2>1. Len(s) \in 0 .. Len(s) /\ Len(s) \notin Wrong
    BY <1>1, <1>5
  <2> QED  BY <2>1
<1>7. Part(Len(s)) = P
  BY <1>1
<1>8. Store!At(s, P) = T[Len(s)]
  BY DEF Store!At, T, Taken
<1> QED  BY <1>6, <1>7, <1>8

\* Where every position up to n is taken, the result is that much of the sequence.
LEMMA PicksAll ==
  ASSUME NEW S, NEW t \in Seq(S), NEW s, NEW places, Picks(t, s, 1 .. Len(t), places)
  PROVE  \A i \in DOMAIN t : t[i] = s[i]
<1> DEFINE n == Len(t)
           Moved == {i \in 1 .. n : places[i] # i}
<1>1. n \in Nat /\ DOMAIN t = 1 .. n
  OBVIOUS
<1> HIDE DEF n
<1>2. /\ \A i \in 1 .. n : places[i] \in 1 .. n /\ t[i] = s[places[i]]
      /\ \A i, j \in 1 .. n : i < j => places[i] < places[j]
      /\ \A p \in 1 .. n : \E i \in 1 .. n : places[i] = p
  BY <1>1 DEF Picks, n
<1>3. Moved = {}
  <2>1. SUFFICES ASSUME Moved # {} PROVE FALSE
    OBVIOUS
  <2>2. PICK i \in Moved : \A j \in Moved : i <= j
    <3>1. Moved \in SUBSET Nat
      BY <1>1
    <3> QED  BY <2>1, <3>1, Least
  <2>3. i \in 1 .. n /\ places[i] # i /\ places[i] \in 1 .. n
    BY <1>2, <2>2
  <2>4. \A j \in 1 .. n : j < i => places[j] = j
    BY <1>1, <2>2
  <2>5. PICK k \in 1 .. n : places[k] = i
    BY <1>2, <2>3
  <2>6. k > i
    BY <1>1, <2>3, <2>4, <2>5
  <2>7. places[i] < i
    BY <1>2, <2>3, <2>5, <2>6
  <2>8. places[places[i]] = places[i] /\ places[places[i]] < places[i]
    BY <1>2, <2>3, <2>4, <2>7
  <2> QED  BY <2>3, <2>8
<1> QED  BY <1>1, <1>2, <1>3

Ascending(a) == \A i, j \in DOMAIN a : i < j => a[i].id < a[j].id
Within(a, b) == \A i \in DOMAIN a : \E j \in DOMAIN b : a[i] = b[j]

\* Up to where two ascending sequences agree, their next entries agree too.
LEMMA NextSame ==
  ASSUME NEW a \in Seq(Record), NEW b \in Seq(Record), Ascending(a), Ascending(b),
         Within(a, b), Within(b, a),
         NEW i \in DOMAIN a, \A j \in 1 .. i - 1 : j \in DOMAIN b /\ a[j] = b[j]
  PROVE  i \in DOMAIN b /\ a[i] = b[i]
<1>1. /\ Len(a) \in Nat /\ DOMAIN a = 1 .. Len(a) /\ Len(b) \in Nat /\ DOMAIN b = 1 .. Len(b)
      /\ (\A x \in DOMAIN a : a[x].id \in Nat) /\ \A x \in DOMAIN b : b[x].id \in Nat
  <2>1. (\A x \in DOMAIN a : a[x] \in Record) /\ \A x \in DOMAIN b : b[x] \in Record
    OBVIOUS
  <2> QED  BY <2>1 DEF Record
<1>2. PICK j \in DOMAIN b : a[i] = b[j]
  BY DEF Within
<1>3. j >= i
  <2>1. SUFFICES ASSUME j < i PROVE FALSE
    BY <1>1
  <2>2. j \in 1 .. i - 1 /\ j \in DOMAIN a /\ a[j] = a[i]
    BY <1>1, <1>2, <2>1
  <2>3. a[j].id < a[i].id
    BY <2>1, <2>2 DEF Ascending
  <2> QED  BY <1>1, <2>2, <2>3
<1>4. i \in DOMAIN b
  BY <1>1, <1>3
<1>5. PICK k \in DOMAIN a : b[i] = a[k]
  BY <1>4 DEF Within
<1>6. k >= i
  <2>1. SUFFICES ASSUME k < i PROVE FALSE
    BY <1>1
  <2>2. k \in 1 .. i - 1 /\ k \in DOMAIN b /\ b[k] = b[i]
    BY <1>1, <1>5, <2>1
  <2>3. b[k].id < b[i].id
    BY <1>4, <2>1, <2>2 DEF Ascending
  <2> QED  BY <1>1, <1>4, <2>2, <2>3
<1>7. j = i
  <2>1. SUFFICES ASSUME j > i PROVE FALSE
    BY <1>1, <1>3
  <2>2. b[i].id < b[j].id
    BY <1>4, <2>1 DEF Ascending
  <2>3. k = i \/ a[i].id < a[k].id
    BY <1>1, <1>6 DEF Ascending
  <2>4. a[i].id \in Nat /\ a[k].id \in Nat /\ a[i].id = b[j].id /\ a[k].id = b[i].id
    BY <1>1, <1>2, <1>5
  <2> QED  BY <2>2, <2>3, <2>4
<1> QED  BY <1>2, <1>4, <1>7

\* Ascending sequences of the same entries are equal.
LEMMA Same ==
  ASSUME NEW a \in Seq(Record), NEW b \in Seq(Record), Ascending(a), Ascending(b),
         Within(a, b), Within(b, a)
  PROVE  a = b
<1> DEFINE Wrong == {i \in Nat : /\ i \in DOMAIN a \/ i \in DOMAIN b
                                 /\ ~(i \in DOMAIN a /\ i \in DOMAIN b /\ a[i] = b[i])}
<1>1. Len(a) \in Nat /\ DOMAIN a = 1 .. Len(a) /\ Len(b) \in Nat /\ DOMAIN b = 1 .. Len(b)
  OBVIOUS
<1>2. Wrong = {}
  <2>1. SUFFICES ASSUME Wrong # {} PROVE FALSE
    OBVIOUS
  <2>2. PICK i \in Wrong : \A j \in Wrong : i <= j
    <3>1. Wrong \in SUBSET Nat
      OBVIOUS
    <3> QED  BY <2>1, <3>1, Least
  <2>3. i \in Nat /\ (i \in DOMAIN a \/ i \in DOMAIN b) /\ ~(i \in DOMAIN a /\ i \in DOMAIN b /\ a[i] = b[i])
    BY <2>2
  <2>4. \A j \in 1 .. i - 1 : j \in DOMAIN a /\ j \in DOMAIN b /\ a[j] = b[j]
    <3> SUFFICES ASSUME NEW j \in 1 .. i - 1 PROVE j \in DOMAIN a /\ j \in DOMAIN b /\ a[j] = b[j]
      OBVIOUS
    <3>1. j \in Nat /\ j < i /\ (j \in DOMAIN a \/ j \in DOMAIN b)
      BY <1>1, <2>3
    <3>2. j \notin Wrong
      BY <2>2, <2>3, <3>1
    <3> QED  BY <3>1, <3>2
  <2>5. CASE i \in DOMAIN a
    <3>1. i \in DOMAIN b /\ a[i] = b[i]
      BY <2>4, <2>5, NextSame
    <3> QED  BY <2>3, <2>5, <3>1
  <2>6. CASE i \in DOMAIN b
    <3>1. \A j \in 1 .. i - 1 : j \in DOMAIN a /\ b[j] = a[j]
      BY <2>4
    <3>2. i \in DOMAIN a /\ b[i] = a[i]
      BY <2>6, <3>1, NextSame
    <3> QED  BY <2>3, <2>6, <3>2
  <2> QED  BY <2>3, <2>5, <2>6
<1>3. \A i \in Nat : i \in 1 .. Len(a) <=> i \in 1 .. Len(b)
  BY <1>1, <1>2
<1>4. Len(a) = Len(b)
  <2>1. Len(a) <= Len(b)
    <3>1. Len(a) = 0 \/ Len(a) \in 1 .. Len(a)
      BY <1>1
    <3> QED  BY <1>1, <1>3, <3>1
  <2>2. Len(b) <= Len(a)
    <3>1. Len(b) = 0 \/ Len(b) \in 1 .. Len(b)
      BY <1>1
    <3> QED  BY <1>1, <1>3, <3>1
  <2>3. Len(a) \in Nat /\ Len(b) \in Nat
    BY <1>1
  <2> HIDE DEF Wrong
  <2> QED  BY <2>1, <2>2, <2>3
<1>5. \A i \in 1 .. Len(a) : a[i] = b[i]
  BY <1>1, <1>2
<1> QED  BY <1>4, <1>5, SeqEqual

-----------------------------------------------------------------------------
(* Files *)

\* The lines of a file, and what follows them; where they parse.
Whole(c) == Append(c.lines, c.tail)
Real(w) == {i \in DOMAIN w : w[i] \in Record}

\* What an entry at position i may be, before the id n is used.
Fits(e, i, n) ==
  /\ e.kind = "session" <=> i = 1
  /\ i = 1 => e = Store!Header(3)
  /\ i # 1 => e.parent < e.id
  /\ e.id < n /\ e.covers \subseteq 1 .. (n - 1)

\* The lines of a file that parse are entries in the order of their making.
InFileOrder(w, n) ==
  /\ \A i \in Real(w) : Fits(w[i], i, n)
  /\ \A i, j \in Real(w) : i < j => w[i].id < w[j].id

Closed(es) == \A i \in DOMAIN es : es[i].parent = 0 \/ es[i].parent \in Store!Ids(es)

\* A header and entries in the order of their making; where sound, none is an orphan.
Chain(es, n, sound) ==
  /\ es \in Seq(Record) /\ es # <<>>
  /\ \A i \in DOMAIN es : Fits(es[i], i, n)
  /\ Ascending(es)
  /\ sound => Closed(es)

\* A file of version 1, which nothing has been written to.
OldFile(c) ==
  /\ c \in FileContent
  /\ c.tail = None /\ c.lines \in Seq(Record) /\ c.lines # <<>> /\ c.lines[1] = Store!Header(1)
  /\ \A i \in DOMAIN c.lines : i # 1 =>
       /\ c.lines[i].kind # "session" /\ c.lines[i].id = 0 /\ c.lines[i].parent = 0
       /\ c.lines[i].covers = {}

NewFile(c, n, sound) ==
  /\ c \in FileContent /\ InFileOrder(Whole(c), n)
  /\ sound => c.tail = None /\ c.lines \in Seq(Record) /\ Closed(c.lines)

\* The lines that parse.
Parsed(c) == Store!At(Whole(c), Real(Whole(c)))

\* The lines of a file and its tail, as one sequence.
LEMMA WholeFacts ==
  ASSUME NEW c \in FileContent
  PROVE  /\ c.lines \in Seq(Record \cup {Bad}) /\ c.tail \in Record \cup {None, Cut}
         /\ Len(c.lines) \in Nat /\ DOMAIN c.lines = 1 .. Len(c.lines)
         /\ Whole(c) \in Seq(Record \cup {Bad, None, Cut})
         /\ Len(Whole(c)) = Len(c.lines) + 1 /\ DOMAIN Whole(c) = 1 .. Len(c.lines) + 1
         /\ \A i \in DOMAIN c.lines : Whole(c)[i] = c.lines[i]
         /\ Whole(c)[Len(c.lines) + 1] = c.tail
<1> DEFINE S == Record \cup {Bad, None, Cut}
<1>1. c.lines \in Seq(Record \cup {Bad}) /\ c.tail \in Record \cup {None, Cut}
  BY DEF FileContent
<1>2. c.lines \in Seq(S) /\ c.tail \in S
  <2>1. Record \cup {Bad} \subseteq S
    OBVIOUS
  <2> QED  BY <1>1, <2>1, SeqMonotonic, Zenon
<1>3. Len(c.lines) \in Nat /\ DOMAIN c.lines = 1 .. Len(c.lines)
  BY <1>1
<1> HIDE DEF S
<1>4. /\ Append(c.lines, c.tail) \in Seq(S) /\ Len(Append(c.lines, c.tail)) = Len(c.lines) + 1
      /\ \A i \in 1 .. Len(c.lines) : Append(c.lines, c.tail)[i] = c.lines[i]
      /\ Append(c.lines, c.tail)[Len(c.lines) + 1] = c.tail
  BY <1>2, <1>3, AppendProperties
<1>5. DOMAIN Whole(c) = 1 .. Len(c.lines) + 1
  BY <1>4 DEF Whole
<1> QED  BY <1>1, <1>3, <1>4, <1>5 DEF Whole, S

\* A file is loaded as its lines that parse, in their order.
LEMMA LoadTakes ==
  ASSUME NEW c \in FileContent
  PROVE  /\ Parsed(c) \in Seq(Record)
         /\ \E places : Picks(Parsed(c), Whole(c), Real(Whole(c)), places)
         /\ Len(Parsed(c)) = Cardinality(Real(Whole(c)))
         /\ Store!Load(c) = IF Parsed(c) # <<>> /\ Parsed(c)[1].kind # "session"
                            THEN <<>> ELSE Parsed(c)
<1> DEFINE w == Whole(c)
           P == Real(w)
           S == Record \cup {Bad, None, Cut}
<1>1. w \in Seq(S) /\ \A i \in DOMAIN w : w[i] \in S
  <2>1. w \in Seq(S) /\ DOMAIN w = 1 .. Len(w)
    BY WholeFacts
  <2> QED  BY <2>1, ElementOfSeq
<1>2. P = {i \in DOMAIN w : w[i] \notin {Bad, Cut, None}}
  <2>1. \A i \in DOMAIN w : w[i] \in Record <=> w[i] \notin {Bad, Cut, None}
    <3> HIDE DEF w
    <3> QED  BY <1>1, LinesAssumption
  <2> QED  BY <2>1 DEF Real
<1>3. P \in SUBSET DOMAIN w
  BY DEF Real
<1>4. /\ Parsed(c) \in Seq(S) /\ Len(Parsed(c)) = Cardinality(P)
      /\ \E places : Picks(Parsed(c), w, P, places)
  <2> HIDE DEF w, P, S
  <2> QED  BY <1>1, <1>3, AtTakes DEF Parsed, w, P
<1>5. Parsed(c) \in Seq(Record)
  <2>1. PICK places : Picks(Parsed(c), w, P, places)
    BY <1>4
  <2>2. \A i \in DOMAIN Parsed(c) : Parsed(c)[i] \in Record
    <3>1. \A i \in DOMAIN Parsed(c) : places[i] \in P /\ Parsed(c)[i] = w[places[i]]
      <4> HIDE DEF P, w
      <4> QED  BY <2>1 DEF Picks
    <3>2. \A p \in P : w[p] \in Record
      BY DEF Real
    <3> QED  BY <3>1, <3>2
  <2>3. Len(Parsed(c)) \in Nat /\ Parsed(c) = [i \in 1 .. Len(Parsed(c)) |-> Parsed(c)[i]]
    <3> HIDE DEF S
    <3> QED  BY <1>4
  <2>4. Parsed(c) \in [1 .. Len(Parsed(c)) -> Record]
    <3>1. DOMAIN Parsed(c) = 1 .. Len(Parsed(c))
      BY <1>4
    <3> QED  BY <2>2, <2>3, <3>1
  <2> QED  BY <2>3, <2>4, SeqDef
<1>6. Store!Filter(Append(c.lines, c.tail), LAMBDA e : e \notin {Bad, Cut, None}) = Parsed(c)
  BY <1>2 DEF Store!Filter, Parsed, Whole
<1> QED  BY <1>4, <1>5, <1>6 DEF Store!Load, Store!IsHeader

\* A file that no write has spoilt is loaded as it is.
LEMMA LoadWhole ==
  ASSUME NEW c, c \in FileContent, c.tail = None, c.lines \in Seq(Record),
         c.lines # <<>> => c.lines[1].kind = "session"
  PROVE  Store!Load(c) = c.lines
<1> DEFINE n == Len(c.lines)
<1>1. /\ n \in Nat /\ DOMAIN c.lines = 1 .. n /\ DOMAIN Whole(c) = 1 .. n + 1
      /\ (\A i \in 1 .. n : Whole(c)[i] = c.lines[i]) /\ Whole(c)[n + 1] = None
  BY WholeFacts
<1>2. Real(Whole(c)) = 1 .. n
  <2>1. \A i \in 1 .. n : Whole(c)[i] \in Record
    BY <1>1
  <2>2. Whole(c)[n + 1] \notin Record
    BY <1>1, LinesAssumption
  <2> HIDE DEF n
  <2> QED  BY <1>1, <2>1, <2>2 DEF Real
<1>3. Cardinality(1 .. n) = n
  BY <1>1, FS_Interval
<1> HIDE DEF n
<1>4. PICK places : Picks(Parsed(c), Whole(c), 1 .. n, places)
  BY <1>2, LoadTakes
<1>5. Parsed(c) \in Seq(Record) /\ Len(Parsed(c)) = n
  BY <1>2, <1>3, LoadTakes
<1>6. \A i \in 1 .. n : Parsed(c)[i] = c.lines[i]
  <2>1. DOMAIN Parsed(c) = 1 .. n
    BY <1>5
  <2>2. \A i \in DOMAIN Parsed(c) : Parsed(c)[i] = Whole(c)[i]
    BY <1>4, <1>5, PicksAll
  <2> QED  BY <1>1, <2>1, <2>2
<1>7. Parsed(c) = c.lines
  BY <1>5, <1>6, SeqEqual DEF n
<1> QED  BY <1>7, LoadTakes

\* What a file with entries in order is loaded as.
LEMMA LoadNew ==
  ASSUME NEW n \in Nat, NEW c \in FileContent, InFileOrder(Whole(c), n)
  PROVE  /\ 1 \in Real(Whole(c)) => Store!Load(c) # <<>>
         /\ Store!Load(c) # <<>> =>
              /\ Chain(Store!Load(c), n, FALSE)
              /\ Within(Store!Load(c), Whole(c))
              /\ \A i \in Real(Whole(c)) : \E j \in DOMAIN Store!Load(c) : Store!Load(c)[j] = Whole(c)[i]
              /\ Len(Store!Load(c)) = Cardinality(Real(Whole(c)))
<1> DEFINE t == Parsed(c)
           w == Whole(c)
<1>1. PICK places : Picks(t, w, Real(w), places)
  BY LoadTakes
<1>2. t \in Seq(Record) /\ Len(t) \in Nat /\ DOMAIN t = 1 .. Len(t)
  BY LoadTakes
<1>3. Len(t) = Cardinality(Real(w)) /\ Store!Load(c) = IF t # <<>> /\ t[1].kind # "session" THEN <<>> ELSE t
  BY LoadTakes
<1>4. Real(w) \subseteq Nat \ {0} /\ \A i \in Real(w) : Fits(w[i], i, n) /\ w[i] \in Record
  <2>1. DOMAIN w = 1 .. Len(c.lines) + 1
    BY WholeFacts
  <2> QED  BY <2>1 DEF InFileOrder, Real
<1>5. \A i, j \in Real(w) : i < j => w[i].id < w[j].id
  BY DEF InFileOrder
<1> HIDE DEF t, w
<1>6. /\ \A i \in DOMAIN t : places[i] \in Real(w) /\ t[i] = w[places[i]]
      /\ \A i, j \in DOMAIN t : i < j => places[i] < places[j]
      /\ \A p \in Real(w) : \E i \in DOMAIN t : places[i] = p
  BY <1>1 DEF Picks
<1>7. Ascending(t)
  BY <1>5, <1>6 DEF Ascending
<1>8. \A p \in Real(w) : \E i \in DOMAIN t : t[i] = w[p]
  BY <1>6
<1>9. \A i \in DOMAIN t : \E p \in DOMAIN w : t[i] = w[p]
  <2>1. Real(w) \subseteq DOMAIN w
    BY DEF Real
  <2> QED  BY <1>6, <2>1
<1>10. ASSUME t # <<>>, t[1].kind = "session"
       PROVE  \A i \in DOMAIN t : Fits(t[i], i, n)
  <2>1. 1 \in DOMAIN t
    BY <1>2, <1>10, EmptySeq
  <2>2. places[1] = 1
    BY <1>4, <1>6, <1>10, <2>1 DEF Fits
  <2>3. ASSUME NEW i \in DOMAIN t, i # 1 PROVE Fits(t[i], i, n)
    <3>1. places[i] \in Real(w) /\ t[i] = w[places[i]] /\ Fits(w[places[i]], places[i], n)
      BY <1>4, <1>6, <2>3
    <3>2. places[i] # 1
      <4>1. 1 < i
        BY <1>2, <2>3
      <4>2. places[1] < places[i]
        BY <1>6, <2>1, <2>3, <4>1
      <4> QED  BY <2>2, <4>2
    <3> QED  BY <2>3, <3>1, <3>2 DEF Fits
  <2>4. Fits(t[1], 1, n)
    BY <1>4, <1>6, <2>1, <2>2
  <2> QED  BY <2>3, <2>4
<1>11. ASSUME 1 \in Real(w) PROVE t # <<>> /\ t[1].kind = "session"
  <2>1. PICK i \in DOMAIN t : places[i] = 1
    BY <1>6, <1>11
  <2>2. 1 \in DOMAIN t /\ t # <<>>
    BY <1>2, <2>1
  <2>3. i = 1
    <3>1. SUFFICES ASSUME 1 < i PROVE FALSE
      BY <1>2, <2>1
    <3>2. places[1] < 1 /\ places[1] \in Nat \ {0}
      BY <1>4, <1>6, <2>1, <2>2, <3>1
    <3> QED  BY <3>2
  <2>4. Fits(t[1], 1, n)
    BY <1>4, <1>6, <1>11, <2>1, <2>3
  <2> QED  BY <2>2, <2>4 DEF Fits
<1>12. 1 \in Real(w) => Store!Load(c) # <<>>
  BY <1>3, <1>11
<1>13. ASSUME Store!Load(c) # <<>>
       PROVE  Store!Load(c) = t /\ t # <<>> /\ t[1].kind = "session"
  BY <1>3, <1>13
<1>14. ASSUME Store!Load(c) # <<>>
       PROVE  /\ Chain(t, n, FALSE) /\ Within(t, w)
              /\ \A i \in Real(w) : \E j \in DOMAIN t : t[j] = w[i]
              /\ Len(t) = Cardinality(Real(w))
  BY <1>2, <1>3, <1>7, <1>8, <1>9, <1>10, <1>13, <1>14 DEF Chain, Within
<1> QED  BY <1>12, <1>13, <1>14 DEF w

-----------------------------------------------------------------------------
(* Writes *)

\* One more line: it parses or it does not.
LEMMA RealAppend ==
  ASSUME NEW S, NEW s \in Seq(S), NEW x
  PROVE  /\ IsFiniteSet(Real(s)) /\ Cardinality(Real(s)) \in Nat
         /\ Real(Append(s, x)) = Real(s) \cup (IF x \in Record THEN {Len(s) + 1} ELSE {})
         /\ Cardinality(Real(Append(s, x))) = Cardinality(Real(s)) + (IF x \in Record THEN 1 ELSE 0)
<1>1. Len(s) \in Nat /\ DOMAIN s = 1 .. Len(s)
  OBVIOUS
<1>2. /\ DOMAIN Append(s, x) = 1 .. Len(s) + 1 /\ Append(s, x)[Len(s) + 1] = x
      /\ \A i \in 1 .. Len(s) : Append(s, x)[i] = s[i]
  <2>1. s \in Seq(S \cup {x}) /\ x \in S \cup {x}
    BY SeqMonotonic
  <2> QED  BY <2>1, <1>1
<1>3. IsFiniteSet(Real(s)) /\ Cardinality(Real(s)) \in Nat
  <2>1. IsFiniteSet(1 .. Len(s)) /\ Real(s) \subseteq 1 .. Len(s)
    BY <1>1, FS_Interval DEF Real
  <2> QED  BY <2>1, FS_Subset, FS_CardinalityType
<1>4. Real(Append(s, x)) = Real(s) \cup (IF x \in Record THEN {Len(s) + 1} ELSE {})
  <2>1. \A i \in 1 .. Len(s) + 1 : i = Len(s) + 1 \/ i \in 1 .. Len(s)
    BY <1>1
  <2>2. Len(s) + 1 \in 1 .. Len(s) + 1 /\ 1 .. Len(s) \subseteq 1 .. Len(s) + 1
    BY <1>1
  <2> QED  BY <1>1, <1>2, <2>1, <2>2 DEF Real
<1>5. Len(s) + 1 \notin Real(s)
  BY <1>1 DEF Real
<1>6. Cardinality(Real(s) \cup {Len(s) + 1}) = Cardinality(Real(s)) + 1
  BY <1>3, <1>5, FS_AddElement
<1>7. CASE x \in Record
  BY <1>3, <1>4, <1>6, <1>7
<1>8. CASE x \notin Record
  <2>1. Real(Append(s, x)) = Real(s)
    BY <1>4, <1>8
  <2> QED  BY <1>3, <1>4, <1>8, <2>1
<1> QED  BY <1>7, <1>8

\* The types of an entry's fields.
LEMMA EntryFacts ==
  ASSUME NEW e \in Record
  PROVE  /\ e.id \in Nat /\ e.parent \in Nat /\ e.ref \in Nat /\ e.covers \subseteq Nat
         /\ e.kind \in Store!EntryKinds \cup {"session"}
BY DEF Record

\* A file that holds those entries and no more.
LEMMA ContentFits ==
  ASSUME NEW n \in Nat, NEW sound \in BOOLEAN, NEW es, Chain(es, n, sound)
  PROVE  NewFile(Store!Content(es, None), n, sound)
<1> DEFINE c == Store!Content(es, None)
<1>1. c.lines = es /\ c.tail = None /\ c = [lines |-> es, tail |-> None]
  BY DEF Store!Content
<1>2. c \in FileContent
  <2>1. es \in Seq(Record \cup {Bad})
    <3>1. es \in Seq(Record) /\ Record \subseteq Record \cup {Bad}
      BY DEF Chain
    <3> QED  BY <3>1, SeqMonotonic, Zenon
  <2> QED  BY <1>1, <2>1 DEF FileContent
<1> HIDE DEF c
<1>3. \A i \in Real(Whole(c)) : i \in DOMAIN es /\ Whole(c)[i] = es[i]
  <2>1. /\ DOMAIN Whole(c) = 1 .. Len(es) + 1 /\ Whole(c)[Len(es) + 1] = None
        /\ DOMAIN es = 1 .. Len(es) /\ Len(es) \in Nat
        /\ \A i \in DOMAIN es : Whole(c)[i] = es[i]
    BY <1>1, <1>2, WholeFacts
  <2>2. \A i \in DOMAIN Whole(c) : i = Len(es) + 1 \/ i \in DOMAIN es
    BY <2>1
  <2> QED  BY <2>1, <2>2, LinesAssumption DEF Real
<1>4. InFileOrder(Whole(c), n)
  BY <1>3 DEF InFileOrder, Chain, Ascending
<1>5. sound => Closed(c.lines)
  BY <1>1 DEF Chain
<1> QED  BY <1>1, <1>2, <1>4, <1>5 DEF NewFile, Chain, c

\* What an interrupted write of them may leave.
LEMMA PartialFits ==
  ASSUME NEW n \in Nat, NEW sound, NEW es, Chain(es, n, sound), NEW c \in Store!Partial(es)
  PROVE  NewFile(c, n, FALSE)
<1>1. es \in Seq(Record) /\ Len(es) \in Nat \ {0} /\ DOMAIN es = 1 .. Len(es)
  BY EmptySeq DEF Chain
<1>2a. PICK k \in 0 .. (Len(es) - 1) : \E x \in {None, Cut, es[k + 1]} : c = Store!Content(SubSeq(es, 1, k), x)
  BY DEF Store!Partial
<1>2. PICK x \in {None, Cut, es[k + 1]} : c = Store!Content(SubSeq(es, 1, k), x)
  BY <1>2a
<1>3. k \in Nat /\ k + 1 \in 1 .. Len(es)
  BY <1>1
<1>4. /\ SubSeq(es, 1, k) \in Seq(Record) /\ Len(SubSeq(es, 1, k)) = k
      /\ \A i \in 1 .. k : i \in 1 .. Len(es) /\ SubSeq(es, 1, k)[i] = es[i]
  <2>1. \A i \in 1 .. k : es[i] \in Record /\ i \in 1 .. Len(es)
    BY <1>1, <1>3
  <2>2. /\ SubSeq(es, 1, k) \in Seq(Record) /\ Len(SubSeq(es, 1, k)) = IF 1 <= k THEN k - 1 + 1 ELSE 0
        /\ \A i \in 1 .. k - 1 + 1 : SubSeq(es, 1, k)[i] = es[1 + i - 1]
    BY <1>3, <2>1, SubSeqProperties
  <2>3. (IF 1 <= k THEN k - 1 + 1 ELSE 0) = k /\ \A i \in 1 .. k : i \in 1 .. k - 1 + 1 /\ 1 + i - 1 = i
    BY <1>3
  <2> QED  BY <2>1, <2>2, <2>3
<1>5. x \in Record \cup {None, Cut} /\ c.lines = SubSeq(es, 1, k) /\ c.tail = x
  BY <1>1, <1>2, <1>3, ElementOfSeq DEF Store!Content
<1>6. c \in FileContent
  <2>1. SubSeq(es, 1, k) \in Seq(Record \cup {Bad})
    <3>1. Record \subseteq Record \cup {Bad}
      OBVIOUS
    <3> QED  BY <1>4, <3>1, SeqMonotonic, Zenon
  <2> QED  BY <1>2, <1>5, <2>1 DEF FileContent, Store!Content
<1>7. \A i \in Real(Whole(c)) : i \in DOMAIN es /\ Whole(c)[i] = es[i]
  <2>1. /\ DOMAIN Whole(c) = 1 .. k + 1 /\ Whole(c)[k + 1] = x
        /\ \A i \in 1 .. k : Whole(c)[i] = SubSeq(es, 1, k)[i]
    BY <1>4, <1>5, <1>6, WholeFacts
  <2>2. \A i \in DOMAIN Whole(c) : i = k + 1 \/ i \in 1 .. k
    BY <1>3, <2>1
  <2>3. x \in Record => x = es[k + 1]
    BY <1>2, LinesAssumption
  <2> QED  BY <1>1, <1>3, <1>4, <2>1, <2>2, <2>3 DEF Real
<1>8. InFileOrder(Whole(c), n)
  BY <1>7 DEF InFileOrder, Chain, Ascending
<1> QED  BY <1>6, <1>8 DEF NewFile

\* As long as ids are taken, what was in order stays so.
LEMMA StillFits ==
  ASSUME NEW n \in Nat, NEW m \in Nat, n <= m, NEW sound \in BOOLEAN, NEW later \in BOOLEAN, later => sound
  PROVE  /\ \A es : Chain(es, n, sound) => Chain(es, m, later)
         /\ \A c : NewFile(c, n, sound) => NewFile(c, m, later)
<1>1. \A e, i : e.id \in Nat /\ Fits(e, i, n) => Fits(e, i, m)
  <2>1. 1 .. (n - 1) \subseteq 1 .. (m - 1)
    OBVIOUS
  <2> QED  BY <2>1 DEF Fits
<1>2. ASSUME NEW es, Chain(es, n, sound) PROVE Chain(es, m, later)
  <2>1. \A i \in DOMAIN es : es[i].id \in Nat
    <3>1. \A i \in DOMAIN es : es[i] \in Record
      BY <1>2 DEF Chain
    <3> QED  BY <3>1, EntryFacts
  <2> QED  BY <1>1, <1>2, <2>1 DEF Chain
<1>3. ASSUME NEW c, NewFile(c, n, sound) PROVE NewFile(c, m, later)
  <2>1. \A i \in Real(Whole(c)) : Whole(c)[i].id \in Nat
    BY EntryFacts DEF Real
  <2> QED  BY <1>1, <1>3, <2>1 DEF NewFile, InFileOrder
<1> QED  BY <1>2, <1>3

Kept(w) == Cardinality(Real(w))
Left(x) == IF x \in Record THEN 2 ELSE IF x = Cut THEN 1 ELSE 0

\* Of the entries es a file with content c has all but two for each of n failed writes; it
\* has two fewer yet once a line is joined to a whole tail, and one once it is to a piece.
Saves(c, es, n) ==
  /\ c \in FileContent /\ Whole(c) # <<None>>
  /\ \A i \in Real(Whole(c)) : \E j \in DOMAIN es : es[j] = Whole(c)[i]
  /\ Len(es) + Left(c.tail) <= Kept(Whole(c)) + 2 * n
  /\ n = 0 => c = Store!Content(es, None)

\* How many lines of a file parse, with its tail and without.
LEMMA KeptIs ==
  ASSUME NEW c \in FileContent
  PROVE  /\ Real(c.lines) \subseteq Real(Whole(c)) /\ Kept(c.lines) \in Nat
         /\ Kept(Whole(c)) = Kept(c.lines) + (IF c.tail \in Record THEN 1 ELSE 0)
         /\ Kept(Whole(c)) \in Nat
         /\ c.tail \in Record => Len(c.lines) + 1 \in Real(Whole(c))
<1>1. c.lines \in Seq(Record \cup {Bad})
  BY WholeFacts
<1> QED  BY <1>1, RealAppend DEF Kept, Whole

\* Every file that holds some entries and no more saves them.
LEMMA SavesContent ==
  ASSUME NEW n \in Nat, NEW k \in Nat, NEW sound \in BOOLEAN, NEW es, Chain(es, n, sound)
  PROVE  Saves(Store!Content(es, None), es, k)
<1> DEFINE c == Store!Content(es, None)
<1>1. c.lines = es /\ c.tail = None /\ c \in FileContent
  BY ContentFits DEF Store!Content, NewFile
<1>2. es \in Seq(Record) /\ es # <<>> /\ Len(es) \in Nat \ {0} /\ DOMAIN es = 1 .. Len(es)
  BY EmptySeq DEF Chain
<1> HIDE DEF c
<1>3. /\ DOMAIN Whole(c) = 1 .. Len(es) + 1 /\ Whole(c)[Len(es) + 1] = None /\ Len(Whole(c)) = Len(es) + 1
      /\ \A i \in DOMAIN es : Whole(c)[i] = es[i]
  BY <1>1, <1>2, WholeFacts
<1>4. Real(es) = 1 .. Len(es)
  BY <1>2 DEF Real
<1>5. Kept(Whole(c)) = Len(es)
  <2>1. Kept(es) = Len(es)
    BY <1>2, <1>4, FS_Interval DEF Kept
  <2> QED  BY <1>1, <1>2, <2>1, KeptIs, LinesAssumption
<1>6. Whole(c) # <<None>>
  <2>1. Len(<<None>>) = 1
    OBVIOUS
  <2> QED  BY <1>2, <1>3, <2>1
<1>7. Left(c.tail) = 0
  BY <1>1, LinesAssumption DEF Left
<1>8. \A i \in Real(Whole(c)) : \E j \in DOMAIN es : es[j] = Whole(c)[i]
  <2>1. \A i \in DOMAIN Whole(c) : i = Len(es) + 1 \/ i \in DOMAIN es
    BY <1>2, <1>3
  <2> QED  BY <1>3, <2>1, LinesAssumption DEF Real
<1>9. Len(es) + Left(c.tail) <= Kept(Whole(c)) + 2 * k
  BY <1>2, <1>5, <1>7
<1> QED  BY <1>1, <1>6, <1>8, <1>9 DEF Saves, c

\* A file saves what is loaded from it.
LEMMA SavesLoaded ==
  ASSUME NEW n \in Nat, NEW k \in Nat, NEW c, NewFile(c, n, k = 0), Store!Load(c) # <<>>
  PROVE  Saves(c, Store!Load(c), k) /\ Chain(Store!Load(c), n, k = 0)
<1> DEFINE t == Store!Load(c)
<1>1. c \in FileContent /\ InFileOrder(Whole(c), n)
  BY DEF NewFile
<1>2. /\ Chain(t, n, FALSE) /\ Within(t, Whole(c)) /\ Len(t) = Kept(Whole(c))
      /\ \A i \in Real(Whole(c)) : \E j \in DOMAIN t : t[j] = Whole(c)[i]
  BY <1>1, LoadNew DEF Kept
<1>3. Len(t) \in Nat \ {0} /\ t \in Seq(Record) /\ DOMAIN t = 1 .. Len(t)
  BY <1>2, EmptySeq DEF Chain
<1>4. k = 0 => t = c.lines /\ c.tail = None /\ Closed(c.lines)
  <2>1. SUFFICES ASSUME k = 0 PROVE t = c.lines /\ c.tail = None /\ Closed(c.lines)
    OBVIOUS
  <2>2. c.tail = None /\ c.lines \in Seq(Record) /\ Closed(c.lines)
    BY <2>1 DEF NewFile
  <2>3. c.lines # <<>> => c.lines[1].kind = "session"
    <3>1. SUFFICES ASSUME c.lines # <<>> PROVE c.lines[1].kind = "session"
      OBVIOUS
    <3>2. 1 \in DOMAIN c.lines /\ c.lines[1] \in Record
      BY <2>2, <3>1, EmptySeq
    <3>3. 1 \in Real(Whole(c)) /\ Whole(c)[1] = c.lines[1]
      <4>1. 1 \in Real(c.lines)
        BY <3>2 DEF Real
      <4> QED  BY <1>1, <3>2, <4>1, WholeFacts, KeptIs
    <3> QED  BY <1>1, <3>3 DEF InFileOrder, Fits
  <2> QED  BY <1>1, <2>2, <2>3, LoadWhole
<1> HIDE DEF t
<1>5. k = 0 => c = Store!Content(t, None)
  BY <1>1, <1>4 DEF FileContent, Store!Content
<1>6. Whole(c) # <<None>>
  <2>1. SUFFICES ASSUME Whole(c) = <<None>> PROVE FALSE
    OBVIOUS
  <2>2. PICK j \in DOMAIN Whole(c) : t[1] = Whole(c)[j]
    BY <1>2, <1>3 DEF Within
  <2>3. Whole(c)[j] = None
    BY <2>1, <2>2
  <2>4. t[1] \in Record
    BY <1>3
  <2> QED  BY <2>2, <2>3, <2>4, LinesAssumption
<1>7. Len(t) + Left(c.tail) <= Kept(Whole(c)) + 2 * k
  <2>1. CASE k = 0
    <3>1. Left(c.tail) = 0
      BY <1>4, <2>1, LinesAssumption DEF Left
    <3> QED  BY <1>2, <1>3, <2>1, <3>1
  <2>2. CASE k # 0
    <3>1. Left(c.tail) \in 0 .. 2
      BY DEF Left
    <3> QED  BY <1>2, <1>3, <2>2, <3>1
  <2> QED  BY <2>1, <2>2
<1>8. Chain(t, n, k = 0)
  BY <1>2, <1>4 DEF Chain
<1> QED  BY <1>1, <1>2, <1>5, <1>6, <1>7, <1>8 DEF Saves, t

\* An entry with the id n that goes after entries with smaller ones.
Follows(e, es, n) ==
  /\ e \in Record /\ e.kind # "session" /\ e.id = n /\ e.parent < n /\ e.covers \subseteq 1 .. (n - 1)
  /\ e.parent = 0 \/ e.parent \in Store!Ids(es)

\* Append, position by position.
LEMMA AppendFacts ==
  ASSUME NEW S, NEW s \in Seq(S), NEW x \in S
  PROVE  /\ Append(s, x) \in Seq(S) /\ Append(s, x) # <<>> /\ Len(Append(s, x)) = Len(s) + 1
         /\ DOMAIN s = 1 .. Len(s) /\ DOMAIN Append(s, x) = 1 .. Len(s) + 1 /\ Len(s) \in Nat
         /\ (\A i \in DOMAIN s : i \in DOMAIN Append(s, x) /\ Append(s, x)[i] = s[i])
         /\ Len(s) + 1 \in DOMAIN Append(s, x) /\ Append(s, x)[Len(s) + 1] = x
         /\ \A i \in DOMAIN Append(s, x) : i = Len(s) + 1 \/ i \in DOMAIN s
<1>1. Append(s, x) \in Seq(S) /\ Len(Append(s, x)) = Len(s) + 1 /\ Len(s) \in Nat /\ DOMAIN s = 1 .. Len(s)
  OBVIOUS
<1>2. (\A i \in 1 .. Len(s) : Append(s, x)[i] = s[i]) /\ Append(s, x)[Len(s) + 1] = x
  BY AppendProperties
<1>3. DOMAIN Append(s, x) = 1 .. Len(s) + 1 /\ Len(s) + 1 \in 1 .. Len(s) + 1
  BY <1>1
<1>4. \A i \in 1 .. Len(s) + 1 : i = Len(s) + 1 \/ i \in 1 .. Len(s)
  BY <1>1
<1>5. \A i \in 1 .. Len(s) : i \in 1 .. Len(s) + 1
  BY <1>1
<1>6. Append(s, x) # <<>>
  <2>1. Len(<<>>) = 0 /\ Len(s) + 1 # 0
    BY <1>1, EmptySeq
  <2> QED  BY <1>1, <2>1
<1> QED  BY <1>1, <1>2, <1>3, <1>4, <1>5, <1>6

\* A new entry may follow the others.
LEMMA ChainGrows ==
  ASSUME NEW n \in Nat, NEW sound \in BOOLEAN, NEW es, Chain(es, n, sound), NEW e, Follows(e, es, n)
  PROVE  Chain(Append(es, e), n + 1, sound)
<1>1. es \in Seq(Record) /\ es # <<>> /\ e \in Record
  BY DEF Chain, Follows
<1>2. /\ Append(es, e) \in Seq(Record) /\ Append(es, e) # <<>>
      /\ DOMAIN es = 1 .. Len(es) /\ Len(es) \in Nat \ {0}
      /\ (\A i \in DOMAIN es : i \in DOMAIN Append(es, e) /\ Append(es, e)[i] = es[i])
      /\ Append(es, e)[Len(es) + 1] = e
      /\ \A i \in DOMAIN Append(es, e) : i = Len(es) + 1 \/ i \in DOMAIN es
  BY <1>1, AppendFacts, EmptySeq
<1>3. /\ \A i \in DOMAIN es : Fits(es[i], i, n) /\ Fits(es[i], i, n + 1) /\ es[i].id < n /\ es[i].id \in Nat
      /\ Fits(e, Len(es) + 1, n + 1) /\ e.id = n
  <2>1. \A i \in DOMAIN es : Fits(es[i], i, n) /\ es[i] \in Record
    BY <1>1, <1>2, ElementOfSeq DEF Chain
  <2>2. 1 .. (n - 1) \subseteq 1 .. (n + 1 - 1) /\ n < n + 1 /\ Len(es) + 1 # 1
    BY <1>2
  <2>3. \A i \in DOMAIN es : es[i].id \in Nat /\ es[i].id < n
    BY <2>1, EntryFacts DEF Fits
  <2>4. \A i \in DOMAIN es : Fits(es[i], i, n + 1)
    BY <2>1, <2>2, <2>3 DEF Fits
  <2>5. Fits(e, Len(es) + 1, n + 1) /\ e.id = n
    BY <2>2 DEF Follows, Fits
  <2> QED  BY <2>1, <2>3, <2>4, <2>5
<1> DEFINE t == Append(es, e)
<1> HIDE DEF t
<1>4. \A i \in DOMAIN t : Fits(t[i], i, n + 1)
  BY <1>2, <1>3 DEF t
<1>5. Ascending(t)
  <2> SUFFICES ASSUME NEW i \in DOMAIN t, NEW j \in DOMAIN t, i < j PROVE t[i].id < t[j].id
    BY DEF Ascending
  <2>1. i \in DOMAIN es
    BY <1>2 DEF t
  <2>2. CASE j \in DOMAIN es
    BY <1>2, <2>1, <2>2 DEF t, Chain, Ascending
  <2>3. CASE j = Len(es) + 1
    BY <1>2, <1>3, <2>1, <2>3 DEF t
  <2> QED  BY <1>2, <2>2, <2>3 DEF t
<1>6. ASSUME sound PROVE Closed(t)
  <2>1. Store!Ids(es) \subseteq Store!Ids(t)
    BY <1>2 DEF Store!Ids, t
  <2>2. \A i \in DOMAIN es : es[i].parent = 0 \/ es[i].parent \in Store!Ids(es)
    BY <1>6 DEF Chain, Closed
  <2>3. e.parent = 0 \/ e.parent \in Store!Ids(es)
    BY DEF Follows
  <2> QED  BY <1>2, <2>1, <2>2, <2>3 DEF Closed, t
<1> QED  BY <1>2, <1>4, <1>5, <1>6 DEF Chain, t

\* What a file has once an entry may have been added at p, and nothing follows.
LEMMA OrderGrows ==
  ASSUME NEW n \in Nat, NEW w, InFileOrder(w, n), NEW es, NEW e, Follows(e, es, n),
         NEW v, NEW p \in Nat, Real(v) \subseteq 1 .. p,
         \A i \in Real(v) : \/ i \in Real(w) /\ v[i] = w[i]
                            \/ i = p /\ p # 1 /\ v[i] = e
  PROVE  InFileOrder(v, n + 1)
<1>1. \A i \in Real(w) : Fits(w[i], i, n) /\ w[i].id \in Nat /\ w[i].id < n /\ Fits(w[i], i, n + 1)
  <2>1. \A i \in Real(w) : Fits(w[i], i, n) /\ w[i].id \in Nat /\ w[i].id < n
    BY EntryFacts DEF InFileOrder, Real, Fits
  <2>2. 1 .. (n - 1) \subseteq 1 .. (n + 1 - 1)
    OBVIOUS
  <2> QED  BY <2>1, <2>2 DEF Fits
<1>2. p # 1 => Fits(e, p, n + 1)
  <2>1. 1 .. (n - 1) \subseteq 1 .. (n + 1 - 1) /\ n < n + 1
    OBVIOUS
  <2> QED  BY <2>1 DEF Follows, Fits
<1>3. \A i \in Real(v) : Fits(v[i], i, n + 1)
  BY <1>1, <1>2
<1>4. ASSUME NEW i \in Real(v), NEW j \in Real(v), i < j PROVE v[i].id < v[j].id
  <2>1. i \in Real(w) /\ v[i] = w[i]
    BY <1>4
  <2>2. CASE j \in Real(w) /\ v[j] = w[j]
    BY <1>4, <2>1, <2>2 DEF InFileOrder
  <2>3. CASE v[j] = e
    BY <1>1, <2>1, <2>3 DEF Follows
  <2> QED  BY <2>2, <2>3
<1> QED  BY <1>3, <1>4 DEF InFileOrder

\* appendFileSync of a line that does not fail.
LEMMA LineAdded ==
  ASSUME NEW n \in Nat, NEW k \in Nat, NEW c, NewFile(c, n, k = 0), NEW es, Chain(es, n, k = 0),
         Saves(c, es, k), NEW e, Follows(e, es, n),
         NEW d, d = Store!Content(Append(c.lines, IF c.tail = None THEN e ELSE Bad), None)
  PROVE  NewFile(d, n + 1, k = 0) /\ Saves(d, Append(es, e), k)
<1> DEFINE x == IF c.tail = None THEN e ELSE Bad
           m == Len(c.lines)
           w == Whole(c)
           v == Whole(d)
<1>1. c \in FileContent /\ InFileOrder(w, n) /\ es \in Seq(Record) /\ e \in Record
  BY DEF NewFile, Chain, Follows
<1>2. /\ c.lines \in Seq(Record \cup {Bad}) /\ m \in Nat /\ DOMAIN c.lines = 1 .. m
      /\ DOMAIN w = 1 .. m + 1 /\ (\A i \in DOMAIN c.lines : w[i] = c.lines[i]) /\ w[m + 1] = c.tail
      /\ c.tail \in Record \cup {None, Cut}
  BY <1>1, WholeFacts
<1>3. x \in Record \cup {Bad}
  BY <1>1
<1> HIDE DEF x
<1>4. /\ d.lines = Append(c.lines, x) /\ d.tail = None /\ d \in FileContent
      /\ d.lines \in Seq(Record \cup {Bad}) /\ Len(d.lines) = m + 1 /\ DOMAIN d.lines = 1 .. m + 1
      /\ (\A i \in DOMAIN c.lines : d.lines[i] = c.lines[i]) /\ d.lines[m + 1] = x
  <2>1. d = [lines |-> Append(c.lines, x), tail |-> None]
    BY DEF Store!Content, x
  <2>2. Append(c.lines, x) \in Seq(Record \cup {Bad})
    BY <1>2, <1>3, AppendFacts
  <2>3. d \in FileContent
    BY <2>1, <2>2 DEF FileContent
  <2>4. /\ Len(Append(c.lines, x)) = m + 1 /\ DOMAIN Append(c.lines, x) = 1 .. m + 1
        /\ (\A i \in DOMAIN c.lines : Append(c.lines, x)[i] = c.lines[i])
        /\ Append(c.lines, x)[m + 1] = x
    BY <1>2, <1>3, AppendFacts
  <2>5. d.lines = Append(c.lines, x) /\ d.tail = None
    BY <2>1
  <2> HIDE DEF m
  <2> QED  BY <2>2, <2>3, <2>4, <2>5
<1> HIDE DEF m
<1>5. /\ DOMAIN v = 1 .. m + 2 /\ v[m + 2] = None /\ v[m + 1] = x /\ Len(v) = m + 2
      /\ \A i \in DOMAIN c.lines : v[i] = c.lines[i]
  <2>1. /\ DOMAIN v = 1 .. (m + 1) + 1 /\ v[(m + 1) + 1] = None /\ Len(v) = (m + 1) + 1
        /\ \A i \in 1 .. m + 1 : v[i] = d.lines[i]
    BY <1>4, WholeFacts
  <2>2. (m + 1) + 1 = m + 2 /\ m + 1 \in 1 .. m + 1 /\ \A i \in 1 .. m : i \in 1 .. m + 1
    BY <1>2
  <2> QED  BY <1>2, <1>4, <2>1, <2>2
<1> HIDE DEF w, v
<1>6. c.tail = None => m + 1 # 1
  <2>1. SUFFICES ASSUME c.tail = None, m = 0 PROVE FALSE
    BY <1>2
  <2>2. w = <<None>>
    <3>1. DOMAIN w = 1 .. 1 /\ w[1] = None
      BY <1>2, <2>1
    <3>2. w \in Seq(Record \cup {Bad, None, Cut}) /\ Len(w) = m + 1
      BY <1>1, WholeFacts DEF w, m
    <3>3. Len(w) = 1
      BY <2>1, <3>2
    <3> QED  BY <3>1, <3>2, <3>3
  <2> QED  BY <2>2 DEF Saves, w
<1>7. \A i \in Real(v) : \/ i \in Real(w) /\ v[i] = w[i]
                         \/ i = m + 1 /\ m + 1 # 1 /\ v[i] = e
  <2> SUFFICES ASSUME NEW i \in Real(v)
               PROVE  (i \in Real(w) /\ v[i] = w[i]) \/ (i = m + 1 /\ m + 1 # 1 /\ v[i] = e)
    OBVIOUS
  <2>1. i \in 1 .. m + 2 /\ v[i] \in Record
    BY <1>5 DEF Real
  <2>2. i # m + 2
    BY <1>5, <2>1, LinesAssumption
  <2>3. CASE i = m + 1
    <3>1. x \in Record
      BY <1>5, <2>1, <2>3
    <3>2. c.tail = None
      BY <3>1, LinesAssumption DEF x
    <3> QED  BY <1>5, <1>6, <2>3, <3>2 DEF x
  <2>4. CASE i \in 1 .. m
    <3>1. i \in 1 .. m + 1
      BY <1>2, <2>4
    <3> QED  BY <1>2, <1>5, <2>1, <2>4, <3>1 DEF Real
  <2> QED  BY <1>2, <2>1, <2>2, <2>3, <2>4
<1>8. InFileOrder(v, n + 1)
  <2>1. Real(v) \subseteq 1 .. m + 2 /\ m + 2 \notin Real(v)
    BY <1>5, LinesAssumption DEF Real
  <2>2. Real(v) \subseteq 1 .. m + 1 /\ m + 1 \in Nat
    BY <1>2, <2>1
  <2> QED  BY <1>1, <1>7, <2>2, OrderGrows
<1>9. k = 0 => d = Store!Content(Append(es, e), None)
  <2>1. SUFFICES ASSUME k = 0 PROVE d = Store!Content(Append(es, e), None)
    OBVIOUS
  <2>2. c.lines = es /\ c.tail = None
    BY <2>1 DEF Saves, Store!Content
  <2> QED  BY <2>2
<1>10. NewFile(d, n + 1, k = 0)
  <2>1. k = 0 => d.lines \in Seq(Record) /\ Closed(d.lines)
    <3>1. Chain(Append(es, e), n + 1, k = 0)
      BY ChainGrows
    <3> QED  BY <1>9, <3>1 DEF Chain, Store!Content
  <2> QED  BY <1>4, <1>8, <2>1 DEF NewFile, v
<1>11. \A i \in Real(v) : \E j \in DOMAIN Append(es, e) : Append(es, e)[j] = v[i]
  <2>1. \A i \in Real(w) : \E j \in DOMAIN es : es[j] = w[i]
    BY DEF Saves, w
  <2> QED  BY <1>1, <1>7, <2>1, AppendFacts
<1>12. Len(Append(es, e)) + Left(d.tail) <= Kept(v) + 2 * k
  <2>1. Len(Append(es, e)) = Len(es) + 1 /\ Len(es) \in Nat
    BY <1>1, AppendFacts
  <2>2. Left(d.tail) = 0
    BY <1>4, LinesAssumption DEF Left
  <2>3. Len(es) + Left(c.tail) <= Kept(w) + 2 * k
    BY DEF Saves, w
  <2>4. Kept(w) = Kept(c.lines) + (IF c.tail \in Record THEN 1 ELSE 0) /\ Kept(c.lines) \in Nat
    BY <1>1, KeptIs DEF w
  <2>5. Kept(v) = Kept(d.lines)
    <3>1. Kept(v) = Kept(d.lines) + 0 /\ Kept(d.lines) \in Nat
      BY <1>4, KeptIs, LinesAssumption DEF v
    <3> QED  BY <3>1
  <2>6. Kept(d.lines) = Kept(c.lines) + (IF x \in Record THEN 1 ELSE 0)
    <3>1. Cardinality(Real(Append(c.lines, x))) = Cardinality(Real(c.lines)) + (IF x \in Record THEN 1 ELSE 0)
      BY <1>2, RealAppend
    <3> QED  BY <1>4, <3>1 DEF Kept
  <2>7. CASE c.tail = None
    <3>1. x \in Record /\ c.tail \notin Record /\ Left(c.tail) = 0
      BY <1>1, <2>7, LinesAssumption DEF x, Left
    <3> QED  BY <2>1, <2>2, <2>3, <2>4, <2>5, <2>6, <3>1
  <2>8. CASE c.tail = Cut
    <3>1. x \notin Record /\ c.tail \notin Record /\ Left(c.tail) = 1
      BY <1>1, <2>8, LinesAssumption DEF x, Left
    <3> QED  BY <2>1, <2>2, <2>3, <2>4, <2>5, <2>6, <3>1
  <2>9. CASE c.tail \in Record
    <3>1. x \notin Record /\ Left(c.tail) = 2
      BY <1>1, <2>9, LinesAssumption DEF x, Left
    <3> QED  BY <2>1, <2>2, <2>3, <2>4, <2>5, <2>6, <2>9, <3>1
  <2> QED  BY <1>2, <2>7, <2>8, <2>9
<1>13. v # <<None>>
  <2>1. Len(<<None>>) = 1 /\ m + 2 # 1
    BY <1>2
  <2> QED  BY <1>5, <2>1
<1> QED  BY <1>4, <1>9, <1>10, <1>11, <1>12, <1>13 DEF Saves, v

\* appendFileSync of a line that fails.
LEMMA LineFails ==
  ASSUME NEW n \in Nat, NEW k \in Nat, NEW c, NewFile(c, n, k = 0), NEW es, Chain(es, n, k = 0),
         Saves(c, es, k), NEW e, Follows(e, es, n),
         NEW tail \in {c.tail, Cut} \cup (IF c.tail = None THEN {e} ELSE {}),
         NEW d, d = Store!Content(c.lines, tail)
  PROVE  NewFile(d, n + 1, k + 1 = 0) /\ Saves(d, Append(es, e), k + 1)
<1> DEFINE m == Len(c.lines)
           w == Whole(c)
           v == Whole(d)
<1>1. c \in FileContent /\ InFileOrder(w, n) /\ es \in Seq(Record) /\ e \in Record
  BY DEF NewFile, Chain, Follows
<1>2. /\ c.lines \in Seq(Record \cup {Bad}) /\ m \in Nat /\ DOMAIN c.lines = 1 .. m
      /\ DOMAIN w = 1 .. m + 1 /\ (\A i \in 1 .. m : w[i] = c.lines[i]) /\ w[m + 1] = c.tail
      /\ c.tail \in Record \cup {None, Cut}
  BY <1>1, WholeFacts
<1>3. tail = c.tail \/ tail = Cut \/ (c.tail = None /\ tail = e)
  OBVIOUS
<1>4. d.lines = c.lines /\ d.tail = tail /\ d \in FileContent
  BY <1>1, <1>2, <1>3 DEF Store!Content, FileContent
<1>5. /\ DOMAIN v = 1 .. m + 1 /\ v[m + 1] = tail /\ Len(v) = m + 1
      /\ \A i \in 1 .. m : v[i] = c.lines[i]
  BY <1>2, <1>4, WholeFacts
<1>6. c.tail = None => m + 1 # 1
  <2>1. SUFFICES ASSUME c.tail = None, m = 0 PROVE FALSE
    BY <1>2
  <2>2. w = <<None>>
    <3>1. DOMAIN w = 1 .. 1 /\ w[1] = None
      BY <1>2, <2>1
    <3>2. w \in Seq(Record \cup {Bad, None, Cut}) /\ Len(w) = m + 1
      BY <1>1, WholeFacts DEF w, m
    <3>3. Len(w) = 1
      BY <2>1, <3>2
    <3> QED  BY <3>1, <3>2, <3>3
  <2> QED  BY <2>2 DEF Saves, w
<1> HIDE DEF w, v, m
<1>7. \A i \in Real(v) : \/ i \in Real(w) /\ v[i] = w[i]
                         \/ i = m + 1 /\ m + 1 # 1 /\ v[i] = e
  <2> SUFFICES ASSUME NEW i \in Real(v)
               PROVE  (i \in Real(w) /\ v[i] = w[i]) \/ (i = m + 1 /\ m + 1 # 1 /\ v[i] = e)
    OBVIOUS
  <2>1. i \in 1 .. m + 1 /\ v[i] \in Record
    BY <1>5 DEF Real
  <2>2. CASE i = m + 1
    <3>1. tail \in Record /\ tail # Cut
      BY <1>5, <2>1, <2>2, LinesAssumption
    <3>2. CASE tail = c.tail
      BY <1>2, <1>5, <2>1, <2>2, <3>2 DEF Real
    <3>3. CASE c.tail = None /\ tail = e
      BY <1>5, <1>6, <2>2, <3>3
    <3> QED  BY <1>3, <3>1, <3>2, <3>3
  <2>3. CASE i \in 1 .. m
    BY <1>2, <1>5, <2>1, <2>3 DEF Real
  <2> QED  BY <1>2, <2>1, <2>2, <2>3
<1>8. InFileOrder(v, n + 1)
  <2>1. Real(v) \subseteq 1 .. m + 1 /\ m + 1 \in Nat
    BY <1>2, <1>5 DEF Real
  <2> QED  BY <1>1, <1>7, <2>1, OrderGrows
<1>9. NewFile(d, n + 1, k + 1 = 0)
  BY <1>4, <1>8 DEF NewFile, v
<1>10. \A i \in Real(v) : \E j \in DOMAIN Append(es, e) : Append(es, e)[j] = v[i]
  <2>1. \A i \in Real(w) : \E j \in DOMAIN es : es[j] = w[i]
    BY DEF Saves, w
  <2> QED  BY <1>1, <1>7, <2>1, AppendFacts
<1>11. Len(Append(es, e)) + Left(d.tail) <= Kept(v) + 2 * (k + 1)
  <2>1. Len(Append(es, e)) = Len(es) + 1 /\ Len(es) \in Nat
    BY <1>1, AppendFacts
  <2>2. Len(es) + Left(c.tail) <= Kept(w) + 2 * k
    BY DEF Saves, w
  <2>3. Kept(w) = Kept(c.lines) + (IF c.tail \in Record THEN 1 ELSE 0) /\ Kept(c.lines) \in Nat
    BY <1>1, KeptIs DEF w
  <2>4. Kept(v) = Kept(c.lines) + (IF tail \in Record THEN 1 ELSE 0)
    BY <1>4, KeptIs DEF v
  <2>5. Left(Cut) = 1 /\ Left(None) = 0 /\ Left(e) = 2 /\ Cut \notin Record /\ None \notin Record
    BY <1>1, LinesAssumption DEF Left
  <2>6. 2 * (k + 1) = 2 * k + 2 /\ 2 * k \in Nat
    OBVIOUS
  <2>7. Left(c.tail) \in 0 .. 2 /\ (c.tail \in Record => Left(c.tail) = 2) /\ d.tail = tail
    BY <1>4 DEF Left
  <2>8. CASE tail = c.tail
    BY <2>1, <2>2, <2>3, <2>4, <2>6, <2>7, <2>8
  <2>9. CASE tail = Cut
    <3>1. Kept(v) = Kept(c.lines) /\ Left(d.tail) = 1
      BY <2>3, <2>4, <2>5, <2>7, <2>9
    <3>2. CASE c.tail \in Record
      BY <2>1, <2>2, <2>3, <2>6, <2>7, <3>1, <3>2
    <3>3. CASE c.tail \notin Record
      BY <2>1, <2>2, <2>3, <2>6, <2>7, <3>1, <3>3
    <3> QED  BY <3>2, <3>3
  <2>10. CASE c.tail = None /\ tail = e
    <3>1. Kept(v) = Kept(c.lines) + 1 /\ Left(d.tail) = 2 /\ Kept(w) = Kept(c.lines) /\ Left(c.tail) = 0
      BY <1>1, <2>3, <2>4, <2>5, <2>7, <2>10
    <3> QED  BY <2>1, <2>2, <2>3, <2>6, <3>1
  <2> QED  BY <1>3, <2>8, <2>9, <2>10
<1>12. v # <<None>>
  <2>1. SUFFICES ASSUME v = <<None>> PROVE FALSE
    OBVIOUS
  <2>2. m + 1 = 1 /\ tail = None
    <3>1. Len(<<None>>) = 1 /\ <<None>>[1] = None
      OBVIOUS
    <3> QED  BY <1>5, <2>1, <3>1
  <2>3. c.tail # None
    BY <1>6, <2>2
  <2>4. tail # e
    BY <1>1, <2>2, LinesAssumption
  <2> QED  BY <1>3, <2>2, <2>3, <2>4, LinesAssumption
<1> QED  BY <1>4, <1>9, <1>10, <1>11, <1>12 DEF Saves, v

-----------------------------------------------------------------------------
(* What is loaded *)

\* A file gives its session's entries back in their order, but for two for each failed write.
LEMMA Stored ==
  ASSUME NEW n \in Nat, NEW k \in Nat, NEW c, NewFile(c, n, k = 0), NEW es, Chain(es, n, k = 0),
         Saves(c, es, k), c.lines # <<>>, c.lines[1] # Bad
  PROVE  /\ Store!Load(c) = Store!Filter(es, LAMBDA e : e \in Store!Range(Store!Load(c)))
         /\ Len(es) - Len(Store!Load(c)) <= 2 * k
<1> DEFINE t == Store!Load(c)
           P == {i \in DOMAIN es : es[i] \in Store!Range(t)}
           u == Store!At(es, P)
<1>1. c \in FileContent /\ InFileOrder(Whole(c), n) /\ es \in Seq(Record) /\ Ascending(es)
  BY DEF NewFile, Chain
<1>2. 1 \in Real(Whole(c))
  <2>1. /\ c.lines \in Seq(Record \cup {Bad}) /\ DOMAIN c.lines \subseteq DOMAIN Whole(c)
        /\ \A i \in DOMAIN c.lines : Whole(c)[i] = c.lines[i]
    BY <1>1, WholeFacts
  <2>2. 1 \in DOMAIN c.lines /\ c.lines[1] \in Record \cup {Bad}
    BY <2>1, EmptySeq
  <2> QED  BY <2>1, <2>2 DEF Real
<1>3. /\ Chain(t, n, FALSE) /\ Within(t, Whole(c)) /\ Len(t) = Kept(Whole(c))
  BY <1>1, <1>2, LoadNew DEF Kept
<1>4. t \in Seq(Record) /\ Ascending(t) /\ Len(t) \in Nat
  BY <1>3 DEF Chain
<1> HIDE DEF t
<1>5. Within(t, es)
  <2> SUFFICES ASSUME NEW i \in DOMAIN t PROVE \E j \in DOMAIN es : t[i] = es[j]
    BY DEF Within
  <2>1. PICK j \in DOMAIN Whole(c) : t[i] = Whole(c)[j]
    BY <1>3 DEF Within
  <2>2. t[i] \in Record
    BY <1>4
  <2>3. j \in Real(Whole(c))
    BY <2>1, <2>2 DEF Real
  <2> QED  BY <2>1, <2>3 DEF Saves
<1>6. P \in SUBSET DOMAIN es
  OBVIOUS
<1>7. u \in Seq(Record) /\ \E places : Picks(u, es, P, places)
  <2> HIDE DEF P
  <2> QED  BY <1>1, <1>6, AtTakes
<1>8. PICK places : Picks(u, es, P, places)
  BY <1>7
<1> HIDE DEF u
<1>9. /\ \A i \in DOMAIN u : places[i] \in P /\ u[i] = es[places[i]]
      /\ \A i, j \in DOMAIN u : i < j => places[i] < places[j]
      /\ \A p \in P : \E i \in DOMAIN u : places[i] = p
  <2> HIDE DEF P
  <2> QED  BY <1>8 DEF Picks
<1>10. Ascending(u)
  <2>1. \A i \in DOMAIN u : places[i] \in DOMAIN es /\ u[i] = es[places[i]]
    BY <1>9
  <2> QED  BY <1>1, <1>9, <2>1 DEF Ascending
<1>11. Within(u, t)
  <2>1. \A p \in P : \E j \in DOMAIN t : es[p] = t[j]
    BY DEF Store!Range
  <2> QED  BY <1>9, <2>1 DEF Within
<1>12. Within(t, u)
  <2> SUFFICES ASSUME NEW i \in DOMAIN t PROVE \E j \in DOMAIN u : t[i] = u[j]
    BY DEF Within
  <2>1. PICK p \in DOMAIN es : t[i] = es[p]
    BY <1>5 DEF Within
  <2>2. p \in P
    BY <2>1 DEF Store!Range
  <2> QED  BY <1>9, <2>1, <2>2
<1>13. t = u
  BY <1>4, <1>7, <1>10, <1>11, <1>12, Same
<1>14. Store!Filter(es, LAMBDA e : e \in Store!Range(t)) = u
  BY DEF Store!Filter, u
<1>15. Len(es) - Len(t) <= 2 * k
  <2>1. Len(es) + Left(c.tail) <= Kept(Whole(c)) + 2 * k
    BY DEF Saves
  <2>2. Left(c.tail) \in Nat /\ Len(es) \in Nat
    BY <1>1 DEF Left
  <2> QED  BY <1>3, <1>4, <2>1, <2>2
<1> QED  BY <1>13, <1>14, <1>15 DEF t

\* The greatest and the least of some positions, 0 where there are none.
LastIn(I) == IF I # {} THEN Store!Max(I) ELSE 0
FirstIn(I) == IF I # {} THEN Store!Min(I) ELSE 0

\* The greatest of some positions is one of them.
LEMMA LastInIs ==
  ASSUME NEW n \in Nat, NEW I \in SUBSET (1 .. n)
  PROVE  /\ LastIn(I) \in 0 .. n /\ (LastIn(I) # 0 <=> I # {})
         /\ LastIn(I) # 0 => LastIn(I) \in I
         /\ \A i \in I : i <= LastIn(I)
<1>1. CASE I = {}
  BY <1>1 DEF LastIn
<1>2. CASE I # {}
  <2>1. LastIn(I) \in I /\ \A i \in I : i <= LastIn(I)
    BY <1>2, Greatest DEF LastIn
  <2>2. LastIn(I) \in 1 .. n
    BY <2>1
  <2> HIDE DEF LastIn
  <2> QED  BY <1>2, <2>1, <2>2
<1> QED  BY <1>1, <1>2

\* The least of some positions is one of them.
LEMMA FirstInIs ==
  ASSUME NEW I \in SUBSET (Nat \ {0})
  PROVE  /\ FirstIn(I) \in Nat /\ (FirstIn(I) # 0 <=> I # {})
         /\ FirstIn(I) # 0 => FirstIn(I) \in I
         /\ \A i \in I : FirstIn(I) <= i
<1>1. CASE I = {}
  BY <1>1 DEF FirstIn
<1>2. CASE I # {}
  <2>1. \E x \in I : \A y \in I : x <= y
    <3>1. I \in SUBSET Nat
      OBVIOUS
    <3> QED  BY <1>2, <3>1, Least
  <2>2. Store!Min(I) \in I /\ \A y \in I : Store!Min(I) <= y
    BY <2>1 DEF Store!Min
  <2> QED  BY <1>2, <2>2 DEF FirstIn
<1> QED  BY <1>1, <1>2

\* The parent's position is an earlier one, where the parent's id is found.
LEMMA ParentAtIs ==
  ASSUME NEW es, NEW i \in Nat
  PROVE  /\ Store!ParentAt(es, i) \in 0 .. i /\ (i # 0 => Store!ParentAt(es, i) < i)
         /\ \A j \in 1 .. i - 1 : es[j].id = es[i].parent => Store!ParentAt(es, i) # 0
         /\ Store!ParentAt(es, i) # 0 => es[Store!ParentAt(es, i)].id = es[i].parent
<1> DEFINE I == {j \in 1 .. i - 1 : es[j].id = es[i].parent}
           k == Store!ParentAt(es, i)
<1>1. k = LastIn(I)
  BY DEF LastIn, Store!ParentAt, Store!SelectLastInSubSeq
<1> HIDE DEF k
<1>2. CASE i = 0
  <2>1. I = {}
    BY <1>2
  <2>2. k = 0
    BY <1>1, <2>1 DEF LastIn
  <2> QED  BY <1>2, <2>2 DEF k
<1>3. CASE i # 0
  <2>1. i - 1 \in Nat /\ I \in SUBSET (1 .. i - 1)
    BY <1>3
  <2>2. k \in 0 .. i - 1 /\ (k # 0 <=> I # {}) /\ (k # 0 => k \in I)
    <3> HIDE DEF I
    <3> QED  BY <1>1, <2>1, LastInIs
  <2> QED  BY <1>3, <2>1, <2>2 DEF k
<1> QED  BY <1>2, <1>3

\* In entries that are in order, an entry before another has its parent.
LEMMA ChainParents ==
  ASSUME NEW n \in Nat, NEW sound \in BOOLEAN, NEW es, Chain(es, n, sound), NEW i \in DOMAIN es
  PROVE  \/ es[i].parent = 0 \/ Store!ParentAt(es, i) # 0
         \/ ~sound /\ es[i].parent \notin Store!Ids(es)
<1>1. /\ Len(es) \in Nat /\ DOMAIN es = 1 .. Len(es) /\ Fits(es[i], i, n)
      /\ \A j \in DOMAIN es : es[j].id \in Nat /\ es[j].parent \in Nat
  <2>1. es \in Seq(Record)
    BY DEF Chain
  <2>2. \A j \in DOMAIN es : es[j] \in Record
    BY <2>1
  <2> QED  BY <2>1, <2>2, EntryFacts DEF Chain
<1>2. SUFFICES ASSUME es[i].parent # 0, es[i].parent \in Store!Ids(es)
               PROVE  Store!ParentAt(es, i) # 0
  BY DEF Chain, Closed
<1>3. PICK j \in DOMAIN es : es[j].id = es[i].parent
  BY <1>2 DEF Store!Ids
<1>4. i # 1
  BY <1>1, <1>2 DEF Fits, Store!Header, Store!Entry
<1>5. es[j].id < es[i].id
  BY <1>1, <1>3, <1>4 DEF Fits
<1>6. j < i
  <2>1. SUFFICES ASSUME i <= j PROVE FALSE
    BY <1>1
  <2>2. i = j \/ es[i].id < es[j].id
    BY <1>1, <2>1 DEF Chain, Ascending
  <2> QED  BY <1>1, <1>5, <2>2
<1>7. j \in 1 .. i - 1 /\ i \in Nat
  BY <1>1, <1>6
<1> QED  BY <1>3, <1>7, ParentAtIs

-----------------------------------------------------------------------------
(* Labels *)

Labelled(es, r) ==
  \E i \in DOMAIN es :
    /\ es[i].kind = "label" /\ es[i].ref = r
    /\ \A j \in DOMAIN es : i < j /\ es[j].kind = "unlabel" => es[j].ref # r

\* An entry bears a label when one was put on it and none was taken off it since.
LEMMA LabelsOfIs ==
  ASSUME NEW S, NEW es \in Seq(S)
  PROVE  \A r : r \in Store!LabelsOf(es) <=> Labelled(es, r)
<1>1. Len(es) \in Nat /\ DOMAIN es = 1 .. Len(es)
  OBVIOUS
<1> DEFINE I(id) == {i \in 1 .. Len(es) : es[i].kind \in {"label", "unlabel"} /\ es[i].ref = id}
           Last(id) == LastIn(I(id))
<1>2. \A id : /\ Last(id) \in 0 .. Len(es) /\ (Last(id) # 0 <=> I(id) # {})
              /\ Last(id) # 0 => Last(id) \in I(id)
              /\ \A i \in I(id) : i <= Last(id)
  <2>1. \A id : I(id) \in SUBSET (1 .. Len(es))
    OBVIOUS
  <2> HIDE DEF I
  <2> QED  BY <1>1, <2>1, LastInIs
<1> HIDE DEF Last
<1>3. Store!LabelsOf(es) =
        {e.ref : e \in {x \in Store!Range(es) : x.kind = "label" /\ es[Last(x.ref)].kind = "label"}}
  BY DEF Store!LabelsOf, Store!SelectLastInSubSeq, LastIn, Last
<1>4. ASSUME NEW r, r \in Store!LabelsOf(es) PROVE Labelled(es, r)
  <2>1. PICK i \in DOMAIN es : es[i].ref = r /\ es[i].kind = "label" /\ es[Last(r)].kind = "label"
    BY <1>3, <1>4 DEF Store!Range
  <2>2. i \in I(r)
    BY <1>1, <2>1
  <2>3. Last(r) \in I(r)
    BY <1>2, <2>2
  <2>4. \A j \in DOMAIN es : Last(r) < j /\ es[j].kind = "unlabel" => es[j].ref # r
    <3> SUFFICES ASSUME NEW j \in DOMAIN es, Last(r) < j, es[j].kind = "unlabel", es[j].ref = r PROVE FALSE
      OBVIOUS
    <3>1. j \in I(r)
      BY <1>1
    <3>2. j <= Last(r) /\ Last(r) \in Nat
      BY <1>2, <3>1
    <3> QED  BY <1>1, <3>2
  <2> QED  BY <1>1, <2>1, <2>3, <2>4 DEF Labelled
<1>5. ASSUME NEW r, Labelled(es, r) PROVE r \in Store!LabelsOf(es)
  <2>1. PICK i \in DOMAIN es :
          /\ es[i].kind = "label" /\ es[i].ref = r
          /\ \A j \in DOMAIN es : i < j /\ es[j].kind = "unlabel" => es[j].ref # r
    BY <1>5 DEF Labelled
  <2>2. i \in I(r)
    BY <1>1, <2>1
  <2>3. Last(r) \in I(r) /\ i <= Last(r)
    BY <1>2, <2>2
  <2>4. es[Last(r)].kind = "label"
    <3>1. SUFFICES ASSUME es[Last(r)].kind # "label" PROVE FALSE
      OBVIOUS
    <3>2. es[Last(r)].kind = "unlabel" /\ es[Last(r)].ref = r /\ Last(r) \in DOMAIN es
      BY <1>1, <2>3, <3>1
    <3>3. i < Last(r)
      BY <1>1, <2>1, <2>3, <3>1, <3>2
    <3> QED  BY <2>1, <3>2, <3>3
  <2> QED  BY <1>3, <2>1, <2>4 DEF Store!Range
<1> QED  BY <1>4, <1>5

\* What one more entry does to the labels.
LEMMA LabelsGrow ==
  ASSUME NEW es \in Seq(Record), NEW e \in Record
  PROVE  Store!LabelsOf(Append(es, e)) =
           IF e.kind = "label" THEN Store!LabelsOf(es) \cup {e.ref}
           ELSE IF e.kind = "unlabel" THEN Store!LabelsOf(es) \ {e.ref}
           ELSE Store!LabelsOf(es)
<1> DEFINE t == Append(es, e)
           n == Len(es) + 1
<1>1. /\ t \in Seq(Record) /\ Len(es) \in Nat /\ DOMAIN es = 1 .. Len(es) /\ DOMAIN t = 1 .. n
      /\ (\A i \in DOMAIN es : i \in DOMAIN t /\ t[i] = es[i] /\ i < n) /\ n \in DOMAIN t /\ t[n] = e
      /\ \A i \in DOMAIN t : i = n \/ i \in DOMAIN es
  <2>1. \A i \in 1 .. Len(es) : i < Len(es) + 1
    BY LenProperties
  <2> QED  BY <2>1, AppendFacts
<1> HIDE DEF t, n
<1>2. \A r : r \in Store!LabelsOf(t) <=> Labelled(t, r)
  BY <1>1, LabelsOfIs
<1>3. \A r : r \in Store!LabelsOf(es) <=> Labelled(es, r)
  BY LabelsOfIs
<1>4. \A r : Labelled(t, r) <=> (\/ e.kind = "label" /\ e.ref = r
                                 \/ Labelled(es, r) /\ ~(e.kind = "unlabel" /\ e.ref = r))
  <2> TAKE r
  <2>1. ASSUME Labelled(t, r)
        PROVE  \/ e.kind = "label" /\ e.ref = r
               \/ Labelled(es, r) /\ ~(e.kind = "unlabel" /\ e.ref = r)
    <3>1. PICK i \in DOMAIN t :
            /\ t[i].kind = "label" /\ t[i].ref = r
            /\ \A j \in DOMAIN t : i < j /\ t[j].kind = "unlabel" => t[j].ref # r
      BY <2>1 DEF Labelled
    <3>2. CASE i = n
      BY <1>1, <3>1, <3>2
    <3>3. CASE i \in DOMAIN es
      <4>1. ~(e.kind = "unlabel" /\ e.ref = r)
        BY <1>1, <3>1, <3>3
      <4>2. Labelled(es, r)
        BY <1>1, <3>1, <3>3 DEF Labelled
      <4> QED  BY <4>1, <4>2
    <3> QED  BY <1>1, <3>2, <3>3
  <2>2. ASSUME e.kind = "label", e.ref = r PROVE Labelled(t, r)
    <3>1. \A j \in DOMAIN t : ~(n < j)
      BY <1>1 DEF n
    <3> QED  BY <1>1, <2>2, <3>1 DEF Labelled
  <2>3. ASSUME Labelled(es, r), ~(e.kind = "unlabel" /\ e.ref = r) PROVE Labelled(t, r)
    <3>1. PICK i \in DOMAIN es :
            /\ es[i].kind = "label" /\ es[i].ref = r
            /\ \A j \in DOMAIN es : i < j /\ es[j].kind = "unlabel" => es[j].ref # r
      BY <2>3 DEF Labelled
    <3>2. \A j \in DOMAIN t : i < j /\ t[j].kind = "unlabel" => t[j].ref # r
      BY <1>1, <2>3, <3>1
    <3> QED  BY <1>1, <3>1, <3>2 DEF Labelled
  <2> QED  BY <2>1, <2>2, <2>3
<1>5. \A r : r \in Store!LabelsOf(t) <=>
                (e.kind = "label" /\ e.ref = r) \/ (r \in Store!LabelsOf(es) /\ ~(e.kind = "unlabel" /\ e.ref = r))
  BY <1>2, <1>3, <1>4
<1> HIDE DEF Labelled
<1>6. CASE e.kind = "label"
  BY <1>5, <1>6 DEF t
<1>7. CASE e.kind = "unlabel"
  BY <1>5, <1>7 DEF t
<1>8. CASE e.kind \notin {"label", "unlabel"}
  BY <1>5, <1>8 DEF t
<1> QED  BY <1>6, <1>7, <1>8

-----------------------------------------------------------------------------
(* Paths *)

Paths(es) ==
  LET path[i \in 0 .. Len(es)] ==
        IF i = 0 THEN <<>> ELSE Append(path[Store!ParentAt(es, i)], es[i])
  IN  path

\* The recursion of PathTo is well defined: a parent comes before its children.
LEMMA PathsIs ==
  ASSUME NEW es, Len(es) \in Nat
  PROVE  Paths(es) = [i \in 0 .. Len(es) |->
           IF i = 0 THEN <<>> ELSE Append(Paths(es)[Store!ParentAt(es, i)], es[i])]
<1> DEFINE P(i) == Store!ParentAt(es, i)
           Solves(F, k) == F = [i \in 0 .. k |-> IF i = 0 THEN <<>> ELSE Append(F[P(i)], es[i])]
           Unsolved == {k \in Nat : ~\E F : Solves(F, k)}
<1>0. \A i \in Nat : i # 0 => P(i) \in 0 .. i /\ P(i) < i
  BY ParentAtIs
<1> HIDE DEF P
<1>1. Unsolved = {}
  <2>1. SUFFICES ASSUME Unsolved # {} PROVE FALSE
    OBVIOUS
  <2>2. PICK k \in Unsolved : \A j \in Unsolved : k <= j
    <3>1. Unsolved \in SUBSET Nat
      OBVIOUS
    <3> QED  BY <2>1, <3>1, Least
  <2>3. CASE k = 0
    <3> DEFINE F == [i \in 0 .. 0 |-> <<>>]
    <3>1. \A i \in 0 .. 0 : i = 0
      OBVIOUS
    <3>2. Solves(F, 0)
      BY <3>1
    <3> QED  BY <2>2, <2>3, <3>2
  <2>4. CASE k # 0
    <3>1. k - 1 \in Nat /\ k - 1 \notin Unsolved
      <4>1. k \in Nat /\ k - 1 \in Nat /\ ~(k <= k - 1)
        BY <2>2, <2>4
      <4> HIDE DEF Unsolved
      <4> QED  BY <2>2, <4>1
    <3>2. PICK F : Solves(F, k - 1)
      BY <3>1
    <3> DEFINE G == [i \in 0 .. k |-> IF i = k THEN Append(F[P(k)], es[k]) ELSE F[i]]
    <3>3. ASSUME NEW i \in 0 .. k
          PROVE  G[i] = IF i = 0 THEN <<>> ELSE Append(G[P(i)], es[i])
      <4>1. CASE i = k
        <5>1. P(k) \in 0 .. k /\ P(k) # k
          BY <1>0, <2>2, <2>4
        <5>2. G[i] = Append(F[P(k)], es[k]) /\ G[P(k)] = F[P(k)]
          BY <4>1, <5>1
        <5> QED  BY <2>4, <4>1, <5>2
      <4>2. CASE i # k
        <5>1. i \in 0 .. k - 1 /\ (i # 0 => P(i) \in 0 .. k /\ P(i) # k)
          BY <1>0, <3>1, <4>2
        <5>2. F[i] = IF i = 0 THEN <<>> ELSE Append(F[P(i)], es[i])
          BY <3>2, <5>1
        <5>3. G[i] = F[i] /\ (i # 0 => G[P(i)] = F[P(i)])
          BY <4>2, <5>1
        <5> QED  BY <5>2, <5>3
      <4> QED  BY <4>1, <4>2
    <3>4. Solves(G, k)
      BY <3>3
    <3> QED  BY <2>2, <3>4
  <2> QED  BY <2>3, <2>4
<1>2. \E F : Solves(F, Len(es))
  BY <1>1
<1>3. Paths(es) = CHOOSE F : Solves(F, Len(es))
  BY DEF Paths, P
<1>4. Solves(Paths(es), Len(es))
  BY <1>2, <1>3, Zenon
<1> QED  BY <1>4 DEF P

\* A path consists of entries of the session, in the order of their making.
LEMMA PathFacts ==
  ASSUME NEW es \in Seq(Record), Ascending(es), NEW id, id = 0 \/ id \in Store!Ids(es)
  PROVE  /\ Store!PathTo(es, id) \in Seq(Record) /\ Ascending(Store!PathTo(es, id))
         /\ Within(Store!PathTo(es, id), es)
<1> DEFINE T == Paths(es)
           Good(i) == /\ T[i] \in Seq(Record) /\ Ascending(T[i]) /\ Within(T[i], es)
                      /\ i = 0 => T[i] = <<>>
                      /\ i # 0 => T[i] # <<>> /\ T[i][Len(T[i])] = es[i]
           Wrong == {i \in 0 .. Len(es) : ~Good(i)}
<1>1. Len(es) \in Nat /\ DOMAIN es = 1 .. Len(es) /\ \A i \in DOMAIN es : es[i] \in Record /\ es[i].id \in Nat
  <2>1. Len(es) \in Nat /\ DOMAIN es = 1 .. Len(es) /\ \A i \in DOMAIN es : es[i] \in Record
    OBVIOUS
  <2> QED  BY <2>1, EntryFacts
<1>2. T = [i \in 0 .. Len(es) |-> IF i = 0 THEN <<>> ELSE Append(T[Store!ParentAt(es, i)], es[i])]
  BY <1>1, PathsIs
<1> HIDE DEF T
<1>3. Good(0)
  <2>1. T[0] = <<>>
    BY <1>1, <1>2
  <2> QED  BY <2>1, EmptySeq DEF Ascending, Within
<1>4. ASSUME NEW i \in 1 .. Len(es), \A j \in 0 .. i - 1 : Good(j)
      PROVE  Good(i)
  <2> DEFINE k == Store!ParentAt(es, i)
             t == T[k]
             u == Append(t, es[i])
  <2>1. i \in 0 .. Len(es) /\ i # 0 /\ i \in DOMAIN es /\ es[i] \in Record
    BY <1>1
  <2>2. k \in 0 .. i - 1
    BY <1>1, ParentAtIs
  <2>3. T[i] = u
    BY <1>2, <2>1
  <2>4. /\ t \in Seq(Record) /\ Ascending(t) /\ Within(t, es)
        /\ k = 0 => t = <<>>
        /\ k # 0 => t # <<>> /\ t[Len(t)] = es[k]
    BY <1>4, <2>2
  <2> HIDE DEF t, k
  <2>5. /\ u \in Seq(Record) /\ u # <<>> /\ Len(u) = Len(t) + 1 /\ DOMAIN t = 1 .. Len(t) /\ Len(t) \in Nat
        /\ DOMAIN u = 1 .. Len(t) + 1
        /\ (\A j \in DOMAIN t : u[j] = t[j]) /\ u[Len(t) + 1] = es[i]
        /\ \A j \in DOMAIN u : j = Len(t) + 1 \/ j \in DOMAIN t
    BY <2>1, <2>4, AppendFacts
  <2> HIDE DEF u
  <2>6. \A j \in DOMAIN t : t[j].id < es[i].id
    <3> SUFFICES ASSUME NEW j \in DOMAIN t PROVE t[j].id < es[i].id
      OBVIOUS
    <3>1. k # 0
      BY <2>4, <2>5
    <3>2. k \in DOMAIN es /\ k < i
      BY <1>1, <2>2, <3>1
    <3>3. es[k].id < es[i].id
      BY <2>1, <3>2 DEF Ascending
    <3>4. j = Len(t) \/ t[j].id < t[Len(t)].id
      <4>1. Len(t) \in DOMAIN t /\ j <= Len(t)
        BY <2>5
      <4>2. j = Len(t) \/ j < Len(t)
        BY <2>5, <4>1
      <4> QED  BY <2>4, <4>1, <4>2 DEF Ascending
    <3>5. t[j].id \in Nat
      <4>1. t[j] \in Record
        BY <2>4
      <4> QED  BY <4>1, EntryFacts
    <3>6. es[i].id \in Nat /\ es[k].id \in Nat
      BY <1>1, <2>1, <3>2
    <3> QED  BY <2>4, <3>1, <3>3, <3>4, <3>5, <3>6
  <2>7. Ascending(u)
    <3> SUFFICES ASSUME NEW x \in DOMAIN u, NEW y \in DOMAIN u, x < y PROVE u[x].id < u[y].id
      BY DEF Ascending
    <3>1. x \in DOMAIN t
      BY <2>5
    <3>2. CASE y \in DOMAIN t
      BY <2>4, <2>5, <3>1, <3>2 DEF Ascending
    <3>3. CASE y = Len(t) + 1
      BY <2>5, <2>6, <3>1, <3>3
    <3> QED  BY <2>5, <3>2, <3>3
  <2>8. Within(u, es)
    BY <2>1, <2>4, <2>5 DEF Within
  <2> QED  BY <2>1, <2>3, <2>5, <2>7, <2>8
<1>5. Wrong = {}
  <2>1. SUFFICES ASSUME Wrong # {} PROVE FALSE
    OBVIOUS
  <2>2. PICK i \in Wrong : \A j \in Wrong : i <= j
    <3>1. Wrong \in SUBSET Nat
      BY <1>1
    <3> QED  BY <2>1, <3>1, Least
  <2> HIDE DEF Good
  <2>3. i \in 0 .. Len(es) /\ ~Good(i) /\ i # 0
    BY <1>3, <2>2
  <2>4. i \in 1 .. Len(es)
    BY <1>1, <2>3
  <2>5. \A j \in 0 .. i - 1 : Good(j)
    <3> SUFFICES ASSUME NEW j \in 0 .. i - 1 PROVE Good(j)
      OBVIOUS
    <3>1. j \in 0 .. Len(es) /\ ~(i <= j)
      BY <1>1, <2>4
    <3> QED  BY <2>2, <3>1
  <2> QED  BY <1>4, <2>3, <2>4, <2>5
<1> DEFINE I == {i \in 1 .. Len(es) : es[i].id = id}
<1>6. Store!PathTo(es, id) = IF id = 0 THEN <<>> ELSE T[FirstIn(I)]
  BY DEF Store!PathTo, Store!SelectInSeq, FirstIn, T, Paths
<1>7. CASE id = 0
  BY <1>3, <1>6, <1>7
<1>8. CASE id # 0
  <2>1. I \in SUBSET (Nat \ {0}) /\ I # {}
    BY <1>1, <1>8 DEF Store!Ids
  <2>2. FirstIn(I) \in I
    <3> HIDE DEF I
    <3> QED  BY <2>1, FirstInIs
  <2>3. FirstIn(I) \in 0 .. Len(es)
    BY <1>1, <2>2
  <2> HIDE DEF Good
  <2>4. Good(FirstIn(I))
    BY <1>5, <2>3
  <2> USE DEF Good
  <2> QED  BY <1>6, <1>8, <2>4
<1> QED  BY <1>7, <1>8

-----------------------------------------------------------------------------
(* Trees *)

\* Entries other than the header, with ids below n.
Bodied(es, n) ==
  /\ es \in Seq(Record) /\ Ascending(es)
  /\ \A i \in DOMAIN es :
       /\ es[i].kind # "session" /\ es[i].id \in 1 .. (n - 1) /\ es[i].parent < es[i].id
       /\ es[i].covers \subseteq 1 .. (n - 1)

\* The entries after the header, and their ids.
LEMMA BodyIs ==
  ASSUME NEW n \in Nat, NEW sound, NEW es, Chain(es, n, sound)
  PROVE  /\ Bodied(Store!Body(es), n)
         /\ Len(es) \in Nat \ {0} /\ DOMAIN es = 1 .. Len(es) /\ es[1] = Store!Header(3)
         /\ Len(Store!Body(es)) = Len(es) - 1 /\ DOMAIN Store!Body(es) = 1 .. Len(es) - 1
         /\ \A i \in DOMAIN Store!Body(es) : i + 1 \in DOMAIN es /\ Store!Body(es)[i] = es[i + 1]
         /\ Store!Ids(es) = Store!Ids(Store!Body(es)) \cup {0}
<1> DEFINE b == Store!Body(es)
<1>1. es \in Seq(Record) /\ es # <<>> /\ Len(es) \in Nat \ {0} /\ DOMAIN es = 1 .. Len(es)
  BY EmptySeq DEF Chain
<1>2. \A i \in DOMAIN es : Fits(es[i], i, n) /\ es[i] \in Record /\ es[i].id \in Nat /\ es[i].parent \in Nat
  <2>1. \A i \in DOMAIN es : es[i] \in Record
    BY <1>1
  <2> QED  BY <2>1, EntryFacts DEF Chain
<1>3. es[1] = Store!Header(3)
  BY <1>1, <1>2 DEF Fits
<1>4. /\ b \in Seq(Record) /\ Len(b) = Len(es) - 1 /\ DOMAIN b = 1 .. Len(es) - 1
      /\ \A i \in 1 .. Len(es) - 1 : b[i] = es[i + 1]
  <2>1. b = Tail(es)
    BY <1>1 DEF Store!Body
  <2> QED  BY <1>1, <2>1, HeadTailProperties
<1> HIDE DEF b
<1>5. \A i \in DOMAIN b : i + 1 \in DOMAIN es /\ i + 1 # 1 /\ b[i] = es[i + 1]
  BY <1>1, <1>4
<1>6. Ascending(b)
  <2>1. \A i, j \in DOMAIN b : i < j => i + 1 < j + 1
    BY <1>1, <1>4
  <2> QED  BY <1>5, <2>1 DEF Ascending, Chain
<1>7. ASSUME NEW i \in DOMAIN b
      PROVE  /\ b[i].kind # "session" /\ b[i].id \in 1 .. (n - 1) /\ b[i].parent < b[i].id
             /\ b[i].covers \subseteq 1 .. (n - 1)
  <2>1. Fits(es[i + 1], i + 1, n) /\ i + 1 # 1 /\ b[i] = es[i + 1] /\ b[i].id \in Nat /\ b[i].parent \in Nat
    BY <1>2, <1>5
  <2>2. b[i].kind # "session" /\ b[i].id < n /\ b[i].parent < b[i].id /\ b[i].covers \subseteq 1 .. (n - 1)
    BY <2>1 DEF Fits
  <2> QED  BY <2>1, <2>2
<1>8. Store!Ids(es) = Store!Ids(b) \cup {0}
  <2>1. es[1].id = 0
    BY <1>3 DEF Store!Header, Store!Entry
  <2>2. \A i \in DOMAIN es : i = 1 \/ (i - 1 \in DOMAIN b /\ b[i - 1] = es[i])
    <3>1. \A i \in DOMAIN es : i = 1 \/ (i - 1 \in 1 .. Len(es) - 1 /\ (i - 1) + 1 = i)
      BY <1>1
    <3> QED  BY <1>4, <3>1
  <2>3. 1 \in DOMAIN es
    BY <1>1
  <2> QED  BY <1>5, <2>1, <2>2, <2>3 DEF Store!Ids
<1> QED  BY <1>1, <1>3, <1>4, <1>5, <1>6, <1>7, <1>8 DEF Bodied, b

\* The path to an entry holds entries of the session.
LEMMA PathBodied ==
  ASSUME NEW n \in Nat, NEW es, Bodied(es, n), NEW id, id = 0 \/ id \in Store!Ids(es)
  PROVE  Bodied(Store!PathTo(es, id), n)
BY PathFacts DEF Bodied, Within

\* Entries each of which is the child of the one before.
LEMMA LinkedChain ==
  ASSUME NEW n \in Nat \ {0}, NEW es \in Seq(Record), es # <<>>, es[1] = Store!Header(3), Ascending(es),
         \A i \in DOMAIN es : i # 1 =>
           /\ es[i].kind # "session" /\ es[i].id < n /\ es[i].covers \subseteq 1 .. (n - 1)
           /\ es[i].parent = es[i - 1].id
  PROVE  Chain(es, n, TRUE)
<1>1. Len(es) \in Nat \ {0} /\ DOMAIN es = 1 .. Len(es)
  BY EmptySeq
<1>2. Fits(es[1], 1, n)
  BY DEF Fits, Store!Header, Store!Entry
<1>3. \A i \in DOMAIN es : i # 1 => i - 1 \in DOMAIN es /\ i - 1 < i
  BY <1>1
<1>4. \A i \in DOMAIN es : i # 1 => Fits(es[i], i, n)
  BY <1>3 DEF Fits, Ascending
<1>5. Closed(es)
  <2>1. es[1].parent = 0
    BY DEF Store!Header, Store!Entry
  <2> QED  BY <1>3, <2>1 DEF Closed, Store!Ids
<1> QED  BY <1>2, <1>4, <1>5 DEF Chain

\* The path of a fork without its labels, chained anew.
LEMMA UnlabelledIs ==
  ASSUME NEW n \in Nat, NEW es, Bodied(es, n), NEW id, id = 0 \/ id \in Store!Ids(es)
  PROVE  /\ Bodied(Store!UnlabelledPath(es, id), n)
         /\ \A i \in DOMAIN Store!UnlabelledPath(es, id) :
              Store!UnlabelledPath(es, id)[i].parent =
                IF i = 1 THEN 0 ELSE Store!UnlabelledPath(es, id)[i - 1].id
<1> DEFINE p == Store!PathTo(es, id)
           P == {i \in DOMAIN p : p[i].kind \notin {"label", "unlabel"}}
           t == Store!At(p, P)
           Parent(i) == IF i = 1 THEN 0 ELSE t[i - 1].id
           u == [i \in DOMAIN t |-> [t[i] EXCEPT !.parent = Parent(i)]]
<1>1. Store!UnlabelledPath(es, id) = u
  BY DEF Store!UnlabelledPath, Store!Filter
<1>2. Bodied(p, n)
  BY PathBodied
<1> HIDE DEF p
<1>3. P \in SUBSET DOMAIN p /\ p \in Seq(Record)
  BY <1>2 DEF Bodied
<1> HIDE DEF P
<1>4. t \in Seq(Record) /\ \E places : Picks(t, p, P, places)
  BY <1>3, AtTakes
<1>5. PICK places : Picks(t, p, P, places)
  BY <1>4
<1> HIDE DEF t
<1>6. /\ \A i \in DOMAIN t : places[i] \in DOMAIN p /\ t[i] = p[places[i]]
      /\ \A i, j \in DOMAIN t : i < j => places[i] < places[j]
  BY <1>3, <1>5 DEF Picks
<1>7. Ascending(t)
  BY <1>2, <1>6 DEF Bodied, Ascending
<1>8. /\ Len(t) \in Nat /\ DOMAIN t = 1 .. Len(t)
      /\ \A i \in DOMAIN t : /\ t[i] \in Record /\ t[i].kind # "session" /\ t[i].id \in 1 .. (n - 1)
                             /\ t[i].covers \subseteq 1 .. (n - 1)
  <2>1. \A x \in DOMAIN p : /\ p[x].kind # "session" /\ p[x].id \in 1 .. (n - 1)
                            /\ p[x].covers \subseteq 1 .. (n - 1)
    BY <1>2 DEF Bodied
  <2>2. /\ Len(t) \in Nat /\ DOMAIN t = 1 .. Len(t)
        /\ \A i \in DOMAIN t : t[i] \in Record
    BY <1>4
  <2> QED  BY <1>6, <2>1, <2>2
<1>9. \A i \in DOMAIN t : /\ Parent(i) \in Nat /\ Parent(i) < t[i].id
                          /\ i # 1 => i - 1 \in DOMAIN t
  <2>1. \A i \in DOMAIN t : i # 1 => i - 1 \in DOMAIN t /\ i - 1 < i
    BY <1>8
  <2>2. \A i \in DOMAIN t : i # 1 => t[i - 1].id < t[i].id /\ t[i - 1].id \in Nat
    BY <1>7, <1>8, <2>1 DEF Ascending
  <2>3. \A i \in DOMAIN t : 0 < t[i].id
    BY <1>8
  <2> QED  BY <2>1, <2>2, <2>3
<1> HIDE DEF Parent
<1>10. \A i \in DOMAIN t : /\ u[i] \in Record /\ u[i].id = t[i].id /\ u[i].kind = t[i].kind
                           /\ u[i].covers = t[i].covers /\ u[i].parent = Parent(i)
  <2> SUFFICES ASSUME NEW i \in DOMAIN t
               PROVE  /\ u[i] \in Record /\ u[i].id = t[i].id /\ u[i].kind = t[i].kind
                      /\ u[i].covers = t[i].covers /\ u[i].parent = Parent(i)
    OBVIOUS
  <2>1. u[i] = [t[i] EXCEPT !.parent = Parent(i)]
    OBVIOUS
  <2>2. t[i] \in Record /\ Parent(i) \in Nat
    BY <1>8, <1>9
  <2> HIDE DEF u
  <2> QED  BY <2>1, <2>2 DEF Record
<1>11. u \in Seq(Record) /\ DOMAIN u = DOMAIN t
  <2>1. DOMAIN u = DOMAIN t /\ u \in [1 .. Len(t) -> Record]
    BY <1>8, <1>10
  <2> HIDE DEF u
  <2> QED  BY <1>8, <2>1, SeqDef
<1> HIDE DEF u
<1>12. Bodied(u, n)
  <2>1. Ascending(u)
    BY <1>7, <1>10, <1>11 DEF Ascending
  <2> QED  BY <1>8, <1>9, <1>10, <1>11, <2>1 DEF Bodied
<1>13. \A i \in DOMAIN u : u[i].parent = IF i = 1 THEN 0 ELSE u[i - 1].id
  BY <1>9, <1>10, <1>11 DEF Parent
<1> QED  BY <1>1, <1>12, <1>13

\* The entries for the labels that a fork keeps.
LEMMA LabelEntriesIs ==
  ASSUME NEW path, nextId \in Nat \ {0}, Bodied(path, nextId), NEW labels
  PROVE  LET le == Store!LabelEntries(path, labels)
         IN  /\ le \in Seq(Record)
             /\ \A i \in DOMAIN le :
                  /\ le[i].id = nextId + i - 1 /\ le[i].kind = "label" /\ le[i].covers = {}
                  /\ le[i].parent = IF i = 1 THEN (IF path = <<>> THEN 0 ELSE path[Len(path)].id)
                                    ELSE nextId + i - 2
<1> DEFINE s == [id \in 1 .. (nextId - 1) |-> id]
           P == labels \cap Store!Ids(path)
           t == Store!At(s, P)
           last == IF path = <<>> THEN 0 ELSE path[Len(path)].id
           le == Store!LabelEntries(path, labels)
<1>1. /\ path \in Seq(Record) /\ Len(path) \in Nat /\ DOMAIN path = 1 .. Len(path)
      /\ \A i \in DOMAIN path : path[i].id \in 1 .. (nextId - 1)
  BY DEF Bodied
<1>2. s \in Seq(Nat) /\ DOMAIN s = 1 .. (nextId - 1)
  <2>1. nextId - 1 \in Nat /\ s \in [1 .. (nextId - 1) -> Nat]
    OBVIOUS
  <2> HIDE DEF s
  <2>2. s \in Seq(Nat)
    BY <2>1, SeqDef
  <2> QED  BY <2>1, <2>2
<1>3. P \in SUBSET DOMAIN s
  BY <1>1, <1>2 DEF Store!Ids
<1>4. t \in Seq(Nat)
  <2> HIDE DEF P, s
  <2> QED  BY <1>2, <1>3, AtTakes
<1>5. last \in Nat
  <2>1. CASE path = <<>>
    BY <2>1
  <2>2. CASE path # <<>>
    <3>1. Len(path) \in DOMAIN path
      BY <1>1, <2>2, EmptySeq
    <3> QED  BY <1>1, <2>2, <3>1
  <2> QED  BY <2>1, <2>2
<1>6. le = [i \in DOMAIN t |->
         Store!Entry(nextId + i - 1, IF i = 1 THEN last ELSE nextId + i - 2, "label", t[i], {})]
  BY DEF Store!LabelEntries
<1> HIDE DEF last, t, le
<1>7. Len(t) \in Nat /\ DOMAIN t = 1 .. Len(t) /\ \A i \in DOMAIN t : t[i] \in Nat /\ i \in Nat \ {0}
  BY <1>4
<1>8. \A i \in DOMAIN t :
        /\ le[i].id = nextId + i - 1 /\ le[i].kind = "label" /\ le[i].covers = {}
        /\ le[i].parent = IF i = 1 THEN last ELSE nextId + i - 2
        /\ le[i] \in Record
  <2> SUFFICES ASSUME NEW i \in DOMAIN t
               PROVE  /\ le[i].id = nextId + i - 1 /\ le[i].kind = "label" /\ le[i].covers = {}
                      /\ le[i].parent = IF i = 1 THEN last ELSE nextId + i - 2
                      /\ le[i] \in Record
    OBVIOUS
  <2> DEFINE parent == IF i = 1 THEN last ELSE nextId + i - 2
  <2>1. nextId + i - 1 \in Nat /\ parent \in Nat /\ t[i] \in Nat
    BY <1>5, <1>7
  <2>2. le[i] = [id |-> nextId + i - 1, parent |-> parent, kind |-> "label", ref |-> t[i], covers |-> {}]
    BY <1>6 DEF Store!Entry
  <2>3. "label" \in Store!EntryKinds
    BY DEF Store!EntryKinds, Store!Metadata
  <2> HIDE DEF parent
  <2>4. le[i] \in Record
    BY <2>1, <2>2, <2>3 DEF Record
  <2> QED  BY <2>2, <2>4 DEF parent
<1>9. le \in Seq(Record) /\ DOMAIN le = DOMAIN t
  <2>1. DOMAIN le = 1 .. Len(t) /\ le = [i \in 1 .. Len(t) |-> le[i]]
    BY <1>6, <1>7
  <2>2. le \in [1 .. Len(t) -> Record]
    BY <1>7, <1>8, <2>1
  <2> QED  BY <1>7, <2>1, <2>2, SeqDef
<1> QED  BY <1>8, <1>9 DEF last, le

\* Concatenation, position by position.
LEMMA ConcatFacts ==
  ASSUME NEW s \in Seq(Record), NEW t \in Seq(Record)
  PROVE  /\ s \o t \in Seq(Record) /\ Len(s \o t) = Len(s) + Len(t)
         /\ \A i \in 1 .. Len(s) + Len(t) : (s \o t)[i] = IF i <= Len(s) THEN s[i] ELSE t[i - Len(s)]
<1> DEFINE S == Record
<1> HIDE DEF S
<1>1. s \in Seq(S) /\ t \in Seq(S)
  BY DEF S
<1>2. /\ s \o t \in Seq(S) /\ Len(s \o t) = Len(s) + Len(t)
      /\ \A i \in 1 .. Len(s) + Len(t) : (s \o t)[i] = IF i <= Len(s) THEN s[i] ELSE t[i - Len(s)]
  BY <1>1, ConcatProperties
<1> QED  BY <1>2 DEF S

\* A fork's entries are in order, whatever was wrong with the file.
LEMMA ForkFits ==
  ASSUME NEW n \in Nat \ {0}, NEW p, Bodied(p, n),
         \A i \in DOMAIN p : p[i].parent = IF i = 1 THEN 0 ELSE p[i - 1].id,
         NEW le \in Seq(Record),
         \A i \in DOMAIN le :
           /\ le[i].id = n + i - 1 /\ le[i].kind = "label" /\ le[i].covers = {}
           /\ le[i].parent = IF i = 1 THEN (IF p = <<>> THEN 0 ELSE p[Len(p)].id) ELSE n + i - 2
  PROVE  Chain(<<Store!Header(3)>> \o p \o le, n + Len(le), TRUE)
<1> DEFINE h == <<Store!Header(3)>>
           m == Len(p)
           l == Len(le)
           t == h \o p \o le
<1>1. /\ p \in Seq(Record) /\ m \in Nat /\ DOMAIN p = 1 .. m /\ Ascending(p)
      /\ l \in Nat /\ DOMAIN le = 1 .. l
      /\ \A i \in 1 .. m : /\ p[i].kind # "session" /\ p[i].id \in 1 .. (n - 1) /\ p[i].covers \subseteq 1 .. (n - 1)
  BY DEF Bodied
<1>2. h \in Seq(Record) /\ Len(h) = 1 /\ h[1] = Store!Header(3)
  BY DEF Store!Header, Store!Entry, Record
<1> HIDE DEF h
<1>3. /\ h \o p \in Seq(Record) /\ Len(h \o p) = 1 + m
      /\ \A i \in 1 .. 1 + m : (h \o p)[i] = IF i <= 1 THEN h[i] ELSE p[i - 1]
  <2>1. /\ h \o p \in Seq(Record) /\ Len(h \o p) = Len(h) + Len(p)
        /\ \A i \in 1 .. Len(h) + Len(p) : (h \o p)[i] = IF i <= Len(h) THEN h[i] ELSE p[i - Len(h)]
    BY <1>1, <1>2, ConcatFacts
  <2> QED  BY <1>2, <2>1
<1>4. /\ t \in Seq(Record) /\ Len(t) = (1 + m) + l
      /\ \A i \in 1 .. (1 + m) + l : t[i] = IF i <= 1 + m THEN (h \o p)[i] ELSE le[i - (1 + m)]
  <2> DEFINE g == h \o p
  <2>1. g \in Seq(Record) /\ Len(g) = 1 + m
    BY <1>3
  <2> HIDE DEF g
  <2>2. /\ g \o le \in Seq(Record) /\ Len(g \o le) = Len(g) + Len(le)
        /\ \A i \in 1 .. Len(g) + Len(le) : (g \o le)[i] = IF i <= Len(g) THEN g[i] ELSE le[i - Len(g)]
    BY <2>1, ConcatFacts
  <2>3. t = g \o le
    BY DEF g
  <2> HIDE DEF t, m
  <2>4. /\ t \in Seq(Record) /\ Len(t) = (1 + m) + l
        /\ \A i \in 1 .. (1 + m) + l : t[i] = IF i <= 1 + m THEN g[i] ELSE le[i - (1 + m)]
    BY <2>1, <2>2, <2>3
  <2> QED  BY <2>4 DEF g
<1> HIDE DEF t, m, l
<1>5. /\ DOMAIN t = 1 .. 1 + m + l /\ Len(t) = 1 + m + l /\ t[1] = Store!Header(3)
      /\ \A i \in 1 .. m : i + 1 \in DOMAIN t /\ t[i + 1] = p[i]
      /\ \A i \in 1 .. l : i + 1 + m \in DOMAIN t /\ t[i + 1 + m] = le[i]
      /\ \A i \in DOMAIN t : \/ i = 1 \/ (\E j \in 1 .. m : i = j + 1) \/ (\E j \in 1 .. l : i = j + 1 + m)
  <2>1. DOMAIN t = 1 .. 1 + m + l /\ Len(t) = 1 + m + l /\ 1 \in 1 .. 1 + m /\ 1 \in 1 .. (1 + m) + l
    BY <1>1, <1>4
  <2>2. t[1] = Store!Header(3)
    BY <1>1, <1>2, <1>3, <1>4, <2>1
  <2>3. \A i \in 1 .. m : i + 1 \in DOMAIN t /\ t[i + 1] = p[i]
    <3> SUFFICES ASSUME NEW i \in 1 .. m PROVE i + 1 \in DOMAIN t /\ t[i + 1] = p[i]
      OBVIOUS
    <3>1. i + 1 \in 1 .. 1 + m /\ i + 1 \in 1 .. (1 + m) + l /\ ~(i + 1 <= 1) /\ i + 1 <= 1 + m /\ (i + 1) - 1 = i
      BY <1>1
    <3>2. (h \o p)[i + 1] = p[i] /\ t[i + 1] = (h \o p)[i + 1]
      BY <1>3, <1>4, <3>1
    <3> QED  BY <2>1, <3>1, <3>2
  <2>4. \A i \in 1 .. l : i + 1 + m \in DOMAIN t /\ t[i + 1 + m] = le[i]
    <3> SUFFICES ASSUME NEW i \in 1 .. l PROVE i + 1 + m \in DOMAIN t /\ t[i + 1 + m] = le[i]
      OBVIOUS
    <3>1. i + 1 + m \in 1 .. (1 + m) + l /\ ~(i + 1 + m <= 1 + m) /\ (i + 1 + m) - (1 + m) = i
      BY <1>1
    <3>2. t[i + 1 + m] = le[i]
      BY <1>4, <3>1
    <3> QED  BY <1>1, <2>1, <3>1, <3>2
  <2>5. \A i \in DOMAIN t : \/ i = 1 \/ (\E j \in 1 .. m : i = j + 1) \/ (\E j \in 1 .. l : i = j + 1 + m)
    <3> SUFFICES ASSUME NEW i \in DOMAIN t
                 PROVE  \/ i = 1 \/ (\E j \in 1 .. m : i = j + 1) \/ (\E j \in 1 .. l : i = j + 1 + m)
      OBVIOUS
    <3>1. i \in 1 .. 1 + m + l
      BY <2>1
    <3>2. i = 1 \/ (i - 1 \in 1 .. m /\ i = (i - 1) + 1) \/ (i - 1 - m \in 1 .. l /\ i = (i - 1 - m) + 1 + m)
      BY <1>1, <3>1
    <3> QED  BY <3>2
  <2> QED  BY <2>1, <2>2, <2>3, <2>4, <2>5
<1>6. /\ t[1].id = 0 /\ (\A i \in 1 .. m : t[i + 1].id = p[i].id)
      /\ \A i \in 1 .. l : t[i + 1 + m].id = n + i - 1
  <2>1. t[1].id = 0
    BY <1>5 DEF Store!Header, Store!Entry
  <2>2. \A i \in 1 .. l : le[i].id = n + i - 1
    BY <1>1
  <2> QED  BY <1>5, <2>1, <2>2
<1>7. Ascending(t)
  <2> SUFFICES ASSUME NEW i \in DOMAIN t, NEW j \in DOMAIN t, i < j PROVE t[i].id < t[j].id
    BY DEF Ascending
  <2>1. i \in Nat /\ j \in Nat /\ 1 <= i
    BY <1>5
  <2>2. CASE \E y \in 1 .. m : j = y + 1
    <3>1. PICK y \in 1 .. m : j = y + 1
      BY <2>2
    <3>2. t[j].id = p[y].id /\ p[y].id \in 1 .. (n - 1)
      BY <1>1, <1>6, <3>1
    <3>3. CASE i = 1
      BY <1>6, <3>2, <3>3
    <3>4. CASE i # 1
      <4>1. i - 1 \in 1 .. m /\ i = (i - 1) + 1 /\ i - 1 < y
        BY <1>1, <2>1, <3>1, <3>4
      <4>2. t[i].id = p[i - 1].id
        BY <1>6, <4>1
      <4>3. p[i - 1].id < p[y].id
        BY <1>1, <4>1 DEF Ascending
      <4> QED  BY <3>2, <4>2, <4>3
    <3> QED  BY <3>3, <3>4
  <2>3. CASE \E y \in 1 .. l : j = y + 1 + m
    <3>1. PICK y \in 1 .. l : j = y + 1 + m
      BY <2>3
    <3>2. t[j].id = n + y - 1 /\ y \in Nat \ {0}
      BY <1>1, <1>6, <3>1
    <3>3. CASE i = 1
      BY <1>6, <3>2, <3>3
    <3>4. CASE \E x \in 1 .. m : i = x + 1
      <4>1. PICK x \in 1 .. m : i = x + 1
        BY <3>4
      <4>2. t[i].id = p[x].id /\ p[x].id \in 1 .. (n - 1)
        BY <1>1, <1>6, <4>1
      <4> QED  BY <3>2, <4>2
    <3>5. CASE \E x \in 1 .. l : i = x + 1 + m
      <4>1. PICK x \in 1 .. l : i = x + 1 + m
        BY <3>5
      <4>2. t[i].id = n + x - 1 /\ x < y
        BY <1>1, <1>6, <3>1, <4>1
      <4> QED  BY <1>1, <3>2, <4>2
    <3> QED  BY <1>5, <3>3, <3>4, <3>5
  <2>4. j # 1
    BY <2>1
  <2> QED  BY <1>5, <2>2, <2>3, <2>4
<1>8. ASSUME NEW i \in DOMAIN t, i # 1
      PROVE  /\ t[i].kind # "session" /\ t[i].id < n + l /\ t[i].covers \subseteq 1 .. (n + l - 1)
             /\ t[i].parent = t[i - 1].id
  <2>1. CASE \E x \in 1 .. m : i = x + 1
    <3>1. PICK x \in 1 .. m : i = x + 1
      BY <2>1
    <3>2. t[i] = p[x] /\ i - 1 = x
      BY <1>1, <1>5, <3>1
    <3>3. t[i].parent = t[i - 1].id
      <4>1. CASE x = 1
        <5>1. p[x].parent = 0 /\ t[1].id = 0
          BY <1>1, <1>6, <4>1
        <5> QED  BY <3>2, <4>1, <5>1
      <4>2. CASE x # 1
        <5>1. x - 1 \in 1 .. m /\ (x - 1) + 1 = x
          BY <1>1, <4>2
        <5>2. t[x].id = p[x - 1].id /\ p[x].parent = p[x - 1].id
          BY <1>1, <1>6, <4>2, <5>1
        <5> QED  BY <3>2, <5>2
      <4> QED  BY <4>1, <4>2
    <3>4. p[x].kind # "session" /\ p[x].id \in 1 .. (n - 1) /\ p[x].covers \subseteq 1 .. (n - 1)
      BY <1>1
    <3>5. 1 .. (n - 1) \subseteq 1 .. (n + l - 1)
      BY <1>1
    <3>6. t[i].id < n + l
      BY <1>1, <3>2, <3>4
    <3> QED  BY <3>2, <3>3, <3>4, <3>5, <3>6
  <2>2. CASE \E x \in 1 .. l : i = x + 1 + m
    <3>1. PICK x \in 1 .. l : i = x + 1 + m
      BY <2>2
    <3>2. t[i] = le[x] /\ i - 1 = x + m /\ x \in Nat \ {0}
      BY <1>1, <1>5, <3>1
    <3>3. t[i].parent = t[i - 1].id
      <4>1. CASE x = 1
        <5>1. t[i].parent = IF p = <<>> THEN 0 ELSE p[m].id
          BY <1>1, <3>2, <4>1 DEF m
        <5>2. CASE p = <<>>
          <6>1. m = 0
            BY <5>2, EmptySeq DEF m
          <6> QED  BY <1>6, <3>2, <4>1, <5>1, <5>2, <6>1
        <5>3. CASE p # <<>>
          <6>1. m \in 1 .. m
            BY <1>1, <5>3, EmptySeq DEF m
          <6>2. t[m + 1].id = p[m].id /\ i - 1 = m + 1
            BY <1>1, <1>6, <3>2, <4>1, <6>1
          <6> QED  BY <5>1, <5>3, <6>2
        <5> QED  BY <5>2, <5>3
      <4>2. CASE x # 1
        <5>1. x - 1 \in 1 .. l /\ (x - 1) + 1 + m = i - 1
          BY <1>1, <3>2, <4>2
        <5>2. t[i - 1].id = n + (x - 1) - 1
          BY <1>6, <5>1
        <5>3. t[i].parent = n + x - 2
          BY <1>1, <3>2, <4>2
        <5> QED  BY <3>2, <5>2, <5>3
      <4> QED  BY <4>1, <4>2
    <3>4. t[i].kind = "label" /\ t[i].covers = {} /\ t[i].id = n + x - 1
      <4>1. x \in DOMAIN le
        BY <1>1
      <4> QED  BY <3>2, <4>1
    <3>5. n + x - 1 < n + l
      BY <1>1
    <3> QED  BY <3>3, <3>4, <3>5
  <2> QED  BY <1>5, <1>8, <2>1, <2>2
<1>9. n + l \in Nat \ {0} /\ t # <<>>
  BY <1>1, <1>5, EmptySeq
<1>10. Chain(t, n + l, TRUE)
  <2>2. t \in Seq(Record) /\ t[1] = Store!Header(3)
    BY <1>4, <1>5
  <2>1. PICK k : k = n + l
    OBVIOUS
  <2>3. k \in Nat \ {0} /\ n + l - 1 = k - 1
    <3>1. l \in Nat /\ n \in Nat \ {0}
      BY <1>1
    <3> QED  BY <2>1, <3>1
  <2>4. \A i \in DOMAIN t : i # 1 =>
          /\ t[i].kind # "session" /\ t[i].id < k /\ t[i].covers \subseteq 1 .. (k - 1)
          /\ t[i].parent = t[i - 1].id
    <3> SUFFICES ASSUME NEW i \in DOMAIN t, i # 1
                 PROVE  /\ t[i].kind # "session" /\ t[i].id < k /\ t[i].covers \subseteq 1 .. (k - 1)
                        /\ t[i].parent = t[i - 1].id
      OBVIOUS
    <3>1. /\ t[i].kind # "session" /\ t[i].id < n + l /\ t[i].covers \subseteq 1 .. (n + l - 1)
          /\ t[i].parent = t[i - 1].id
      BY <1>8
    <3> QED  BY <2>1, <2>3, <3>1
  <2>5. Chain(t, k, TRUE)
    BY <1>7, <1>9, <2>2, <2>3, <2>4, LinkedChain
  <2> QED  BY <2>1, <2>5
<1> QED  BY <1>10 DEF t, l, h

\* A file of version 1 is loaded as it is, and migration chains its entries.
LEMMA MigratedFits ==
  ASSUME NEW c, OldFile(c), nextId \in Nat \ {0}
  PROVE  /\ Store!Load(c) = c.lines /\ c.lines # <<>> /\ c.lines[1].ref = 1
         /\ \A i \in DOMAIN c.lines : c.lines[i].parent = 0
         /\ Len(Store!Migrated(c.lines)) = Len(c.lines) /\ Len(c.lines) \in Nat \ {0}
         /\ Chain(Store!Migrated(c.lines), nextId + Len(c.lines) - 1, TRUE)
<1> DEFINE es == c.lines
           t == Store!Migrated(es)
           l == Len(es)
<1>1. /\ es \in Seq(Record) /\ es # <<>> /\ l \in Nat \ {0} /\ DOMAIN es = 1 .. l
      /\ es[1] = Store!Header(1) /\ c.tail = None /\ \A i \in 1 .. l : es[i] \in Record
  BY EmptySeq DEF OldFile
<1>2. \A i \in DOMAIN es : i # 1 =>
        es[i].kind # "session" /\ es[i].id = 0 /\ es[i].parent = 0 /\ es[i].covers = {}
  BY DEF OldFile
<1>3. es[1].kind = "session" /\ es[1].ref = 1 /\ es[1].parent = 0
  BY <1>1 DEF Store!Header, Store!Entry
<1>4. Store!Load(c) = es
  BY <1>1, <1>3, LoadWhole DEF OldFile
<1> HIDE DEF es
<1>5. t = [i \in 1 .. l |->
        IF es[i].kind = "session" THEN Store!Header(3)
        ELSE [es[i] EXCEPT !.id = nextId + i - 2, !.parent = IF i = 2 THEN 0 ELSE nextId + i - 3]]
  BY <1>1 DEF Store!Migrated, Store!IsHeader, Store!CurrentVersion
<1> HIDE DEF t, l
<1>6. \A i \in 1 .. l : i # 1 =>
        /\ t[i] \in Record /\ t[i].kind # "session" /\ t[i].id = nextId + i - 2 /\ t[i].covers = {}
        /\ t[i].parent = IF i = 2 THEN 0 ELSE nextId + i - 3
  <2> SUFFICES ASSUME NEW i \in 1 .. l, i # 1
               PROVE  /\ t[i] \in Record /\ t[i].kind # "session" /\ t[i].id = nextId + i - 2 /\ t[i].covers = {}
                      /\ t[i].parent = IF i = 2 THEN 0 ELSE nextId + i - 3
    OBVIOUS
  <2> DEFINE parent == IF i = 2 THEN 0 ELSE nextId + i - 3
  <2>1. nextId + i - 2 \in Nat /\ parent \in Nat /\ es[i] \in Record
    BY <1>1
  <2>2. es[i].kind # "session" /\ es[i].covers = {}
    BY <1>1, <1>2
  <2>3. t[i] = [es[i] EXCEPT !.id = nextId + i - 2, !.parent = parent]
    BY <1>5, <2>2
  <2> HIDE DEF parent
  <2>4. t[i] \in Record /\ t[i].kind = es[i].kind /\ t[i].covers = es[i].covers /\ t[i].id = nextId + i - 2
        /\ t[i].parent = parent
    BY <2>1, <2>3 DEF Record
  <2> QED  BY <2>2, <2>4 DEF parent
<1>7. t[1] = Store!Header(3) /\ t[1] \in Record /\ t[1].id = 0
  <2>1. 1 \in 1 .. l
    BY <1>1
  <2>2. t[1] = Store!Header(3)
    BY <1>3, <1>5, <2>1
  <2>3. Store!Header(3) \in Record /\ Store!Header(3).id = 0
    BY DEF Store!Header, Store!Entry, Record
  <2> QED  BY <2>2, <2>3
<1>8. t \in Seq(Record) /\ Len(t) = l /\ DOMAIN t = 1 .. l /\ t # <<>>
  <2>1. DOMAIN t = 1 .. l /\ t \in [1 .. l -> Record]
    <3>1. \A i \in 1 .. l : t[i] \in Record
      BY <1>6, <1>7
    <3>2. DOMAIN t = 1 .. l /\ t = [i \in 1 .. l |-> t[i]]
      BY <1>5
    <3> QED  BY <3>1, <3>2
  <2>2. t \in Seq(Record)
    BY <1>1, <2>1, SeqDef
  <2>3. Len(t) = l
    BY <1>1, <2>1, <2>2
  <2> QED  BY <1>1, <2>1, <2>2, <2>3, EmptySeq
<1>9. Ascending(t)
  <2> SUFFICES ASSUME NEW i \in DOMAIN t, NEW j \in DOMAIN t, i < j PROVE t[i].id < t[j].id
    BY DEF Ascending
  <2>1. i \in 1 .. l /\ j \in 1 .. l /\ j # 1 /\ i \in Nat /\ j \in Nat
    BY <1>1, <1>8
  <2>2. t[j].id = nextId + j - 2
    BY <1>6, <2>1
  <2>3. CASE i = 1
    BY <1>7, <2>1, <2>2, <2>3
  <2>4. CASE i # 1
    <3>1. t[i].id = nextId + i - 2
      BY <1>6, <2>1, <2>4
    <3> QED  BY <2>1, <2>2, <3>1
  <2> QED  BY <2>3, <2>4
<1>10. PICK k : k = nextId + l - 1
  OBVIOUS
<1>11. k \in Nat \ {0}
  BY <1>1, <1>10
<1>12. ASSUME NEW i \in DOMAIN t, i # 1
       PROVE  /\ t[i].kind # "session" /\ t[i].id < k /\ t[i].covers \subseteq 1 .. (k - 1)
              /\ t[i].parent = t[i - 1].id
  <2>1. i \in 1 .. l /\ i - 1 \in 1 .. l /\ i \in Nat
    BY <1>1, <1>8, <1>12
  <2>2. t[i].id < k
    BY <1>1, <1>6, <1>10, <1>12, <2>1
  <2>3. CASE i = 2
    BY <1>6, <1>7, <2>1, <2>2, <2>3
  <2>4. CASE i # 2
    <3>1. t[i - 1].id = nextId + (i - 1) - 2
      BY <1>6, <2>1, <2>4, <1>12
    <3>2. t[i].parent = nextId + i - 3
      BY <1>6, <1>12, <2>1, <2>4
    <3>3. t[i].parent = t[i - 1].id
      BY <2>1, <3>1, <3>2
    <3> QED  BY <1>6, <1>12, <2>1, <2>2, <3>3
  <2> QED  BY <2>3, <2>4
<1>13. Chain(t, k, TRUE)
  BY <1>7, <1>8, <1>9, <1>11, <1>12, LinkedChain
<1>14. \A i \in 1 .. l : es[i].parent = 0
  BY <1>1, <1>2, <1>3
<1> QED  BY <1>1, <1>3, <1>4, <1>8, <1>10, <1>13, <1>14 DEF es, t, l

\* The least of some numbers is one of them.
LEMMA MinIs ==
  ASSUME NEW I \in SUBSET Nat, I # {}
  PROVE  Store!Min(I) \in I
<1>1. \E x \in I : \A y \in I : x <= y
  BY Least
<1> QED  BY <1>1 DEF Store!Min

\* What prepareCompaction prepares: an entry's id, and ids that are used.
LEMMA PreparedIs ==
  ASSUME NEW n \in Nat, NEW path, Bodied(path, n), NEW keep,
         Store!PrepareCompaction(path, keep, None) # None
  PROVE  /\ Store!PrepareCompaction(path, keep, None).firstKept \in Nat
         /\ Store!PrepareCompaction(path, keep, None).covers \subseteq 1 .. (n - 1)
<1> DEFINE l == Len(path)
           c == Store!LastCompaction(path)
           start == Store!BoundaryStart(path)
           cut == Store!FindCutPoint(path, start, keep)
           gone == Store!Summarized(path, start, cut)
           previous == IF c = 0 THEN {} ELSE path[c].covers
           prep == Store!PrepareCompaction(path, keep, None)
<1>1. /\ l \in Nat /\ DOMAIN path = 1 .. l
      /\ \A i \in 1 .. l : path[i].id \in 1 .. (n - 1) /\ path[i].covers \subseteq 1 .. (n - 1)
  BY DEF Bodied
<1>2. /\ ~(start > l)
      /\ prep = [firstKept |-> path[cut].id, covers |-> previous \cup {path[i].id : i \in gone}]
  BY DEF Store!PrepareCompaction
<1>3. c \in 0 .. l
  <2> DEFINE I == {i \in 1 .. l : path[i].kind = "compaction"}
  <2>1. c = LastIn(I)
    BY DEF Store!LastCompaction, Store!SelectLastInSubSeq, LastIn
  <2>2. I \in SUBSET (1 .. l)
    OBVIOUS
  <2> HIDE DEF I, c
  <2> QED  BY <1>1, <2>1, <2>2, LastInIs
<1>4. \A id : Store!Find(path, id) \in Nat
  <2> TAKE id
  <2> DEFINE I == {i \in 1 .. l : path[i].id = id}
  <2>1. Store!Find(path, id) = FirstIn(I)
    BY DEF Store!Find, Store!SelectInSeq, FirstIn
  <2>2. I \in SUBSET (Nat \ {0})
    BY <1>1
  <2> HIDE DEF I
  <2> QED  BY <2>1, <2>2, FirstInIs
<1>5. start \in 1 .. l
  <2>1. start = IF c = 0 THEN 1
                ELSE IF Store!Find(path, path[c].ref) > 0 THEN Store!Find(path, path[c].ref) ELSE c + 1
    BY DEF Store!BoundaryStart
  <2> HIDE DEF start, c
  <2>2. start \in Nat /\ start >= 1
    BY <1>1, <1>3, <1>4, <2>1
  <2> QED  BY <1>1, <1>2, <2>2
<1> DEFINE budget == Store!CutByBudget(path, start, keep)
<1>6. budget \in start .. l
  <2> DEFINE Cuts == {i \in start .. l : Store!IsCutPoint(path[i])}
             Weight(i) == Store!Cardinality({j \in i .. l : Store!Visible(path[j])})
             Full == {i \in start .. l : Store!Visible(path[i]) /\ Weight(i) >= keep}
             Beyond == {x \in Cuts : Full # {} /\ x >= Store!Max(Full)}
  <2>1. budget = IF Cuts = {} THEN start ELSE IF Beyond = {} THEN Store!Min(Cuts) ELSE Store!Min(Beyond)
    BY DEF Store!CutByBudget
  <2> HIDE DEF Full, start, l, budget
  <2>2. Cuts \in SUBSET Nat /\ Beyond \in SUBSET Nat /\ Beyond \subseteq Cuts /\ Cuts \subseteq start .. l
    BY <1>1, <1>5
  <2>3. (Cuts # {} => Store!Min(Cuts) \in Cuts) /\ (Beyond # {} => Store!Min(Beyond) \in Beyond)
    <3> HIDE DEF Cuts, Beyond
    <3> QED  BY <2>2, MinIs
  <2>4. start \in start .. l
    BY <1>1, <1>5
  <2> HIDE DEF Cuts, Beyond
  <2> QED  BY <2>1, <2>2, <2>3, <2>4
<1>7. cut \in start .. l
  <2> DEFINE Near == {x \in start .. budget : \A j \in x .. (budget - 1) : ~Store!Visible(path[j])}
  <2>1. cut = IF \A i \in start .. l : ~Store!IsCutPoint(path[i]) THEN start ELSE Store!Min(Near)
    BY DEF Store!FindCutPoint
  <2> HIDE DEF cut, budget, start, l
  <2>2. Near \in SUBSET Nat /\ budget \in Near /\ Near \subseteq start .. l /\ start \in start .. l
    BY <1>1, <1>5, <1>6
  <2>3. Store!Min(Near) \in Near
    <3> HIDE DEF Near
    <3> QED  BY <2>2, MinIs
  <2> QED  BY <2>1, <2>2, <2>3
<1>8. gone \subseteq 1 .. l
  <2> DEFINE end == Store!HistoryEnd(path, start, cut)
  <2>1. gone \subseteq (start .. (end - 1)) \cup (end .. (cut - 1))
    BY DEF Store!Summarized
  <2>2. end \in start .. cut
    <3> DEFINE Begins == {i \in start .. cut : Store!IsTurnStart(path[i])}
    <3>1. end = IF Begins = {} THEN cut ELSE Store!Max(Begins)
      BY DEF Store!HistoryEnd
    <3> HIDE DEF cut, start, l, end
    <3>2. cut \in Nat /\ start \in Nat /\ cut \in start .. cut /\ Begins \in SUBSET (1 .. cut) /\ Begins \subseteq start .. cut
      BY <1>1, <1>5, <1>7
    <3>3. Begins # {} => Store!Max(Begins) \in Begins
      <4> HIDE DEF Begins
      <4> QED  BY <3>2, Greatest
    <3> QED  BY <3>1, <3>2, <3>3
  <2> HIDE DEF gone, cut, start, l, end
  <2> QED  BY <1>1, <1>5, <1>7, <2>1, <2>2
<1> HIDE DEF gone, cut, start, l, c, prep
<1>9. cut \in 1 .. l
  BY <1>1, <1>5, <1>7
<1>10. path[cut].id \in Nat
  BY <1>1, <1>9
<1>11. previous \subseteq 1 .. (n - 1)
  BY <1>1, <1>3
<1>12. {path[i].id : i \in gone} \subseteq 1 .. (n - 1)
  BY <1>1, <1>8
<1> QED  BY <1>2, <1>10, <1>11, <1>12 DEF prep

-----------------------------------------------------------------------------
(* The invariant *)

CountInv ==
  /\ bounds \in Scenarios
  /\ nextId \in 1 .. (bounds.entries + 1) /\ faults \in 0 .. bounds.faults

\* What a path may hold: nothing, a file that was there before, or a session's.
FileInv(c, n, k) == c = NoFile \/ OldFile(c) \/ NewFile(c, n, k = 0)

DiskInv == DOMAIN disk = Files /\ \A f \in Files : FileInv(disk[f], nextId, faults)

\* A session with those entries, whose file holds c; n is the next id, k writes have failed.
Sound(f, es, leaf, saved, labels, prep, c, n, k) ==
  /\ f \in Files /\ Chain(es, n, k = 0)
  /\ leaf \in Store!Ids(Store!Body(es)) \cup {0}
  /\ prep = None \/ (prep.firstKept \in Nat /\ prep.covers \subseteq 1 .. (n - 1))
  /\ saved => Saves(c, es, k)
  /\ k = 0 => saved \/ (~Store!HasAssistant(es) /\ c = NoFile)
  /\ k = 0 => labels = Store!LabelsOf(es)

MemoryInv ==
  /\ flushed \in BOOLEAN
  /\ IF Store!Open
     THEN Sound(sessionFile, fileEntries, leafId, flushed, labelsById, compacting,
                disk[sessionFile], nextId, faults)
     ELSE /\ sessionFile = NoFile /\ leafId = 0 /\ flushed = FALSE
          /\ labelsById = {} /\ compacting = None

Holds == CountInv /\ DiskInv /\ MemoryInv

SInv == Holds /\ moves \in 0 .. bounds.moves

\* The counters are numbers, and the bounds too.
LEMMA CountFacts ==
  ASSUME CountInv
  PROVE  /\ nextId \in Nat \ {0} /\ faults \in Nat
         /\ bounds.entries \in Nat /\ bounds.faults \in Nat /\ bounds.moves \in Nat
BY StoreAssumption DEF CountInv

-----------------------------------------------------------------------------
(* What a file keeps, from the invariant *)

\* In a file that loads, parents come first.
LEMMA LoadedParents ==
  ASSUME NEW n \in Nat \ {0}, NEW k \in Nat, NEW c, c # NoFile, FileInv(c, n, k), NEW i \in DOMAIN Store!Load(c),
         nextId \in Nat \ {0}
  PROVE  \/ Store!Load(c)[i].parent = 0 \/ Store!ParentAt(Store!Load(c), i) # 0
         \/ k > 0 /\ Store!Load(c)[i].parent \notin Store!Ids(Store!Load(c))
<1>1. CASE OldFile(c)
  BY <1>1, MigratedFits
<1>2. CASE NewFile(c, n, k = 0)
  <2>1. CASE Store!Load(c) = <<>>
    BY <2>1, EmptySeq
  <2>2. CASE Store!Load(c) # <<>>
    <3>1. Chain(Store!Load(c), n, k = 0)
      BY <1>2, <2>2, SavesLoaded
    <3>2. (k = 0) \in BOOLEAN /\ (k # 0 => k > 0)
      OBVIOUS
    <3> QED  BY <3>1, <3>2, ChainParents
  <2> QED  BY <2>1, <2>2
<1> QED  BY <1>1, <1>2 DEF FileInv

\* A file that saves a session is not one of version 1.
LEMMA NotOld ==
  ASSUME NEW k \in Nat, NEW n \in Nat, NEW es, Chain(es, n, k = 0), NEW c, Saves(c, es, k)
  PROVE  ~OldFile(c) /\ c # NoFile
<1>1. c # NoFile
  BY LinesAssumption DEF Saves
<1>2. SUFFICES ASSUME OldFile(c) PROVE FALSE
  BY <1>1
<1>3. c \in FileContent /\ c.lines \in Seq(Record) /\ c.lines # <<>> /\ c.lines[1] = Store!Header(1)
  BY <1>2 DEF OldFile, Saves
<1>4. 1 \in DOMAIN c.lines /\ c.lines[1] \in Record
  BY <1>3, EmptySeq
<1>5. 1 \in Real(Whole(c)) /\ Whole(c)[1] = Store!Header(1)
  <2>1. 1 \in Real(c.lines)
    BY <1>4 DEF Real
  <2> QED  BY <1>3, <1>4, <2>1, WholeFacts, KeptIs
<1>6. PICK j \in DOMAIN es : es[j] = Store!Header(1)
  BY <1>5 DEF Saves
<1>7. es[j].kind = "session" /\ es[j].ref = 1
  BY <1>6 DEF Store!Header, Store!Entry
<1>8. es[j] = Store!Header(3)
  BY <1>7 DEF Chain, Fits
<1>9. es[j].ref = 3
  BY <1>8 DEF Store!Header, Store!Entry
<1> QED  BY <1>7, <1>9

\* Without entries there are no labels.
LEMMA NoLabels == Store!LabelsOf(<<>>) = {}
<1>1. <<>> \in Seq({}) /\ DOMAIN <<>> = {}
  BY EmptySeq
<1> QED  BY <1>1, LabelsOfIs DEF Labelled

\* The invariant says what the property does.
LEMMA InvariantIsSound ==
  ASSUME SInv
  PROVE  FileIsSound
<1> USE DEF SInv, Holds
<1>1. nextId \in Nat \ {0} /\ faults \in Nat
  BY CountFacts
<1>2. ~Store!Open => fileEntries = <<>>
  BY DEF Store!Open
<1>3. Store!Open => /\ sessionFile \in Files /\ Chain(fileEntries, nextId, faults = 0)
                    /\ flushed => Saves(disk[sessionFile], fileEntries, faults)
                    /\ faults = 0 => /\ flushed \/ (~Store!HasAssistant(fileEntries) /\ disk[sessionFile] = NoFile)
                                     /\ labelsById = Store!LabelsOf(fileEntries)
                    /\ leafId \in Store!Ids(Store!Body(fileEntries)) \cup {0}
                    /\ compacting = None \/ compacting.covers \subseteq 1 .. (nextId - 1)
  BY DEF MemoryInv, Sound
<1>4. flushed => Store!Open
  BY DEF MemoryInv
<1>5. flushed \in BOOLEAN
  BY DEF MemoryInv
<1>6. Store!TypeOK
  <2>1. ASSUME NEW f \in Files PROVE disk[f] = NoFile \/ DOMAIN disk[f] = {"lines", "tail"}
    <3>1. FileInv(disk[f], nextId, faults)
      BY DEF DiskInv
    <3>2. disk[f] \in FileContent => DOMAIN disk[f] = {"lines", "tail"}
      BY DEF FileContent
    <3> QED  BY <3>1, <3>2 DEF FileInv, NewFile, OldFile
  <2>2. sessionFile \in Files \cup {NoFile} /\ (Store!Open <=> sessionFile \in Files)
    BY <1>3, LinesAssumption DEF MemoryInv
  <2>3. flushed => disk[sessionFile] # NoFile
    BY <1>1, <1>3, <1>4, NotOld
  <2>4. leafId \in Store!Ids(Store!Entries) \cup {0}
    BY <1>3 DEF MemoryInv, Store!Entries
  <2>5. compacting = None \/ (Store!Open /\ compacting.covers \subseteq 1 .. (nextId - 1))
    BY <1>3 DEF MemoryInv
  <2>6. nextId \in 1 .. (bounds.entries + 1) /\ faults \in 0 .. bounds.faults /\ moves \in 0 .. bounds.moves
    BY DEF CountInv
  <2> QED  BY <1>4, <1>5, <2>1, <2>2, <2>3, <2>4, <2>5, <2>6 DEF Store!TypeOK
<1>7. Store!FaultsCostTwo
  <2>1. SUFFICES ASSUME flushed, disk[sessionFile].lines # <<>>, disk[sessionFile].lines[1] # Bad
                 PROVE  LET stored == Store!Load(disk[sessionFile])
                        IN  /\ stored = Store!Filter(fileEntries, LAMBDA e : e \in Store!Range(stored))
                            /\ Len(fileEntries) - Len(stored) <= 2 * faults
    BY DEF Store!FaultsCostTwo
  <2>2. Chain(fileEntries, nextId, faults = 0) /\ Saves(disk[sessionFile], fileEntries, faults)
        /\ sessionFile \in Files
    BY <1>3, <1>4, <2>1
  <2>3. FileInv(disk[sessionFile], nextId, faults)
    BY <2>2 DEF DiskInv
  <2>4. NewFile(disk[sessionFile], nextId, faults = 0)
    BY <1>1, <2>2, <2>3, NotOld DEF FileInv
  <2> QED  BY <1>1, <2>1, <2>2, <2>4, Stored
<1>8. Store!ParentsPrecede
  <2>1. ASSUME NEW i \in DOMAIN fileEntries
        PROVE  \/ fileEntries[i].parent = 0 \/ Store!ParentAt(fileEntries, i) # 0
               \/ faults > 0 /\ fileEntries[i].parent \notin Store!Ids(fileEntries)
    <3>1. Store!Open
      BY <1>2, <2>1, EmptySeq
    <3>2. (faults = 0) \in BOOLEAN /\ (faults # 0 => faults > 0)
      BY <1>1
    <3> QED  BY <1>1, <1>3, <2>1, <3>1, <3>2, ChainParents
  <2>2. ASSUME NEW g \in Files, disk[g] # NoFile, NEW i \in DOMAIN Store!Load(disk[g])
        PROVE  \/ Store!Load(disk[g])[i].parent = 0 \/ Store!ParentAt(Store!Load(disk[g]), i) # 0
               \/ faults > 0 /\ Store!Load(disk[g])[i].parent \notin Store!Ids(Store!Load(disk[g]))
    BY <1>1, <2>2, LoadedParents DEF DiskInv
  <2>3. ASSUME NEW es \in {fileEntries} \cup {Store!Load(disk[f]) : f \in {g \in Files : disk[g] # NoFile}},
               NEW i \in DOMAIN es
        PROVE  \/ es[i].parent = 0 \/ Store!ParentAt(es, i) # 0
               \/ faults > 0 /\ es[i].parent \notin Store!Ids(es)
    <3>1. CASE es = fileEntries
      BY <2>1, <2>3, <3>1
    <3>2. CASE \E g \in Files : disk[g] # NoFile /\ es = Store!Load(disk[g])
      BY <2>2, <2>3, <3>2
    <3> QED  BY <2>3, <3>1, <3>2
  <2> QED  BY <2>3 DEF Store!ParentsPrecede
<1>9. Store!SavedOnceAnswered
  BY <1>3 DEF Store!SavedOnceAnswered
<1>10. Store!LabelsAgree
  BY <1>2, <1>3, NoLabels DEF Store!LabelsAgree, MemoryInv
<1> QED  BY <1>6, <1>7, <1>8, <1>9, <1>10 DEF FileIsSound, Store!FileIsSound

-----------------------------------------------------------------------------
(* The steps that every operation is made of *)

\* What an operation leaves of the files that it does not write.
LEMMA DiskKept ==
  ASSUME DiskInv, CountInv, nextId' \in Nat, nextId <= nextId', faults' \in Nat, faults <= faults',
         DOMAIN disk' = Files,
         \A g \in Files : disk'[g] = disk[g] \/ NewFile(disk'[g], nextId', faults' = 0)
  PROVE  DiskInv'
<1>1. nextId \in Nat /\ faults \in Nat
  BY CountFacts
<1>2. ASSUME NEW g \in Files PROVE FileInv(disk'[g], nextId', faults')
  <2>1. FileInv(disk[g], nextId, faults)
    BY DEF DiskInv
  <2>2. CASE NewFile(disk[g], nextId, faults = 0) /\ disk'[g] = disk[g]
    <3> DEFINE sound == faults = 0
               later == faults' = 0
    <3>1. sound \in BOOLEAN /\ later \in BOOLEAN /\ (later => sound)
      BY <1>1
    <3>2. NewFile(disk[g], nextId, sound)
      BY <2>2
    <3> HIDE DEF sound, later
    <3>3. NewFile(disk[g], nextId', later)
      BY <1>1, <3>1, <3>2, StillFits
    <3> QED  BY <2>2, <3>3 DEF FileInv, later
  <2> QED  BY <2>1, <2>2 DEF FileInv
<1> QED  BY <1>2 DEF DiskInv

\* Every line of a new file is written, or the write fails.
LEMMA AllWritten ==
  ASSUME CountInv, DOMAIN disk = Files, NEW f \in Files, NEW ok \in BOOLEAN, NEW n \in Nat,
         NEW es, Chain(es, n, faults = 0), Store!WriteAll(f, es, ok)
  PROVE  /\ faults' \in Nat /\ faults <= faults' /\ faults' \in 0 .. bounds.faults
         /\ DOMAIN disk' = Files /\ (\A g \in Files : g # f => disk'[g] = disk[g])
         /\ NewFile(disk'[f], n, faults' = 0)
         /\ ok => faults' = faults /\ Saves(disk'[f], es, faults')
         /\ ~ok => faults' = faults + 1
<1>1. faults \in Nat /\ bounds.faults \in Nat /\ faults \in 0 .. bounds.faults
  BY CountFacts DEF CountInv
<1> DEFINE sound == faults = 0
<1>2. sound \in BOOLEAN /\ Chain(es, n, sound)
  OBVIOUS
<1>3. CASE ok
  <2>1. disk' = [disk EXCEPT ![f] = Store!Content(es, None)] /\ faults' = faults
    BY <1>3 DEF Store!WriteAll, Store!Write
  <2>2. NewFile(Store!Content(es, None), n, faults' = 0)
    BY <1>2, <2>1, ContentFits
  <2>3. Saves(Store!Content(es, None), es, faults)
    <3> HIDE DEF sound
    <3> QED  BY <1>1, <1>2, SavesContent
  <2> QED  BY <1>1, <1>3, <2>1, <2>2, <2>3
<1>4. CASE ~ok
  <2>1. faults < bounds.faults /\ faults' = faults + 1
    BY <1>4 DEF Store!WriteAll, Store!Fails
  <2>2. PICK c \in Store!Partial(es) : disk' = [disk EXCEPT ![f] = c]
    BY <1>4 DEF Store!WriteAll, Store!Write
  <2>3. NewFile(c, n, FALSE)
    <3> HIDE DEF sound
    <3> QED  BY <1>2, PartialFits
  <2>4. (faults' = 0) = FALSE
    BY <1>1, <2>1
  <2>5. NewFile(c, n, faults' = 0)
    BY <2>3, <2>4
  <2>6. disk'[f] = c /\ DOMAIN disk' = Files /\ \A g \in Files : g # f => disk'[g] = disk[g]
    BY <2>2
  <2>7. faults' \in Nat /\ faults <= faults' /\ faults' \in 0 .. bounds.faults
    BY <1>1, <2>1
  <2> QED  BY <1>4, <2>1, <2>5, <2>6, <2>7
<1> QED  BY <1>3, <1>4

\* A session is opened with those entries.
LEMMA Opened ==
  ASSUME NEW f \in Files, NEW es, NEW saved \in BOOLEAN, Store!Becomes(f, es, saved),
         nextId' \in Nat, Chain(es, nextId', faults' = 0),
         saved => Saves(disk'[f], es, faults'),
         ~saved => ~Store!HasAssistant(es) /\ disk'[f] = NoFile
  PROVE  MemoryInv'
<1>1. /\ sessionFile' = f /\ fileEntries' = es /\ leafId' = es[Len(es)].id
      /\ labelsById' = Store!LabelsOf(es) /\ flushed' = saved /\ compacting' = None
  BY DEF Store!Becomes
<1>2. es # <<>>
  BY DEF Chain
<1>3. es[Len(es)].id \in Store!Ids(Store!Body(es)) \cup {0}
  <2>1. Len(es) \in DOMAIN es /\ Store!Ids(es) = Store!Ids(Store!Body(es)) \cup {0}
    BY BodyIs
  <2> QED  BY <2>1 DEF Store!Ids
<1>4. Sound(f, es, leafId', saved, labelsById', None, disk'[f], nextId', faults')
  BY <1>1, <1>3 DEF Sound
<1>5. Store!Open'
  BY <1>1, <1>2 DEF Store!Open
<1> QED  BY <1>1, <1>4, <1>5 DEF MemoryInv

\* Ids that were used stay used.
LEMMA Earlier ==
  ASSUME NEW n \in Nat, NEW m \in Nat, n <= m
  PROVE  1 .. (n - 1) \subseteq 1 .. (m - 1)
OBVIOUS

\* The session stays as it is, and so does its file if it has one.
LEMMA Stays ==
  ASSUME Holds, UNCHANGED Store!session, nextId' \in Nat, nextId <= nextId', faults' \in Nat, faults <= faults',
         Store!Open /\ (flushed \/ faults' = 0) => disk'[sessionFile] = disk[sessionFile],
         faults' = faults \/ faults' = faults + 1
  PROVE  MemoryInv'
<1>1. /\ sessionFile' = sessionFile /\ fileEntries' = fileEntries /\ leafId' = leafId
      /\ labelsById' = labelsById /\ flushed' = flushed /\ compacting' = compacting
  BY DEF Store!session
<1>2. nextId \in Nat /\ faults \in Nat /\ MemoryInv
  BY CountFacts DEF Holds
<1>3. (Store!Open)' = Store!Open
  BY <1>1 DEF Store!Open
<1>4. CASE ~Store!Open
  BY <1>1, <1>2, <1>3, <1>4 DEF MemoryInv
<1>5. CASE Store!Open
  <2>1. Sound(sessionFile, fileEntries, leafId, flushed, labelsById, compacting,
              disk[sessionFile], nextId, faults)
    BY <1>2, <1>5 DEF MemoryInv
  <2>2. Chain(fileEntries, nextId', faults' = 0)
    <3> DEFINE sound == faults = 0
               later == faults' = 0
    <3>1. sound \in BOOLEAN /\ later \in BOOLEAN /\ (later => sound)
      BY <1>2
    <3>2. Chain(fileEntries, nextId, sound)
      BY <2>1 DEF Sound
    <3> HIDE DEF sound, later
    <3>3. Chain(fileEntries, nextId', later)
      BY <1>2, <3>1, <3>2, StillFits
    <3> QED  BY <3>3 DEF later
  <2>3. flushed => Saves(disk'[sessionFile], fileEntries, faults')
    <3>1. SUFFICES ASSUME flushed PROVE Saves(disk'[sessionFile], fileEntries, faults')
      OBVIOUS
    <3>2. disk'[sessionFile] = disk[sessionFile] /\ Saves(disk[sessionFile], fileEntries, faults)
      BY <1>5, <2>1, <3>1 DEF Sound
    <3>3. CASE faults' = faults
      BY <3>2, <3>3
    <3>4. CASE faults' = faults + 1
      <4> DEFINE c == disk[sessionFile]
      <4>1. /\ c \in FileContent /\ Whole(c) # <<None>>
            /\ \A i \in Real(Whole(c)) : \E j \in DOMAIN fileEntries : fileEntries[j] = Whole(c)[i]
            /\ Len(fileEntries) + Left(c.tail) <= Kept(Whole(c)) + 2 * faults
        BY <3>2 DEF Saves
      <4>2. Kept(Whole(c)) \in Nat /\ Left(c.tail) \in Nat /\ Len(fileEntries) \in Nat
        <5>1. fileEntries \in Seq(Record)
          BY <2>1 DEF Sound, Chain
        <5> QED  BY <4>1, <5>1, KeptIs DEF Left
      <4> HIDE DEF c
      <4>3. Len(fileEntries) + Left(c.tail) <= Kept(Whole(c)) + 2 * faults'
        BY <1>2, <3>4, <4>1, <4>2
      <4>4. faults' # 0
        BY <1>2, <3>4
      <4>5. Saves(c, fileEntries, faults')
        BY <4>1, <4>3, <4>4 DEF Saves
      <4> QED  BY <3>2, <4>5 DEF c
    <3> QED  BY <3>3, <3>4
  <2>4. faults' = 0 => faults = 0 /\ disk'[sessionFile] = disk[sessionFile]
    BY <1>2, <1>5
  <2>5. compacting = None \/ (compacting.firstKept \in Nat /\ compacting.covers \subseteq 1 .. (nextId' - 1))
    <3>1. 1 .. (nextId - 1) \subseteq 1 .. (nextId' - 1)
      BY <1>2, Earlier
    <3> QED  BY <2>1, <3>1 DEF Sound
  <2>6. Sound(sessionFile, fileEntries, leafId, flushed, labelsById, compacting,
              disk'[sessionFile], nextId', faults')
    BY <2>1, <2>2, <2>3, <2>4, <2>5 DEF Sound
  <2>7. flushed \in BOOLEAN
    BY <1>2 DEF MemoryInv
  <2> QED  BY <1>1, <1>3, <1>5, <2>6, <2>7 DEF MemoryInv
<1> QED  BY <1>4, <1>5

\* An entry that a caller makes on an entry of the session.
LEMMA NewFollows ==
  ASSUME Holds, Store!Open, NEW parent \in Store!Ids(Store!Entries) \cup {0},
         NEW kind \in Store!EntryKinds, NEW ref \in Nat, NEW covers \in SUBSET (1 .. (nextId - 1))
  PROVE  /\ Follows(Store!NewEntry(parent, kind, ref, covers), fileEntries, nextId)
         /\ Store!NewEntry(parent, kind, ref, covers).kind = kind
         /\ Store!NewEntry(parent, kind, ref, covers).ref = ref
<1> DEFINE e == Store!NewEntry(parent, kind, ref, covers)
<1>1. nextId \in Nat \ {0} /\ Chain(fileEntries, nextId, faults = 0)
  BY CountFacts DEF Holds, MemoryInv, Sound
<1>2. e = [id |-> nextId, parent |-> parent, kind |-> kind, ref |-> ref, covers |-> covers]
  BY DEF Store!NewEntry, Store!Entry
<1>3. Bodied(Store!Body(fileEntries), nextId)
      /\ Store!Ids(fileEntries) = Store!Ids(Store!Body(fileEntries)) \cup {0}
  BY <1>1, BodyIs
<1>4. parent \in Nat /\ parent < nextId /\ parent \in Store!Ids(fileEntries)
  <2>1. CASE parent = 0
    BY <1>1, <1>3, <2>1
  <2>2. CASE parent \in Store!Ids(Store!Body(fileEntries))
    <3>1. PICK i \in DOMAIN Store!Body(fileEntries) : parent = Store!Body(fileEntries)[i].id
      BY <2>2 DEF Store!Ids
    <3>2. parent \in 1 .. (nextId - 1)
      BY <1>3, <3>1 DEF Bodied
    <3> QED  BY <1>1, <1>3, <2>2, <3>2
  <2> QED  BY <2>1, <2>2 DEF Store!Entries
<1>5. kind # "session"
  BY DEF Store!EntryKinds, Store!Metadata
<1>6. e \in Record
  <2>1. covers \in SUBSET Nat
    BY <1>1
  <2> QED  BY <1>1, <1>2, <1>4, <2>1 DEF Record
<1> QED  BY <1>2, <1>4, <1>5, <1>6 DEF Follows

\* _appendEntry keeps the invariant; where no write has failed it does not throw.
LEMMA Appended ==
  ASSUME Holds, UNCHANGED bounds, NEW e, Follows(e, fileEntries, nextId), NEW ok \in BOOLEAN,
         Store!AppendEntry(e, ok),
         compacting' = compacting \/ compacting' = None,
         faults' = 0 /\ ok => labelsById' = Store!LabelsOf(Append(fileEntries, e))
  PROVE  Holds'
<1> DEFINE n == nextId
           f == sessionFile
           es == fileEntries
           t == Append(fileEntries, e)
           c == disk[sessionFile]
<1>1. /\ Store!Open /\ nextId <= bounds.entries /\ fileEntries' = t /\ leafId' = e.id
      /\ nextId' = n + 1 /\ Store!Persist(t, ok) /\ sessionFile' = f
  BY DEF Store!AppendEntry
<1>2. /\ n \in Nat \ {0} /\ faults \in Nat /\ bounds.entries \in Nat /\ bounds.faults \in Nat
      /\ faults \in 0 .. bounds.faults /\ CountInv /\ DiskInv
  BY CountFacts DEF Holds, CountInv
<1>3. /\ Sound(f, es, leafId, flushed, labelsById, compacting, c, n, faults)
      /\ flushed \in BOOLEAN
  BY <1>1 DEF Holds, MemoryInv
<1>4. f \in Files /\ Chain(es, n, faults = 0) /\ es \in Seq(Record) /\ e \in Record /\ e.id = n
  BY <1>3 DEF Sound, Chain, Follows
<1>5. t[Len(t)] = e /\ Len(t) \in DOMAIN t
  <2>1. Len(t) = Len(es) + 1 /\ t[Len(es) + 1] = e /\ Len(es) + 1 \in DOMAIN t
    BY <1>4, AppendFacts
  <2> QED  BY <2>1
<1>6. Chain(t, n + 1, faults = 0)
  <2> DEFINE sound == faults = 0
  <2>1. sound \in BOOLEAN /\ Chain(es, n, sound)
    BY <1>4
  <2> HIDE DEF sound
  <2>2. Chain(t, n + 1, sound)
    BY <1>2, <2>1, ChainGrows
  <2> QED  BY <2>2 DEF sound
<1>7. FileInv(c, n, faults) /\ DOMAIN disk = Files
  BY <1>2, <1>4 DEF DiskInv
<1>8. /\ faults' \in Nat /\ faults <= faults' /\ faults' \in 0 .. bounds.faults
      /\ DOMAIN disk' = Files /\ (\A g \in Files : g # f => disk'[g] = disk[g])
      /\ disk'[f] = disk[f] \/ NewFile(disk'[f], n + 1, faults' = 0)
      /\ flushed' \in BOOLEAN /\ (flushed' => Saves(disk'[f], t, faults'))
      /\ faults' = 0 => ok /\ (flushed' \/ (~Store!HasAssistant(t) /\ disk'[f] = NoFile))
  <2>1. CASE flushed /\ Store!AppendLine(f, e, ok) /\ UNCHANGED flushed
    <3>1. Saves(c, es, faults) /\ NewFile(c, n, faults = 0)
      <4>1. Saves(c, es, faults)
        BY <1>3, <2>1 DEF Sound
      <4>2. ~OldFile(c) /\ c # NoFile
        BY <1>2, <1>4, <4>1, NotOld
      <4> QED  BY <1>7, <4>1, <4>2 DEF FileInv
    <3>2. CASE ok
      <4>0. PICK d : d = Store!Content(Append(c.lines, IF c.tail = None THEN e ELSE Bad), None)
        OBVIOUS
      <4>1. disk' = [disk EXCEPT ![f] = d] /\ faults' = faults
        BY <2>1, <3>2, <4>0 DEF Store!AppendLine, Store!Write
      <4>2. NewFile(d, n + 1, faults = 0) /\ Saves(d, t, faults)
        <5>1. n \in Nat /\ Follows(e, es, n)
          BY <1>2
        <5>2. Saves(c, es, faults) /\ NewFile(c, n, faults = 0) /\ Chain(es, n, faults = 0)
          BY <1>4, <3>1
        <5> QED  BY <1>2, <4>0, <5>1, <5>2, LineAdded
      <4>3. disk'[f] = d /\ DOMAIN disk' = Files /\ \A g \in Files : g # f => disk'[g] = disk[g]
        BY <1>4, <1>7, <4>1
      <4> QED  BY <1>2, <1>3, <2>1, <3>2, <4>1, <4>2, <4>3
    <3>3. CASE ~ok
      <4>1. PICK tail \in {c.tail, Cut} \cup (IF c.tail = None THEN {e} ELSE {}) :
              disk' = [disk EXCEPT ![f] = Store!Content(c.lines, tail)]
        BY <2>1, <3>3 DEF Store!AppendLine, Store!Write
      <4>2. faults < bounds.faults /\ faults' = faults + 1
        BY <2>1, <3>3 DEF Store!AppendLine, Store!Fails
      <4>0. PICK d : d = Store!Content(c.lines, tail)
        OBVIOUS
      <4>3. NewFile(d, n + 1, faults + 1 = 0) /\ Saves(d, t, faults + 1)
        <5>1. n \in Nat /\ Follows(e, es, n)
          BY <1>2
        <5>2. Saves(c, es, faults) /\ NewFile(c, n, faults = 0) /\ Chain(es, n, faults = 0)
          BY <1>4, <3>1
        <5> QED  BY <1>2, <4>0, <5>1, <5>2, LineFails
      <4>4. disk'[f] = d /\ DOMAIN disk' = Files /\ \A g \in Files : g # f => disk'[g] = disk[g]
        BY <1>4, <1>7, <4>0, <4>1
      <4>5. faults' \in Nat /\ faults <= faults' /\ faults' \in 0 .. bounds.faults /\ faults' # 0
        BY <1>2, <4>2
      <4>6. NewFile(disk'[f], n + 1, faults' = 0) /\ Saves(disk'[f], t, faults')
        BY <4>2, <4>3, <4>4
      <4> QED  BY <1>3, <2>1, <4>4, <4>5, <4>6
    <3> QED  BY <3>2, <3>3
  <2>2. CASE ~flushed /\ ~Store!HasAssistant(t) /\ ok /\ UNCHANGED <<disk, faults, flushed>>
    <3>1. faults = 0 => c = NoFile
      BY <1>3, <2>2 DEF Sound
    <3>2. disk' = disk /\ faults' = faults /\ flushed' = FALSE /\ ok
      BY <1>3, <2>2
    <3>3. faults' \in Nat /\ faults <= faults' /\ faults' \in 0 .. bounds.faults
      BY <1>2, <3>2
    <3>4. faults' = 0 => ok /\ ~Store!HasAssistant(t) /\ disk'[f] = NoFile
      BY <2>2, <3>1, <3>2
    <3>5. DOMAIN disk' = Files /\ disk'[f] = disk[f] /\ \A g \in Files : g # f => disk'[g] = disk[g]
      BY <1>7, <3>2
    <3> HIDE DEF t, c, n, f
    <3> QED  BY <3>2, <3>3, <3>4, <3>5
  <2>3. CASE ~flushed /\ Store!HasAssistant(t) /\ Store!Flush(t, ok) /\ flushed' = ok
    <3>1. CASE disk[f] # NoFile
      <4>1. ~ok /\ UNCHANGED <<disk, faults>>
        BY <2>3, <3>1 DEF Store!Flush
      <4>2. faults # 0
        BY <1>3, <2>3, <3>1 DEF Sound
      <4> QED  BY <1>2, <1>7, <2>3, <4>1, <4>2
    <3>2. CASE disk[f] = NoFile
      <4>1. Store!WriteAll(f, t, ok)
        BY <2>3, <3>2 DEF Store!Flush
      <4>2. n + 1 \in Nat
        BY <1>2
      <4>3. /\ faults' \in Nat /\ faults <= faults' /\ faults' \in 0 .. bounds.faults
            /\ DOMAIN disk' = Files /\ (\A g \in Files : g # f => disk'[g] = disk[g])
            /\ NewFile(disk'[f], n + 1, faults' = 0)
            /\ ok => faults' = faults /\ Saves(disk'[f], t, faults')
            /\ ~ok => faults' = faults + 1
        <5> HIDE DEF n, t, f
        <5> QED  BY <1>2, <1>4, <1>6, <1>7, <4>1, <4>2, AllWritten
      <4>4. ~ok => faults' # 0
        BY <1>2, <4>3
      <4> QED  BY <2>3, <4>3, <4>4
    <3> QED  BY <3>1, <3>2
  <2> QED  BY <1>1, <1>5, <2>1, <2>2, <2>3 DEF Store!Persist
<1> HIDE DEF t, c
<1>9. CountInv'
  BY <1>1, <1>2, <1>8 DEF CountInv
<1>10. DiskInv'
  <2>1. nextId' \in Nat /\ nextId <= nextId'
    BY <1>1, <1>2
  <2>2. \A g \in Files : disk'[g] = disk[g] \/ NewFile(disk'[g], nextId', faults' = 0)
    BY <1>1, <1>8
  <2> QED  BY <1>2, <1>8, <2>1, <2>2, DiskKept
<1>11. Sound(f, t, e.id, flushed', labelsById', compacting', disk'[f], n + 1, faults')
  <2>1. Chain(t, n + 1, faults' = 0)
    <3>1. faults' = 0 => faults = 0
      BY <1>2, <1>8
    <3> QED  BY <1>6, <3>1 DEF Chain
  <2>2. e.id \in Store!Ids(Store!Body(t)) \cup {0}
    <3>1. Store!Ids(t) = Store!Ids(Store!Body(t)) \cup {0}
      <4>1. n + 1 \in Nat
        BY <1>2
      <4> QED  BY <1>6, <4>1, BodyIs
    <3>2. e.id \in Store!Ids(t)
      BY <1>5 DEF Store!Ids
    <3> QED  BY <3>1, <3>2
  <2>3. compacting' = None \/ (compacting'.firstKept \in Nat /\ compacting'.covers \subseteq 1 .. ((n + 1) - 1))
    <3>1. 1 .. (n - 1) \subseteq 1 .. ((n + 1) - 1)
      BY <1>2, Earlier
    <3>2. compacting = None \/ (compacting.firstKept \in Nat /\ compacting.covers \subseteq 1 .. (n - 1))
      BY <1>3 DEF Sound
    <3> QED  BY <3>1, <3>2
  <2>4. faults' = 0 => labelsById' = Store!LabelsOf(t)
    BY <1>8 DEF t
  <2>5. (flushed' => Saves(disk'[f], t, faults'))
        /\ (faults' = 0 => flushed' \/ (~Store!HasAssistant(t) /\ disk'[f] = NoFile))
    BY <1>8
  <2>6. f \in Files
    BY <1>4
  <2> QED  BY <2>1, <2>2, <2>3, <2>4, <2>5, <2>6 DEF Sound
<1>12. Store!Open'
  BY <1>1, <1>4, AppendFacts DEF Store!Open, t
<1>13. MemoryInv'
  BY <1>1, <1>8, <1>11, <1>12 DEF MemoryInv
<1> QED  BY <1>9, <1>10, <1>13 DEF Holds

\* What does not touch the files, the ids or the faults leaves what is known of them.
LEMMA FilesStay ==
  ASSUME Holds, UNCHANGED <<bounds, disk, nextId, faults>>
  PROVE  CountInv' /\ DiskInv'
BY DEF Holds, CountInv, DiskInv

\* A chain that is known to be closed is one whether or not writes have failed.
LEMMA Closes ==
  ASSUME NEW es, NEW n, Chain(es, n, TRUE), NEW sound
  PROVE  Chain(es, n, sound)
BY DEF Chain

\* A new session has a header and nothing else.
LEMMA HeaderChain ==
  ASSUME NEW n \in Nat \ {0}
  PROVE  /\ Chain(<<Store!Header(3)>>, n, TRUE)
         /\ ~Store!HasAssistant(<<Store!Header(3)>>)
<1> DEFINE h == Store!Header(3)
           es == <<h>>
<1>1. h \in Record /\ h.kind = "session"
  BY DEF Store!Header, Store!Entry, Record
<1> HIDE DEF h
<1>2. es \in Seq(Record) /\ es # <<>> /\ es[1] = h /\ DOMAIN es = {1} /\ \A i \in DOMAIN es : i = 1
  BY <1>1
<1>3. Ascending(es)
  BY <1>2 DEF Ascending
<1>4. Chain(es, n, TRUE)
  <2> HIDE DEF es
  <2> QED  BY <1>2, <1>3, LinkedChain DEF h
<1>5. ~Store!HasAssistant(es)
  BY <1>1, <1>2 DEF Store!HasAssistant, Store!Range
<1> QED  BY <1>4, <1>5 DEF h

\* newSession.
LEMMA NewSessionKeeps ==
  ASSUME Holds, UNCHANGED bounds, NEW f \in Files, Store!NewSession(f)
  PROVE  Holds'
<1>1. nextId \in Nat \ {0} /\ UNCHANGED <<disk, nextId, faults>> /\ disk[f] = NoFile
  BY CountFacts DEF Holds, Store!NewSession
<1>2. PICK es : es = <<Store!Header(3)>>
  OBVIOUS
<1>3. Store!Becomes(f, es, FALSE)
  BY <1>2 DEF Store!NewSession, Store!CurrentVersion
<1>4. Chain(es, nextId', faults' = 0) /\ ~Store!HasAssistant(es)
  BY <1>1, <1>2, HeaderChain, Closes
<1>5. disk'[f] = NoFile /\ nextId' \in Nat
  BY <1>1
<1>6. MemoryInv'
  BY <1>3, <1>4, <1>5, Opened
<1> QED  BY <1>1, <1>6, FilesStay DEF Holds

\* Opening a file of the current version.
LEMMA OpenFileKeeps ==
  ASSUME Holds, UNCHANGED bounds, NEW f \in Files, Store!OpenFile(f)
  PROVE  Holds'
<1>1. nextId \in Nat \ {0} /\ faults \in Nat /\ UNCHANGED <<disk, nextId, faults>> /\ disk[f] # NoFile
  BY CountFacts DEF Holds, Store!OpenFile
<1>2. PICK es : es = Store!Load(disk[f])
  OBVIOUS
<1>3. Store!Becomes(f, es, TRUE) /\ es # <<>> /\ es[1].ref = 3
  BY <1>2 DEF Store!OpenFile, Store!CurrentVersion
<1>4. ~OldFile(disk[f])
  <2>1. SUFFICES ASSUME OldFile(disk[f]) PROVE FALSE
    OBVIOUS
  <2>2. es[1].ref = 1
    BY <1>1, <1>2, <2>1, MigratedFits
  <2> QED  BY <1>3, <2>2
<1>5. NewFile(disk[f], nextId, faults = 0)
  BY <1>1, <1>4 DEF Holds, DiskInv, FileInv
<1>6. Saves(disk[f], es, faults) /\ Chain(es, nextId, faults = 0)
  BY <1>1, <1>2, <1>3, <1>5, SavesLoaded
<1>7. Saves(disk'[f], es, faults') /\ Chain(es, nextId', faults' = 0) /\ nextId' \in Nat
  BY <1>1, <1>6
<1>8. MemoryInv'
  BY <1>3, <1>7, Opened
<1> QED  BY <1>1, <1>8, FilesStay DEF Holds

\* Every entry of a session is written to a file: it is the session's, or the call throws and
\* the session that is open stays.
LEMMA Rewritten ==
  ASSUME Holds, UNCHANGED bounds, NEW f \in Files, NEW es, NEW ok \in BOOLEAN,
         nextId' \in nextId .. (bounds.entries + 1),
         Chain(es, nextId', TRUE) \/ Chain(es, nextId', faults = 0),
         Store!WriteAll(f, es, ok),
         IF ok THEN Store!Becomes(f, es, TRUE) ELSE UNCHANGED Store!session,
         ~ok => f # sessionFile \/ ~flushed
  PROVE  Holds'
<1>1. /\ nextId \in Nat \ {0} /\ faults \in Nat /\ bounds.entries \in Nat
      /\ CountInv /\ DiskInv /\ DOMAIN disk = Files
  BY CountFacts DEF Holds, DiskInv
<1>2. nextId' \in Nat /\ nextId <= nextId' /\ nextId' \in 1 .. (bounds.entries + 1)
  BY <1>1
<1>3. Chain(es, nextId', faults = 0)
  BY Closes
<1>4. /\ faults' \in Nat /\ faults <= faults' /\ faults' \in 0 .. bounds.faults
      /\ DOMAIN disk' = Files /\ (\A g \in Files : g # f => disk'[g] = disk[g])
      /\ NewFile(disk'[f], nextId', faults' = 0)
      /\ ok => faults' = faults /\ Saves(disk'[f], es, faults')
      /\ ~ok => faults' = faults + 1
  BY <1>1, <1>2, <1>3, AllWritten
<1>5. CountInv'
  BY <1>1, <1>2, <1>4 DEF CountInv
<1>6. DiskInv'
  <2>1. \A g \in Files : disk'[g] = disk[g] \/ NewFile(disk'[g], nextId', faults' = 0)
    BY <1>4
  <2> QED  BY <1>1, <1>2, <1>4, <2>1, DiskKept
<1>7. MemoryInv'
  <2>1. CASE ok
    <3>1. Store!Becomes(f, es, TRUE) /\ faults' = faults /\ Saves(disk'[f], es, faults')
      BY <1>4, <2>1
    <3>2. Chain(es, nextId', faults' = 0)
      BY <1>3, <3>1
    <3> QED  BY <1>2, <3>1, <3>2, Opened
  <2>2. CASE ~ok
    <3>1. UNCHANGED Store!session /\ faults' = faults + 1 /\ faults' # 0 /\ (f # sessionFile \/ ~flushed)
      BY <1>1, <1>4, <2>2
    <3>2. Store!Open => sessionFile \in Files
      BY DEF Holds, MemoryInv, Sound
    <3>3. Store!Open /\ (flushed \/ faults' = 0) => disk'[sessionFile] = disk[sessionFile]
      BY <1>4, <3>1, <3>2
    <3> QED  BY <1>2, <1>4, <3>1, <3>3, Stays
  <2> QED  BY <2>1, <2>2
<1> QED  BY <1>5, <1>6, <1>7 DEF Holds

\* A session that is saved has a file, which is none of version 1 and is not empty.
LEMMA FlushedFile ==
  ASSUME Holds, flushed
  PROVE  /\ Store!Open /\ sessionFile \in Files /\ disk[sessionFile] # NoFile
         /\ ~OldFile(disk[sessionFile]) /\ Whole(disk[sessionFile]) # <<None>>
<1>1. nextId \in Nat /\ faults \in Nat
  BY CountFacts DEF Holds
<1>2. Store!Open /\ sessionFile \in Files /\ Chain(fileEntries, nextId, faults = 0)
      /\ Saves(disk[sessionFile], fileEntries, faults)
  BY DEF Holds, MemoryInv, Sound
<1>3. Whole(disk[sessionFile]) # <<None>>
  BY <1>2 DEF Saves
<1> QED  BY <1>1, <1>2, <1>3, NotOld

\* Opening a file of version 1, which is migrated and rewritten.
LEMMA OpenLegacyKeeps ==
  ASSUME Holds, UNCHANGED bounds, NEW f \in Files, Store!OpenLegacy(f)
  PROVE  Holds'
<1>1. nextId \in Nat \ {0} /\ faults \in Nat /\ bounds.entries \in Nat
  BY CountFacts DEF Holds
<1> DEFINE c == disk[f]
<1>2. c # NoFile /\ Store!Load(c) # <<>> /\ Store!Load(c)[1].ref < 3
  BY DEF Store!OpenLegacy, Store!CurrentVersion
<1>3. OldFile(c)
  <2>1. SUFFICES ASSUME NewFile(c, nextId, faults = 0) PROVE FALSE
    BY <1>2 DEF Holds, DiskInv, FileInv
  <2>2. Chain(Store!Load(c), nextId, faults = 0)
    BY <1>1, <1>2, <2>1, SavesLoaded
  <2>3. Store!Load(c)[1] = Store!Header(3)
    BY <1>1, <2>2, BodyIs
  <2>4. Store!Load(c)[1].ref = 3
    BY <2>3 DEF Store!Header, Store!Entry
  <2> QED  BY <1>2, <2>4
<1>4. PICK es : es = Store!Migrated(Store!Load(c))
  OBVIOUS
<1>5. PICK ok \in BOOLEAN : /\ Store!WriteAll(f, es, ok)
                            /\ IF ok THEN Store!Becomes(f, es, TRUE) ELSE UNCHANGED Store!session
  BY <1>4 DEF Store!OpenLegacy
<1>6. nextId' = nextId + Len(es) - 1 /\ nextId' <= bounds.entries + 1
  BY <1>4 DEF Store!OpenLegacy
<1>7. Len(es) \in Nat \ {0} /\ Chain(es, nextId + Len(es) - 1, TRUE)
  BY <1>1, <1>3, <1>4, MigratedFits
<1>8. nextId' \in nextId .. (bounds.entries + 1) /\ Chain(es, nextId', TRUE)
  <2>1. Chain(es, nextId', TRUE)
    BY <1>6, <1>7
  <2>2. nextId' \in nextId .. (bounds.entries + 1)
    BY <1>1, <1>6, <1>7
  <2> QED  BY <2>1, <2>2
<1>9. f # sessionFile \/ ~flushed
  BY <1>3, FlushedFile
<1> QED  BY <1>5, <1>8, <1>9, Rewritten

\* Opening an empty file, which gets a header.
LEMMA OpenEmptyKeeps ==
  ASSUME Holds, UNCHANGED bounds, NEW f \in Files, Store!OpenEmpty(f)
  PROVE  Holds'
<1>1. nextId \in Nat \ {0} /\ nextId \in 1 .. (bounds.entries + 1) /\ bounds.entries \in Nat
  BY CountFacts DEF Holds, CountInv
<1>2. PICK es : es = <<Store!Header(3)>>
  OBVIOUS
<1>3. PICK ok \in BOOLEAN : /\ Store!WriteAll(f, es, ok)
                            /\ IF ok THEN Store!Becomes(f, es, TRUE) ELSE UNCHANGED Store!session
  BY <1>2 DEF Store!OpenEmpty, Store!CurrentVersion
<1>4. nextId' = nextId /\ disk[f] = Store!Content(<<>>, None)
  BY DEF Store!OpenEmpty
<1>5. nextId' \in nextId .. (bounds.entries + 1) /\ Chain(es, nextId', TRUE)
  <2>1. Chain(es, nextId, TRUE)
    BY <1>1, <1>2, HeaderChain
  <2>2. nextId' \in nextId .. (bounds.entries + 1)
    BY <1>1, <1>4
  <2> QED  BY <1>4, <2>1, <2>2
<1>6. Whole(disk[f]) = <<None>>
  BY <1>4 DEF Whole, Store!Content
<1>7. f # sessionFile \/ ~flushed
  BY <1>6, FlushedFile
<1> QED  BY <1>3, <1>5, <1>7, Rewritten

\* forkFrom: a copy of a file is opened.
LEMMA ForkFromKeeps ==
  ASSUME Holds, UNCHANGED bounds, NEW g \in Files, NEW f \in Files, Store!ForkFrom(g, f)
  PROVE  Holds'
<1>1. /\ nextId \in Nat \ {0} /\ faults \in Nat
      /\ nextId \in 1 .. (bounds.entries + 1) /\ bounds.entries \in Nat
  BY CountFacts DEF Holds, CountInv
<1>2. PICK es : es = Store!Load(disk[g])
  OBVIOUS
<1>3. PICK ok \in BOOLEAN : /\ Store!WriteAll(f, es, ok)
                            /\ IF ok THEN Store!Becomes(f, es, TRUE) ELSE UNCHANGED Store!session
  BY <1>2 DEF Store!ForkFrom
<1>4. /\ nextId' = nextId /\ disk[f] = NoFile /\ disk[g] # NoFile
      /\ es # <<>> /\ es[1].ref = 3
  BY <1>2 DEF Store!ForkFrom, Store!CurrentVersion
<1>5. ~OldFile(disk[g])
  <2>1. SUFFICES ASSUME OldFile(disk[g]) PROVE FALSE
    OBVIOUS
  <2>2. es[1].ref = 1
    BY <1>1, <1>2, <2>1, MigratedFits
  <2> QED  BY <1>4, <2>2
<1>6. NewFile(disk[g], nextId, faults = 0)
  BY <1>4, <1>5 DEF Holds, DiskInv, FileInv
<1>7. Chain(es, nextId', faults = 0)
  BY <1>1, <1>2, <1>4, <1>6, SavesLoaded
<1>8. nextId' \in nextId .. (bounds.entries + 1)
  BY <1>1, <1>4
<1>9. f # sessionFile \/ ~flushed
  BY <1>4, FlushedFile
<1> QED  BY <1>3, <1>7, <1>8, <1>9, Rewritten

\* fork: a branch of the session goes to a new file.
LEMMA ForkKeeps ==
  ASSUME Holds, UNCHANGED bounds, NEW leaf \in Store!Ids(Store!Entries), NEW f \in Files, Store!Fork(leaf, f)
  PROVE  Holds'
<1>1. /\ nextId \in Nat \ {0} /\ faults \in Nat /\ bounds.entries \in Nat
      /\ CountInv /\ DiskInv
  BY CountFacts DEF Holds
<1>2. /\ Store!Open /\ disk[sessionFile] # NoFile /\ disk[f] = NoFile /\ f # sessionFile
  BY DEF Store!Fork
<1> DEFINE loaded == Store!Load(disk[sessionFile])
           path == Store!UnlabelledPath(Store!Body(loaded), leaf)
           labels == Store!LabelEntries(path, Store!LabelsOf(loaded))
<1>3. PICK es : es = <<Store!Header(3)>> \o path \o labels
  OBVIOUS
<1>4. /\ leaf \in Store!Ids(loaded)
      /\ nextId' = nextId + Len(labels) /\ nextId' <= bounds.entries + 1
      /\ IF ~Store!Written(es)
         THEN Store!Becomes(f, es, FALSE) /\ UNCHANGED <<disk, faults>>
         ELSE \E ok \in BOOLEAN :
                /\ Store!WriteAll(f, es, ok)
                /\ IF ok THEN Store!Becomes(f, es, TRUE) ELSE UNCHANGED Store!session
  BY <1>3 DEF Store!Fork, Store!CurrentVersion
<1>5. leaf # 0
  <2>1. Chain(fileEntries, nextId, faults = 0)
    BY <1>2 DEF Holds, MemoryInv, Sound
  <2>2. Bodied(Store!Entries, nextId)
    BY <1>1, <2>1, BodyIs DEF Store!Entries
  <2> QED  BY <1>1, <2>2 DEF Bodied, Store!Ids
<1>6. ~OldFile(disk[sessionFile])
  <2>1. SUFFICES ASSUME OldFile(disk[sessionFile]) PROVE FALSE
    OBVIOUS
  <2>2. loaded = disk[sessionFile].lines
    BY <1>1, <2>1, MigratedFits
  <2>3. \A i \in DOMAIN loaded : loaded[i].id = 0
    BY <2>1, <2>2 DEF OldFile, Store!Header, Store!Entry
  <2> QED  BY <1>4, <1>5, <2>3 DEF Store!Ids
<1>7. sessionFile \in Files /\ NewFile(disk[sessionFile], nextId, faults = 0)
  <2>1. sessionFile \in Files
    BY <1>2 DEF Holds, MemoryInv, Sound
  <2> QED  BY <1>1, <1>2, <1>6, <2>1 DEF DiskInv, FileInv
<1>8. loaded # <<>>
  BY <1>4, EmptySeq DEF Store!Ids
<1>9. Chain(loaded, nextId, faults = 0)
  BY <1>1, <1>7, <1>8, SavesLoaded
<1>10. Bodied(Store!Body(loaded), nextId) /\ leaf \in Store!Ids(Store!Body(loaded))
  BY <1>1, <1>4, <1>5, <1>9, BodyIs
<1> HIDE DEF loaded
<1>11. /\ Bodied(path, nextId)
       /\ \A i \in DOMAIN path : path[i].parent = IF i = 1 THEN 0 ELSE path[i - 1].id
  BY <1>1, <1>10, UnlabelledIs
<1> HIDE DEF path
<1>12. /\ labels \in Seq(Record)
       /\ \A i \in DOMAIN labels :
            /\ labels[i].id = nextId + i - 1 /\ labels[i].kind = "label" /\ labels[i].covers = {}
            /\ labels[i].parent = IF i = 1 THEN (IF path = <<>> THEN 0 ELSE path[Len(path)].id)
                                  ELSE nextId + i - 2
  BY <1>1, <1>11, LabelEntriesIs
<1> HIDE DEF labels
<1>13. Chain(es, nextId', TRUE)
  BY <1>1, <1>3, <1>4, <1>11, <1>12, ForkFits
<1>14. Len(labels) \in Nat
  BY <1>12
<1>15. nextId' \in nextId .. (bounds.entries + 1) /\ nextId' \in Nat /\ nextId <= nextId'
       /\ nextId' \in 1 .. (bounds.entries + 1)
  BY <1>1, <1>4, <1>14
<1>16. CASE ~Store!Written(es)
  <2>1. Store!Becomes(f, es, FALSE) /\ disk' = disk /\ faults' = faults
    BY <1>4, <1>16
  <2>2. Chain(es, nextId', faults' = 0) /\ ~Store!HasAssistant(es) /\ disk'[f] = NoFile
    BY <1>2, <1>13, <1>16, <2>1, Closes DEF Store!Written
  <2>3. MemoryInv'
    BY <1>15, <2>1, <2>2, Opened
  <2>4. CountInv'
    BY <1>1, <1>15, <2>1 DEF CountInv
  <2>5. DiskInv'
    <3>1. DOMAIN disk' = Files /\ faults' \in Nat /\ faults <= faults' /\ \A g \in Files : disk'[g] = disk[g]
      BY <1>1, <2>1 DEF DiskInv
    <3> QED  BY <1>1, <1>15, <3>1, DiskKept
  <2> QED  BY <2>3, <2>4, <2>5 DEF Holds
<1>17. CASE Store!Written(es)
  <2>1. PICK ok \in BOOLEAN : /\ Store!WriteAll(f, es, ok)
                              /\ IF ok THEN Store!Becomes(f, es, TRUE) ELSE UNCHANGED Store!session
    BY <1>4, <1>17
  <2> QED  BY <1>2, <1>13, <1>15, <2>1, Rewritten
<1> QED  BY <1>16, <1>17

\* What follows from an open session for its tree.
LEMMA OpenFacts ==
  ASSUME Holds, Store!Open
  PROVE  /\ nextId \in Nat \ {0} /\ Chain(fileEntries, nextId, faults = 0)
         /\ Bodied(Store!Entries, nextId)
         /\ leafId \in Store!Ids(Store!Entries) \cup {0}
         /\ compacting = None \/ (compacting.firstKept \in Nat /\ compacting.covers \subseteq 1 .. (nextId - 1))
         /\ faults = 0 => labelsById = Store!LabelsOf(fileEntries)
<1>1. nextId \in Nat \ {0}
  BY CountFacts DEF Holds
<1>2. Chain(fileEntries, nextId, faults = 0)
      /\ leafId \in Store!Ids(Store!Body(fileEntries)) \cup {0}
  BY DEF Holds, MemoryInv, Sound
<1>3. compacting = None \/ (compacting.firstKept \in Nat /\ compacting.covers \subseteq 1 .. (nextId - 1))
  BY DEF Holds, MemoryInv, Sound
<1>4. faults = 0 => labelsById = Store!LabelsOf(fileEntries)
  BY DEF Holds, MemoryInv, Sound
<1> QED  BY <1>1, <1>2, <1>3, <1>4, BodyIs DEF Store!Entries

\* Writing an entry never takes a failed write back.
LEMMA FaultsGrow ==
  ASSUME Holds, NEW e, NEW ok \in BOOLEAN, Store!AppendEntry(e, ok)
  PROVE  faults' = 0 => faults = 0
<1>1. faults \in Nat
  BY CountFacts DEF Holds
<1>2. Store!Persist(Append(fileEntries, e), ok)
  BY DEF Store!AppendEntry
<1>3. faults' = faults \/ faults' = faults + 1
  BY <1>2 DEF Store!Persist, Store!AppendLine, Store!Flush, Store!WriteAll, Store!Fails
<1> QED  BY <1>1, <1>3

\* An entry that is no label leaves the labels as they are.
LEMMA UnlabellingAppended ==
  ASSUME Holds, UNCHANGED <<bounds, labelsById>>, NEW parent \in Store!Ids(Store!Entries) \cup {0},
         NEW kind \in Store!EntryKinds \ {"label", "unlabel"}, NEW ref \in Nat,
         NEW covers \in SUBSET (1 .. (nextId - 1)), NEW ok \in BOOLEAN,
         Store!AppendEntry(Store!NewEntry(parent, kind, ref, covers), ok),
         compacting' = compacting \/ compacting' = None
  PROVE  Holds'
<1>1. Store!Open
  BY DEF Store!AppendEntry
<1>2. PICK e : e = Store!NewEntry(parent, kind, ref, covers)
  OBVIOUS
<1>3. Follows(e, fileEntries, nextId) /\ e.kind = kind
  BY <1>1, <1>2, NewFollows
<1>4. Store!AppendEntry(e, ok)
  BY <1>2
<1>5. fileEntries \in Seq(Record) /\ e \in Record
  BY <1>1, <1>3, OpenFacts DEF Chain, Follows
<1>6. Store!LabelsOf(Append(fileEntries, e)) = Store!LabelsOf(fileEntries)
  BY <1>3, <1>5, LabelsGrow
<1>7. faults' = 0 /\ ok => labelsById' = Store!LabelsOf(Append(fileEntries, e))
  BY <1>1, <1>4, <1>6, FaultsGrow, OpenFacts
<1> QED  BY <1>3, <1>4, <1>7, Appended

\* Entries that are neither labels nor summaries.
LEMMA AppendMessageKeeps ==
  ASSUME Holds, UNCHANGED bounds, NEW kind, Store!AppendMessage(kind)
  PROVE  Holds'
<1>1. kind \in bounds.kinds \ {"label", "unlabel"} /\ UNCHANGED <<labelsById, compacting>>
  BY DEF Store!AppendMessage
<1>2. PICK ok \in BOOLEAN : Store!AppendEntry(Store!NewEntry(leafId, kind, 0, {}), ok)
  BY DEF Store!AppendMessage
<1>3. kind \in Store!EntryKinds \ {"label", "unlabel"}
  BY <1>1, StoreAssumption DEF Holds, CountInv, Kinds
<1>4. leafId \in Store!Ids(Store!Entries) \cup {0}
  BY <1>2, OpenFacts DEF Store!AppendEntry
<1> QED  BY <1>1, <1>2, <1>3, <1>4, UnlabellingAppended

\* branchWithSummary.
LEMMA BranchWithSummaryKeeps ==
  ASSUME Holds, UNCHANGED bounds, NEW target, Store!BranchWithSummary(target)
  PROVE  Holds'
<1>1. target \in Store!Ids(Store!Entries) \cup {0} /\ UNCHANGED <<labelsById, compacting>>
  BY DEF Store!BranchWithSummary
<1>2. PICK ok \in BOOLEAN : Store!AppendEntry(Store!NewEntry(target, "branchSummary", 0, {}), ok)
  BY DEF Store!BranchWithSummary
<1>3. "branchSummary" \in Store!EntryKinds \ {"label", "unlabel"}
  BY DEF Store!EntryKinds
<1> QED  BY <1>1, <1>2, <1>3, UnlabellingAppended

\* The compaction is written where the leaf is by then.
LEMMA CompactionEndKeeps ==
  ASSUME Holds, UNCHANGED bounds, Store!CompactionEnd
  PROVE  Holds'
<1>1. compacting # None /\ compacting' = None /\ UNCHANGED labelsById
  BY DEF Store!CompactionEnd
<1>2. PICK ok \in BOOLEAN :
        Store!AppendEntry(Store!NewEntry(leafId, "compaction", compacting.firstKept, compacting.covers), ok)
  BY DEF Store!CompactionEnd
<1>3. "compaction" \in Store!EntryKinds \ {"label", "unlabel"}
  BY DEF Store!EntryKinds
<1>4. Store!Open
  BY <1>2 DEF Store!AppendEntry
<1>5. leafId \in Store!Ids(Store!Entries) \cup {0} /\ compacting.firstKept \in Nat
      /\ compacting.covers \in SUBSET (1 .. (nextId - 1))
  BY <1>1, <1>4, OpenFacts
<1> QED  BY <1>1, <1>2, <1>3, <1>5, UnlabellingAppended

\* Labels are put on and taken off: the index follows the file.
LEMMA AppendLabelKeeps ==
  ASSUME Holds, UNCHANGED bounds, NEW kind, NEW target, Store!AppendLabel(kind, target)
  PROVE  Holds'
<1>1. /\ kind \in {"label", "unlabel"} /\ target \in Store!Ids(Store!Entries)
      /\ UNCHANGED compacting
  BY DEF Store!AppendLabel
<1>2. PICK ok \in BOOLEAN :
        /\ Store!AppendEntry(Store!NewEntry(leafId, kind, target, {}), ok)
        /\ labelsById' = IF ~ok THEN labelsById
                         ELSE IF kind = "label" THEN labelsById \cup {target}
                         ELSE labelsById \ {target}
  BY DEF Store!AppendLabel
<1>3. Store!Open
  BY <1>2 DEF Store!AppendEntry
<1>4. kind \in Store!EntryKinds
  BY <1>1 DEF Store!EntryKinds, Store!Metadata
<1>5. leafId \in Store!Ids(Store!Entries) \cup {0} /\ target \in Nat
  BY <1>1, <1>3, OpenFacts DEF Bodied, Store!Ids
<1>6. PICK e : e = Store!NewEntry(leafId, kind, target, {})
  OBVIOUS
<1>7. Follows(e, fileEntries, nextId) /\ e.kind = kind /\ e.ref = target
  BY <1>3, <1>4, <1>5, <1>6, NewFollows
<1>8. Store!AppendEntry(e, ok)
  BY <1>2, <1>6
<1>9. fileEntries \in Seq(Record) /\ e \in Record
  BY <1>3, <1>7, OpenFacts DEF Chain, Follows
<1>10. Store!LabelsOf(Append(fileEntries, e)) =
         IF kind = "label" THEN Store!LabelsOf(fileEntries) \cup {target}
         ELSE Store!LabelsOf(fileEntries) \ {target}
  BY <1>1, <1>7, <1>9, LabelsGrow
<1>11. faults' = 0 /\ ok => labelsById' = Store!LabelsOf(Append(fileEntries, e))
  BY <1>2, <1>3, <1>8, <1>10, FaultsGrow, OpenFacts
<1> QED  BY <1>1, <1>7, <1>8, <1>11, Appended

\* A step that changes the leaf or the compaction of an open session, and nothing else of it.
LEMMA MemoryMoves ==
  ASSUME Holds, Store!Open,
         UNCHANGED <<bounds, disk, sessionFile, fileEntries, flushed, labelsById, nextId, faults>>,
         leafId' \in Store!Ids(Store!Entries) \cup {0},
         compacting' = None \/ (compacting'.firstKept \in Nat /\ compacting'.covers \subseteq 1 .. (nextId - 1))
  PROVE  Holds'
<1>1. Sound(sessionFile, fileEntries, leafId, flushed, labelsById, compacting,
            disk[sessionFile], nextId, faults)
      /\ flushed \in BOOLEAN
  BY DEF Holds, MemoryInv
<1>2. Sound(sessionFile, fileEntries, leafId', flushed, labelsById, compacting',
            disk[sessionFile], nextId, faults)
  BY <1>1 DEF Sound, Store!Entries
<1>3. Store!Open'
  BY DEF Store!Open
<1>4. MemoryInv'
  BY <1>1, <1>2, <1>3 DEF MemoryInv
<1> QED  BY <1>4, FilesStay DEF Holds

\* branch and resetLeaf.
LEMMA BranchKeeps ==
  ASSUME Holds, UNCHANGED bounds, NEW target, Store!Branch(target),
         target \in Store!Ids(Store!Entries) \cup {0}
  PROVE  Holds'
<1>1. /\ Store!Open /\ leafId' = target
      /\ UNCHANGED <<disk, sessionFile, fileEntries, flushed, labelsById, compacting, nextId, faults>>
  BY DEF Store!Branch
<1>2. compacting' = None \/ (compacting'.firstKept \in Nat /\ compacting'.covers \subseteq 1 .. (nextId - 1))
  BY <1>1, OpenFacts
<1> QED  BY <1>1, <1>2, MemoryMoves

\* A compaction is prepared from the active path.
LEMMA CompactionStartKeeps ==
  ASSUME Holds, UNCHANGED bounds, Store!CompactionStart
  PROVE  Holds'
<1>1. /\ Store!Open
      /\ compacting' = Store!PrepareCompaction(Store!PathTo(Store!Entries, leafId), bounds.keepRecent, None)
      /\ compacting' # None
      /\ UNCHANGED <<disk, sessionFile, fileEntries, leafId, flushed, labelsById, nextId, faults>>
  BY DEF Store!CompactionStart
<1>2. /\ nextId \in Nat /\ Bodied(Store!Entries, nextId) /\ leafId \in Store!Ids(Store!Entries) \cup {0}
  BY <1>1, OpenFacts
<1>3. Bodied(Store!PathTo(Store!Entries, leafId), nextId)
  BY <1>2, PathBodied
<1>4. compacting'.firstKept \in Nat /\ compacting'.covers \subseteq 1 .. (nextId - 1)
  BY <1>1, <1>2, <1>3, PreparedIs
<1> QED  BY <1>1, <1>2, <1>4, MemoryMoves

\* A compaction is given up.
LEMMA CompactionFailsKeeps ==
  ASSUME Holds, UNCHANGED bounds, Store!CompactionFails
  PROVE  Holds'
<1>1. /\ compacting # None /\ compacting' = None
      /\ UNCHANGED <<disk, sessionFile, fileEntries, leafId, flushed, labelsById, nextId, faults>>
  BY DEF Store!CompactionFails
<1>2. Store!Open
  BY <1>1 DEF Holds, MemoryInv
<1>3. leafId' \in Store!Ids(Store!Entries) \cup {0}
  BY <1>1, <1>2, OpenFacts
<1> QED  BY <1>1, <1>2, <1>3, MemoryMoves

\* The process ends, at any moment.
LEMMA CrashKeeps ==
  ASSUME Holds, UNCHANGED bounds, Store!Crash
  PROVE  Holds'
<1>1. /\ sessionFile' = NoFile /\ fileEntries' = <<>> /\ leafId' = 0
      /\ flushed' = FALSE /\ labelsById' = {} /\ compacting' = None
      /\ UNCHANGED <<disk, nextId, faults>>
  BY DEF Store!Crash
<1>2. MemoryInv'
  BY <1>1 DEF MemoryInv, Store!Open
<1> QED  BY <1>1, <1>2, FilesStay DEF Holds

-----------------------------------------------------------------------------
(* The invariant holds *)

\* A file of an old session holds its header and its entries, which have no ids yet.
LEMMA LegacyIsOld ==
  ASSUME bounds \in Scenarios
  PROVE  OldFile(Store!LegacyFile)
<1> DEFINE old == bounds.legacy
           n == Len(old)
           body == [i \in DOMAIN old |-> Store!Entry(0, 0, old[i], 0, {})]
           h == Store!Header(1)
           es == <<h>> \o body
<1>1. old \in Seq(Kinds) /\ n \in Nat /\ DOMAIN old = 1 .. n
  BY StoreAssumption
<1> HIDE DEF old, n
<1>2. \A i \in 1 .. n :
        /\ body[i] \in Record /\ body[i].kind # "session" /\ body[i].id = 0 /\ body[i].parent = 0
        /\ body[i].covers = {}
  <2> SUFFICES ASSUME NEW i \in 1 .. n
               PROVE  /\ body[i] \in Record /\ body[i].kind # "session" /\ body[i].id = 0
                      /\ body[i].parent = 0 /\ body[i].covers = {}
    OBVIOUS
  <2>1. old[i] \in Store!EntryKinds /\ old[i] # "session"
    <3>1. old[i] \in Kinds
      BY <1>1
    <3> QED  BY <3>1 DEF Kinds, Store!EntryKinds, Store!Metadata
  <2>2. body[i] = [id |-> 0, parent |-> 0, kind |-> old[i], ref |-> 0, covers |-> {}]
    BY <1>1 DEF Store!Entry
  <2> QED  BY <2>1, <2>2 DEF Record
<1>3. body \in Seq(Record) /\ Len(body) = n
  <2>1. body \in [1 .. n -> Record]
    <3>1. DOMAIN body = 1 .. n /\ body = [i \in 1 .. n |-> body[i]]
      BY <1>1
    <3> QED  BY <1>2, <3>1
  <2>2. body \in Seq(Record)
    BY <1>1, <2>1, SeqDef
  <2> QED  BY <1>1, <2>1, <2>2
<1>4. h \in Record
  BY DEF Store!Header, Store!Entry, Record
<1> HIDE DEF body, h
<1>5. <<h>> \in Seq(Record) /\ Len(<<h>>) = 1 /\ <<h>>[1] = h
  BY <1>4
<1>6. /\ es \in Seq(Record) /\ Len(es) = 1 + n
      /\ \A i \in 1 .. 1 + n : es[i] = IF i <= 1 THEN <<h>>[i] ELSE body[i - 1]
  BY <1>3, <1>5, ConcatFacts
<1> HIDE DEF es
<1>7. es # <<>> /\ es[1] = h /\ DOMAIN es = 1 .. 1 + n
  BY <1>1, <1>5, <1>6, EmptySeq
<1>8. \A i \in DOMAIN es : i # 1 =>
        es[i].kind # "session" /\ es[i].id = 0 /\ es[i].parent = 0 /\ es[i].covers = {}
  <2> SUFFICES ASSUME NEW i \in DOMAIN es, i # 1
               PROVE  es[i].kind # "session" /\ es[i].id = 0 /\ es[i].parent = 0 /\ es[i].covers = {}
    OBVIOUS
  <2>1. i \in 1 .. 1 + n /\ ~(i <= 1) /\ i - 1 \in 1 .. n
    BY <1>1, <1>7
  <2>2. es[i] = body[i - 1]
    BY <1>6, <2>1
  <2> QED  BY <1>2, <2>1, <2>2
<1>9. Store!LegacyFile = [lines |-> es, tail |-> None]
  BY DEF Store!LegacyFile, Store!Content, es, body, h, old
<1>10. Store!LegacyFile \in FileContent
  BY <1>6, <1>9 DEF FileContent
<1>11. Store!LegacyFile.tail = None /\ Store!LegacyFile.lines = es
  BY <1>9
<1> QED  BY <1>6, <1>7, <1>8, <1>10, <1>11 DEF OldFile, h

\* The files there are at first: none, or one of version 1.
LEMMA InitHolds == Store!Init => SInv
<1> SUFFICES ASSUME Store!Init PROVE SInv
  OBVIOUS
<1>1. /\ bounds \in Scenarios
      /\ sessionFile = NoFile /\ fileEntries = <<>> /\ leafId = 0
      /\ flushed = FALSE /\ labelsById = {} /\ compacting = None
      /\ nextId = 1 /\ faults = 0 /\ moves = 0
  BY DEF Store!Init
<1>2. bounds.entries \in Nat /\ bounds.faults \in Nat /\ bounds.moves \in Nat
  BY <1>1, StoreAssumption
<1>3. CountInv /\ moves \in 0 .. bounds.moves
  BY <1>1, <1>2 DEF CountInv
<1>4. MemoryInv
  BY <1>1 DEF MemoryInv, Store!Open
<1>5. DiskInv
  <2>1. OldFile(Store!LegacyFile)
    BY <1>1, LegacyIsOld
  <2>2. DOMAIN disk = Files /\ \A f \in Files : disk[f] = NoFile \/ disk[f] = Store!LegacyFile
    BY DEF Store!Init
  <2> QED  BY <2>1, <2>2 DEF DiskInv, FileInv
<1> QED  BY <1>3, <1>4, <1>5 DEF SInv, Holds

\* Nothing happens.
LEMMA StutterHolds ==
  ASSUME SInv, UNCHANGED Store!vars
  PROVE  SInv'
<1>1. UNCHANGED <<disk, sessionFile, fileEntries, leafId, flushed, labelsById, compacting, nextId, faults, moves, bounds>>
  BY DEF Store!vars
<1>2. MemoryInv'
  BY <1>1 DEF SInv, Holds, MemoryInv, Store!Open
<1> QED  BY <1>1, <1>2, FilesStay DEF SInv, Holds

\* Every operation of the session manager keeps the invariant.
LEMMA NextHolds ==
  ASSUME SInv, Store!Next
  PROVE  SInv'
<1>1. Holds /\ UNCHANGED bounds /\ bounds.moves \in Nat /\ moves \in 0 .. bounds.moves
  BY CountFacts DEF SInv, Holds, Store!Next
<1>2. CASE Store!Move /\ \E f \in Files :
             \/ Store!NewSession(f) \/ Store!OpenFile(f) \/ Store!OpenLegacy(f) \/ Store!OpenEmpty(f)
             \/ \E g \in Files : Store!ForkFrom(g, f)
             \/ \E leaf \in Store!Ids(Store!Entries) : Store!Fork(leaf, f)
  <2>1. PICK f \in Files :
             \/ Store!NewSession(f) \/ Store!OpenFile(f) \/ Store!OpenLegacy(f) \/ Store!OpenEmpty(f)
             \/ \E g \in Files : Store!ForkFrom(g, f)
             \/ \E leaf \in Store!Ids(Store!Entries) : Store!Fork(leaf, f)
    BY <1>2
  <2>2. Holds'
    <3>1. CASE Store!NewSession(f)
      BY <1>1, <3>1, NewSessionKeeps
    <3>2. CASE Store!OpenFile(f)
      BY <1>1, <3>2, OpenFileKeeps
    <3>3. CASE Store!OpenLegacy(f)
      BY <1>1, <3>3, OpenLegacyKeeps
    <3>4. CASE Store!OpenEmpty(f)
      BY <1>1, <3>4, OpenEmptyKeeps
    <3>5. CASE \E g \in Files : Store!ForkFrom(g, f)
      BY <1>1, <3>5, ForkFromKeeps
    <3>6. CASE \E leaf \in Store!Ids(Store!Entries) : Store!Fork(leaf, f)
      BY <1>1, <3>6, ForkKeeps
    <3> QED  BY <2>1, <3>1, <3>2, <3>3, <3>4, <3>5, <3>6
  <2>3. moves' \in 0 .. bounds.moves
    BY <1>1, <1>2 DEF Store!Move
  <2> QED  BY <1>1, <2>2, <2>3 DEF SInv
<1>3. CASE /\ Store!Move /\ (bounds.steady => compacting = None)
           /\ \E target \in Store!Ids(Store!Entries) \cup {0} :
             Store!Branch(target) \/ Store!BranchWithSummary(target)
  <2>1. PICK target \in Store!Ids(Store!Entries) \cup {0} :
             Store!Branch(target) \/ Store!BranchWithSummary(target)
    BY <1>3
  <2>2. Holds'
    BY <1>1, <2>1, BranchKeeps, BranchWithSummaryKeeps
  <2>3. moves' \in 0 .. bounds.moves
    BY <1>1, <1>3 DEF Store!Move
  <2> QED  BY <1>1, <2>2, <2>3 DEF SInv
<1>4. CASE /\ UNCHANGED moves
           /\ \/ \E kind \in bounds.kinds :
                   \/ Store!AppendMessage(kind)
                   \/ \E target \in Store!Ids(Store!Entries) : Store!AppendLabel(kind, target)
              \/ Store!CompactionStart \/ Store!CompactionEnd \/ Store!CompactionFails
              \/ Store!Crash
  <2>1. Holds'
    BY <1>1, <1>4, AppendMessageKeeps, AppendLabelKeeps, CompactionStartKeeps, CompactionEndKeeps,
       CompactionFailsKeeps, CrashKeeps
  <2> QED  BY <1>1, <1>4, <2>1 DEF SInv
<1> QED  BY <1>2, <1>3, <1>4 DEF Store!Next

\* What memory, a file and the counters say of a session at every moment.
THEOREM SessionFileInvariant == Store!Spec => []SInv
<1>1. SInv /\ [Store!Next]_Store!vars => SInv'
  BY StutterHolds, NextHolds
<1> QED  BY <1>1, InitHolds, PTL DEF Store!Spec

\* For any sessions, files, bounds and failing writes: a file keeps all but two entries for each
\* failed write, parents come first, an answered session is saved and its labels are what a reload gives.
THEOREM FileStaysSound == Store!Spec => []FileIsSound
<1>1. SInv => FileIsSound
  BY InvariantIsSound
<1> QED  BY <1>1, SessionFileInvariant, PTL
=============================================================================
