-------------------------- MODULE AuthStorageProofs --------------------------
(***************************************************************************)
(* Theorems of AuthStorage for any number of processes, calls, providers,  *)
(* tokens and faults: the types, that the lock of auth.json serves, that   *)
(* no token is refreshed twice or lost, and that writes are merged.        *)
(***************************************************************************)
EXTENDS AuthStorage, TLAPS

USE DEF Token, Credential, Content, Nothing, At

-----------------------------------------------------------------------------
(* The types need two facts about tokens: a login brings one that was issued, and a
   refresh presents one that has expired. *)
GivenIssued == \A c \in Calls : given[c] \in 1..issued \cup {None, ApiKey}
PresentsLapsed == \A c \in Calls : pc[c] = "refreshing" => Presented(c) \in lapsed
TypeInv == TypeOK /\ GivenIssued /\ PresentsLapsed

\* What is read from a file that is not torn are credentials.
LEMMA ParsedType ==
  ASSUME TypeOK, file # Torn
  PROVE  Parsed \in Content
BY AuthStorageAssumption DEF TypeOK, Parsed

\* A call that was overtaken forgets what it was given, and no other call does.
LEMMA ForgetsType ==
  ASSUME TypeInv, NEW over \in SUBSET Calls, Forgets(over)
  PROVE  /\ given' \in [Calls -> Credential] /\ next' \in [Calls -> Content]
         /\ lost' \subseteq Calls /\ noticed' \subseteq lost'
         /\ \A c \in Calls : given'[c] \in {given[c], None}
         /\ \A c \in Calls \ over : next'[c] = next[c]
BY AuthStorageAssumption DEF TypeInv, TypeOK, Forgets

\* A call that has the lock, whatever it finds.
LEMMA EntersType ==
  ASSUME TypeInv, NEW c \in Calls, Enters(c), UNCHANGED <<file, calls, tokens>>
  PROVE  /\ holder' \in Calls /\ data' \in [Processes -> Content]
         /\ pc' \in [Calls -> {"idle", "lock", "refreshing", "write", "writing",
                               "release", "done", "dead"}]
         /\ next' \in [Calls -> Content] /\ wanted' \subseteq 1..issued
         /\ PresentsLapsed'
<1>1. Owner[c] \in Processes /\ About[c] \in Providers
  BY AuthStorageAssumption
<1>2. CASE file = Torn
  BY <1>2, AuthStorageAssumption DEF TypeInv, TypeOK, Enters, PresentsLapsed, Presented, calls, tokens
<1>3. CASE file # Torn /\ op[c] = "refresh" /\ ~MustRefresh(c)
  <2>1. Parsed \in Content
    BY <1>3, ParsedType DEF TypeInv
  <2>2. /\ data' = [data EXCEPT ![Owner[c]] = Parsed] /\ pc' = [pc EXCEPT ![c] = "release"]
        /\ holder' = c /\ UNCHANGED <<next, wanted>>
    BY <1>3 DEF Enters
  <2>3. data' \in [Processes -> Content]
    BY <1>1, <2>1, <2>2 DEF TypeInv, TypeOK
  <2>4. QED
    BY <2>2, <2>3 DEF TypeInv, TypeOK, PresentsLapsed, Presented, calls, tokens
<1>4. CASE file # Torn /\ op[c] = "refresh" /\ MustRefresh(c)
  <2>1. Parsed \in Content /\ Current(c) \in lapsed
    BY <1>4, ParsedType DEF TypeInv, MustRefresh
  <2>2. [Parsed EXCEPT ![About[c]] = Current(c)] \in Content
    <3>1. Current(c) \in Credential
      <4>1. lapsed \subseteq 1..issued /\ issued \in 0..MaxTokens
        BY DEF TypeInv, TypeOK
      <4>2. \A t \in lapsed : t \in Credential
        BY <4>1, AuthStorageAssumption
      <4>3. QED
        BY <2>1, <4>2
    <3>2. QED
      BY <1>1, <2>1, <3>1
  <2>3. next' = [next EXCEPT ![c] = [Parsed EXCEPT ![About[c]] = Current(c)]]
        /\ pc' = [pc EXCEPT ![c] = "refreshing"] /\ UNCHANGED <<data, wanted>>
    BY <1>4 DEF Enters
  <2>4. PresentsLapsed'
    BY <1>1, <2>1, <2>3 DEF TypeInv, TypeOK, PresentsLapsed, Presented, calls, tokens
  <2>5. QED
    BY <2>2, <2>3, <2>4 DEF TypeInv, TypeOK, Enters, calls, tokens
<1>5. CASE file # Torn /\ op[c] # "refresh"
  <2>1. Merged(c) \in Content
    BY <1>1, <1>5, ParsedType DEF TypeInv, TypeOK, Merged
  <2>2. {given[c]} \cap Token \subseteq 1..issued
    BY AuthStorageAssumption DEF TypeInv, GivenIssued
  <2>3. /\ next' = [next EXCEPT ![c] = Merged(c)]
        /\ data' = [data EXCEPT ![Owner[c]] = Merged(c)]
        /\ pc' = [pc EXCEPT ![c] = "write"] /\ holder' = c
        /\ wanted' = (wanted \ {Parsed[About[c]]}) \cup ({given[c]} \cap Token)
    BY <1>5 DEF Enters
  <2>4. next' \in [Calls -> Content] /\ data' \in [Processes -> Content]
    BY <1>1, <2>1, <2>3 DEF TypeInv, TypeOK
  <2>5. wanted' \subseteq 1..issued
    BY <2>2, <2>3 DEF TypeInv, TypeOK
  <2>6. QED
    BY <2>3, <2>4, <2>5 DEF TypeInv, TypeOK, PresentsLapsed, Presented, calls, tokens
<1>6. QED
  BY <1>2, <1>3, <1>4, <1>5

\* The credentials start with their types.
LEMMA TypeInit == Init => TypeInv
<1> SUFFICES ASSUME Init PROVE TypeInv
  OBVIOUS
<1> USE AuthStorageAssumption DEF Init
<1>1. file \in Content \cup {Absent, Torn}
  <2>1. \A q \in Providers : [Nothing EXCEPT ![q] = 1] \in Content
    OBVIOUS
  <2>2. QED
    BY <2>1
<1>2. issued \in 0..1 /\ issued \in 0..MaxTokens /\ wanted \subseteq 1..issued
  OBVIOUS
<1>3. data \in [Processes -> Content] /\ next \in [Calls -> Content]
  OBVIOUS
<1>4. /\ holder = Nobody /\ lost = {} /\ noticed = {} /\ lapsed = {} /\ spent = {}
      /\ up \in [Processes -> {"down", "creating", "up"}] /\ op \in [Calls -> {"refresh", "login", "logout"}]
      /\ pc \in [Calls -> {"idle", "lock", "refreshing", "write", "writing",
                           "release", "done", "dead"}]
      /\ given \in [Calls -> Credential] /\ faults \in 0..MaxFaults /\ harmed \in BOOLEAN
  <2>1. given \in [Calls -> Credential]
    OBVIOUS
  <2>2. faults \in 0..MaxFaults
    OBVIOUS
  <2>3. up \in [Processes -> {"down", "creating", "up"}] /\ op \in [Calls -> {"refresh", "login", "logout"}]
        /\ harmed \in BOOLEAN
    OBVIOUS
  <2>4. pc \in [Calls -> {"idle", "lock", "refreshing", "write", "writing",
                           "release", "done", "dead"}]
    OBVIOUS
  <2>5. QED
    BY <2>1, <2>2, <2>3, <2>4
<1> HIDE DEF Init
<1>5. TypeOK
  BY <1>1, <1>2, <1>3, <1>4 DEF TypeOK
<1>6. QED
  BY <1>5 DEF Init, TypeInv, GivenIssued, PresentsLapsed

\* No step of a call, of a fault or of the clock breaks a type.
LEMMA TypeNext == TypeInv /\ [Next]_vars => TypeInv'
<1> SUFFICES ASSUME TypeInv, [Next]_vars PROVE TypeInv'
  OBVIOUS
<1> USE AuthStorageAssumption
<1> USE DEF tokens, calls, theft
<1>0. \A c \in Calls : Owner[c] \in Processes /\ About[c] \in Providers
  OBVIOUS
<1>1. ASSUME NEW p \in Processes, Starts(p) PROVE TypeInv'
  <2>1. file' \in Content \cup {Absent, Torn} /\ (file' = Torn \/ file' \in Content)
    BY <1>1 DEF Starts, Ensured, TypeInv, TypeOK
  <2>2. data' \in [Processes -> Content]
    <3> DEFINE read == IF file' = Torn THEN Nothing ELSE file'
    <3>1. read \in Content
      BY <2>1
    <3>2. data' = data \/ data' = [data EXCEPT ![p] = read]
      BY <1>1 DEF Starts
    <3> HIDE DEF read
    <3>3. QED
      BY <3>1, <3>2 DEF TypeInv, TypeOK
  <2>3. /\ lost' \subseteq Calls /\ noticed' \subseteq lost'
        /\ holder' \in Calls \cup {Nobody} /\ faults' \in 0..MaxFaults /\ harmed' \in BOOLEAN
    <3>1. /\ lost' = lost \/ (holder \in Calls /\ lost' = lost \cup {holder})
          /\ noticed' = noticed
      BY <1>1 DEF Starts
    <3>2. holder' \in {holder, Nobody} /\ harmed' \in {harmed, TRUE, harmed \/ Overwrites(p)}
          /\ (faults' = faults \/ (faults < MaxFaults /\ faults' = faults + 1))
      BY <1>1 DEF Starts, Fault, Harm
    <3>3. lost' \subseteq Calls /\ noticed' \subseteq lost'
      BY <3>1 DEF TypeInv, TypeOK
    <3>4. holder' \in Calls \cup {Nobody} /\ harmed' \in BOOLEAN
      BY <3>2 DEF TypeInv, TypeOK
    <3>5. faults' \in 0..MaxFaults
      BY <3>2 DEF TypeInv, TypeOK
    <3>6. QED
      BY <3>3, <3>4, <3>5
  <2>4. UNCHANGED <<pc, op, given, next, issued, lapsed, spent, wanted>>
        /\ up' \in [Processes -> {"down", "creating", "up"}]
    BY <1>1 DEF Starts, TypeInv, TypeOK
  <2>5. TypeOK'
    BY <2>1, <2>2, <2>3, <2>4 DEF TypeInv, TypeOK
  <2>6. QED
    BY <2>4, <2>5 DEF TypeInv, GivenIssued, PresentsLapsed, Presented
<1>2. ASSUME NEW c \in Calls, Calling(c) PROVE TypeInv'
  <2>1. issued' \in 0..MaxTokens /\ issued' >= issued
        /\ given' \in [Calls -> Credential]
        /\ \A d \in Calls : given'[d] \in 1..issued' \cup {None, ApiKey}
    <3>1. CASE GetAuth(c)
      BY <3>1 DEF GetAuth, TypeInv, TypeOK, GivenIssued
    <3>2. CASE Logout(c)
      BY <3>2 DEF Logout, TypeInv, TypeOK, GivenIssued
    <3>3. CASE Login(c) /\ UNCHANGED issued
      <4>1. given' = [given EXCEPT ![c] = ApiKey] \/ issued' = issued + 1
        BY <3>3 DEF Login
      <4>2. given' = [given EXCEPT ![c] = ApiKey]
        BY <3>3, <4>1 DEF TypeInv, TypeOK
      <4>3. QED
        BY <3>3, <4>2 DEF TypeInv, TypeOK, GivenIssued
    <3>4. CASE Login(c) /\ issued' # issued
      <4>1. issued < MaxTokens /\ issued' = issued + 1
            /\ given' = [given EXCEPT ![c] = issued']
        BY <3>4 DEF Login
      <4>2. issued' \in 0..MaxTokens /\ issued' >= issued /\ issued' \in Token
            /\ 1..issued \subseteq 1..issued' /\ issued' \in 1..issued'
        BY <4>1 DEF TypeInv, TypeOK
      <4>3. given' \in [Calls -> Credential]
        BY <4>1, <4>2 DEF TypeInv, TypeOK
      <4>4. ASSUME NEW d \in Calls PROVE given'[d] \in 1..issued' \cup {None, ApiKey}
        BY <4>1, <4>2 DEF TypeInv, TypeOK, GivenIssued
      <4>5. QED
        BY <4>2, <4>3, <4>4
    <3>5. QED
      BY <1>2, <3>1, <3>2, <3>3, <3>4 DEF Calling
  <2>2. op' \in [Calls -> {"refresh", "login", "logout"}]
    BY <1>2 DEF Calling, GetAuth, Login, Logout, TypeInv, TypeOK
  <2>3. pc' \in [Calls -> {"idle", "lock", "refreshing", "write", "writing",
                           "release", "done", "dead"}]
        /\ pc'[c] # "refreshing" /\ \A d \in Calls \ {c} : pc'[d] = pc[d]
    BY <1>2 DEF Calling, TypeInv, TypeOK
  <2>4. UNCHANGED <<file, holder, up, data, next, lapsed, spent, theft, faults, wanted, harmed>>
    BY <1>2 DEF Calling
  <2>5. TypeOK'
    BY <2>1, <2>2, <2>3, <2>4 DEF TypeInv, TypeOK
  <2>6. QED
    BY <2>1, <2>3, <2>4, <2>5 DEF TypeInv, GivenIssued, PresentsLapsed, Presented
<1>3. ASSUME NEW t \in Token, Lapses(t) PROVE TypeInv'
  BY <1>3 DEF Lapses, TypeInv, TypeOK, GivenIssued, PresentsLapsed, Presented
<1>4. ASSUME NEW p \in Processes, FindsNone(p) PROVE TypeInv'
  BY <1>4 DEF FindsNone, TypeInv, TypeOK, GivenIssued, PresentsLapsed, Presented
<1>5. ASSUME NEW c \in Calls, TimesOut(c) PROVE TypeInv'
  <2>1. {c} \in SUBSET Calls /\ Forgets({c}) /\ pc' = [pc EXCEPT ![c] = "done"]
    BY <1>5 DEF TimesOut
  <2>2. pc' \in [Calls -> {"idle", "lock", "refreshing", "write", "writing",
                           "release", "done", "dead"}]
        /\ \A d \in Calls : pc'[d] = "refreshing" => d # c /\ pc[d] = "refreshing"
    BY <2>1 DEF TypeInv, TypeOK
  <2>3. TypeOK'
    BY <1>5, <2>1, <2>2, ForgetsType DEF TimesOut, TypeInv, TypeOK
  <2>4. GivenIssued'
    BY <1>5, <2>1, ForgetsType DEF TimesOut, TypeInv, GivenIssued
  <2>5. PresentsLapsed'
    BY <1>5, <2>1, <2>2, ForgetsType DEF TimesOut, TypeInv, PresentsLapsed, Presented
  <2>6. QED
    BY <2>3, <2>4, <2>5 DEF TypeInv
<1>6. ASSUME NEW c \in Calls, Acquires(c) PROVE TypeInv'
  BY <1>6, EntersType DEF Acquires, TypeInv, TypeOK, GivenIssued
<1>7. ASSUME NEW c \in Calls, Steals(c) PROVE TypeInv'
  <2>1. Enters(c) /\ UNCHANGED <<file, calls, tokens>>
    BY <1>7 DEF Steals
  <2>2. faults' \in 0..MaxFaults /\ harmed' \in BOOLEAN /\ lost' \subseteq Calls
        /\ noticed' \subseteq lost'
    BY <1>7 DEF Steals, Fault, Harm, TypeInv, TypeOK
  <2>3. QED
    BY <1>7, <2>1, <2>2, EntersType DEF Steals, TypeInv, TypeOK, GivenIssued
<1>8. ASSUME NEW c \in Calls, Notices(c) PROVE TypeInv'
  BY <1>8 DEF Notices, TypeInv, TypeOK, GivenIssued, PresentsLapsed, Presented
<1>9. ASSUME NEW c \in Calls, Refreshes(c) PROVE TypeInv'
  <2>1. issued' = issued + 1 /\ issued' \in 0..MaxTokens /\ Presented(c) \in 1..issued
    BY <1>9 DEF Refreshes, TypeInv, TypeOK, PresentsLapsed
  <2>2. Renewed(c, issued') \in Content
    BY <1>0, <2>1 DEF Renewed, TypeInv, TypeOK
  <2>3. next' = [next EXCEPT ![c] = Renewed(c, issued')]
        /\ data' = [data EXCEPT ![Owner[c]] = next'[c]]
    BY <1>9 DEF Refreshes
  <2>4. next' \in [Calls -> Content] /\ data' \in [Processes -> Content]
        /\ \A d \in Calls \ {c} : next'[d] = next[d]
    BY <1>0, <2>2, <2>3 DEF TypeInv, TypeOK
  <2>5. wanted' \subseteq 1..issued' /\ spent' \subseteq 1..issued' /\ lapsed' \subseteq 1..issued'
    <3>1. 1..issued \subseteq 1..issued' /\ issued' \in 1..issued'
      BY <2>1 DEF TypeInv, TypeOK
    <3>2. /\ spent' = spent \cup {Presented(c)} /\ lapsed' = lapsed
          /\ wanted' = (wanted \ {Presented(c)}) \cup {issued'}
      BY <1>9 DEF Refreshes
    <3>3. QED
      BY <2>1, <3>1, <3>2 DEF TypeInv, TypeOK
  <2>6. TypeOK'
    BY <1>9, <2>1, <2>4, <2>5 DEF Refreshes, TypeInv, TypeOK
  <2>7. QED
    BY <1>9, <2>1, <2>4, <2>6 DEF Refreshes, TypeInv, TypeOK, GivenIssued, PresentsLapsed, Presented
<1>10. ASSUME NEW c \in Calls, RefreshFails(c) PROVE TypeInv'
  BY <1>10 DEF RefreshFails, TypeInv, TypeOK, GivenIssued, PresentsLapsed, Presented
<1>11. ASSUME NEW c \in Calls, AnswerLost(c) PROVE TypeInv'
  <2>1. Presented(c) \in lapsed /\ spent' = spent \cup {Presented(c)}
    BY <1>11 DEF AnswerLost, TypeInv, PresentsLapsed
  <2>2. spent' \subseteq 1..issued
    BY <2>1 DEF TypeInv, TypeOK
  <2>3. QED
    BY <1>11, <2>2
       DEF AnswerLost, Fault, Harm, TypeInv, TypeOK, GivenIssued, PresentsLapsed, Presented
<1>12. ASSUME NEW c \in Calls, GivesUp(c) PROVE TypeInv'
  BY <1>12 DEF GivesUp, TypeInv, TypeOK, GivenIssued, PresentsLapsed, Presented
<1>13. ASSUME NEW c \in Calls, WriteBegins(c) PROVE TypeInv'
  BY <1>13 DEF WriteBegins, TypeInv, TypeOK, GivenIssued, PresentsLapsed, Presented
<1>14. ASSUME NEW c \in Calls, WriteEnds(c) PROVE TypeInv'
  BY <1>14 DEF WriteEnds, TypeInv, TypeOK, GivenIssued, PresentsLapsed, Presented
<1>15. ASSUME NEW c \in Calls, WriteFails(c) PROVE TypeInv'
  BY <1>15 DEF WriteFails, Fault, Harm, TypeInv, TypeOK, GivenIssued, PresentsLapsed, Presented
<1>16. ASSUME NEW c \in Calls, Releases(c) PROVE TypeInv'
  <2>1. {c} \in SUBSET Calls /\ Forgets({c}) /\ pc' = [pc EXCEPT ![c] = "done"]
    BY <1>16 DEF Releases
  <2>2. holder' \in Calls \cup {Nobody}
    BY <1>16 DEF Releases, Freed, TypeInv, TypeOK
  <2>3. pc' \in [Calls -> {"idle", "lock", "refreshing", "write", "writing",
                           "release", "done", "dead"}]
        /\ \A d \in Calls : pc'[d] = "refreshing" => d # c /\ pc[d] = "refreshing"
    BY <2>1 DEF TypeInv, TypeOK
  <2>4. TypeOK'
    BY <1>16, <2>1, <2>2, <2>3, ForgetsType DEF Releases, TypeInv, TypeOK
  <2>5. GivenIssued'
    BY <1>16, <2>1, ForgetsType DEF Releases, TypeInv, GivenIssued
  <2>6. PresentsLapsed'
    BY <1>16, <2>1, <2>3, ForgetsType DEF Releases, TypeInv, PresentsLapsed, Presented
  <2>7. QED
    BY <2>4, <2>5, <2>6 DEF TypeInv
<1>17. ASSUME NEW p \in Processes, Crash(p) PROVE TypeInv'
  <2> DEFINE own == {c \in Calls : Owner[c] = p /\ pc[c] \notin {"idle", "done"}}
  <2>1. own \in SUBSET Calls /\ Forgets(own)
    BY <1>17 DEF Crash
  <2>2. pc' = [c \in Calls |-> IF c \in own THEN "dead" ELSE pc[c]]
    BY <1>17 DEF Crash
  <2>3. file' \in Content \cup {Absent, Torn} /\ faults' \in 0..MaxFaults /\ harmed' \in BOOLEAN
        /\ up' \in [Processes -> {"down", "creating", "up"}] /\ data' \in [Processes -> Content]
        /\ UNCHANGED <<holder, op, tokens, wanted>>
    BY <1>17 DEF Crash, Fault, TypeInv, TypeOK
  <2> HIDE DEF own
  <2>4. pc' \in [Calls -> {"idle", "lock", "refreshing", "write", "writing",
                           "release", "done", "dead"}]
        /\ \A c \in Calls : pc'[c] = "refreshing" => c \notin own /\ pc[c] = "refreshing"
    BY <2>2 DEF TypeInv, TypeOK
  <2>5. TypeOK'
    BY <2>1, <2>3, <2>4, ForgetsType DEF TypeInv, TypeOK
  <2>6. QED
    BY <2>1, <2>3, <2>4, <2>5, ForgetsType DEF TypeInv, GivenIssued, PresentsLapsed, Presented
<1>18. ASSUME UNCHANGED vars PROVE TypeInv'
  BY <1>18 DEF vars, TypeInv, TypeOK, GivenIssued, PresentsLapsed, Presented
<1>19. QED
  BY <1>1, <1>2, <1>3, <1>4, <1>5, <1>6, <1>7, <1>8, <1>9, <1>10, <1>11, <1>12, <1>13, <1>14,
     <1>15, <1>16, <1>17, <1>18 DEF Next, CallStep, FaultStep

\* Every variable keeps its type: no token is expired, spent or wanted that was not issued,
\* and only a call whose lock was taken over hears of it.
THEOREM TypeCorrect == Spec => []TypeOK
<1>1. TypeInv => TypeOK
  BY DEF TypeInv
<1>2. QED
  BY <1>1, TypeInit, TypeNext, PTL DEF Spec

-----------------------------------------------------------------------------
(* The lock. *)

\* At the start nobody holds the lock.
LEMMA LockInit == Init => LockExcludes
BY DEF Init, LockExcludes, Locked

\* The lock is entered only when it is free or stolen, and stealing it is recorded (proper-lockfile).
LEMMA LockNext == TypeInv /\ LockExcludes /\ [Next]_vars => LockExcludes'
<1> SUFFICES ASSUME TypeInv, LockExcludes, [Next]_vars PROVE LockExcludes'
  OBVIOUS
<1> USE AuthStorageAssumption DEF LockExcludes, Locked
<1>t. pc \in [Calls -> {"idle", "lock", "refreshing", "write", "writing",
                        "release", "done", "dead"}] /\ harmed \in BOOLEAN
  BY DEF TypeInv, TypeOK
<1>f. ASSUME Free, ~harmed PROVE \A c \in Calls : pc[c] \notin Locked
  BY <1>f DEF Free
<1>1. ASSUME NEW p \in Processes, Starts(p) PROVE LockExcludes'
  <2>1. pc' = pc
    BY <1>1 DEF Starts
  <2>2. (harmed => harmed') /\ (harmed' \/ holder' = holder \/ Free)
    BY <1>1, <1>t DEF Starts, Harm
  <2>3. QED
    BY <1>f, <2>1, <2>2
<1>2. ASSUME NEW c \in Calls, Acquires(c) PROVE LockExcludes'
  <2>1. Free /\ holder' = c /\ harmed' = harmed
    BY <1>2 DEF Acquires, Enters
  <2>2. \A d \in Calls \ {c} : pc'[d] = pc[d]
    BY <1>2, <1>t DEF Acquires, Enters
  <2>3. QED
    BY <1>f, <2>1, <2>2
<1>3. ASSUME NEW c \in Calls, Steals(c) PROVE LockExcludes'
  BY <1>3 DEF Steals, Harm
<1>4. ASSUME NEW c \in Calls, Releases(c) PROVE LockExcludes'
  <2>1. pc[c] = "release" /\ pc' = [pc EXCEPT ![c] = "done"] /\ harmed' = harmed
    BY <1>4 DEF Releases
  <2>2. QED
    BY <1>t, <2>1
<1>5. ASSUME NEW p \in Processes, Crash(p) PROVE LockExcludes'
  <2>1. holder' = holder /\ (harmed => harmed')
        /\ \A c \in Calls : pc'[c] \in {pc[c], "dead"}
    BY <1>5 DEF Crash
  <2>2. QED
    BY <2>1
<1>6. ASSUME NEW c \in Calls,
             Calling(c) \/ TimesOut(c) \/ Notices(c)
      PROVE LockExcludes'
  <2>1. holder' = holder /\ (harmed => harmed')
    BY <1>6, <1>t DEF Calling, TimesOut, Notices
  <2>2. \A d \in Calls : pc'[d] \in {"lock", "done", pc[d]}
    BY <1>6, <1>t DEF Calling, TimesOut, Notices
  <2>3. QED
    BY <2>1, <2>2
<1>7. ASSUME NEW c \in Calls,
             Refreshes(c) \/ RefreshFails(c) \/ AnswerLost(c) \/ GivesUp(c) \/ WriteBegins(c)
             \/ WriteEnds(c) \/ WriteFails(c)
      PROVE LockExcludes'
  <2>1. holder' = holder /\ (harmed => harmed') /\ pc[c] \in Locked
    BY <1>7 DEF Refreshes, RefreshFails, AnswerLost, GivesUp, WriteBegins, WriteEnds, WriteFails, Harm
  <2>2. \A d \in Calls \ {c} : pc'[d] = pc[d]
    BY <1>7, <1>t DEF Refreshes, RefreshFails, AnswerLost, GivesUp, WriteBegins, WriteEnds, WriteFails
  <2>3. QED
    BY <2>1, <2>2
<1>8. ASSUME (\E t \in Token : Lapses(t)) \/ (\E p \in Processes : FindsNone(p))
      PROVE  LockExcludes'
  BY <1>8 DEF Lapses, FindsNone
<1>9. ASSUME UNCHANGED vars PROVE LockExcludes'
  BY <1>9 DEF vars
<1>10. QED
  BY <1>1, <1>2, <1>3, <1>4, <1>5, <1>6, <1>7, <1>8, <1>9 DEF Next, CallStep, FaultStep

\* For any number of processes, calls and faults: as long as no fault has taken a lock from
\* its holder, calls that read, refresh or write auth.json are one at a time.
THEOREM LockServes == Spec => []LockExcludes
<1>1. Init => TypeInv /\ LockExcludes
  BY TypeInit, LockInit
<1>2. TypeInv /\ LockExcludes /\ [Next]_vars => (TypeInv /\ LockExcludes)'
  BY TypeNext, LockNext
<1>3. QED
  BY <1>1, <1>2, PTL DEF Spec
-----------------------------------------------------------------------------
(* The credentials.  As long as no fault has done harm, what is stored, or is about to be
   stored by the one call that has the lock, has every token that users are logged in
   with, for one provider each, and none that is spent. *)

\* The calls that are about to bring a token of a login.
Bringing == {c \in Calls : pc[c] = "lock" /\ op[c] = "login" /\ given[c] \in Token}

\* Credentials with the tokens wa, each for one provider, and none that was not issued, that
\* is spent or that a login is still to bring.
Sound(s, iss, sp, wa, lo) ==
  /\ \A q \in Providers : s[q] \in Token => s[q] \in 1..iss /\ s[q] \notin sp \cup lo
  /\ \A q, r \in Providers : s[q] \in Token /\ s[q] = s[r] => q = r
  /\ \A t \in wa : \E q \in Providers : s[q] = t

Brought == {given[c] : c \in Bringing}
SoundNow(s) == Sound(s, issued, spent, wanted, Brought)

\* What a call that has read the file makes of it.
AsRead(c) ==
  /\ pc[c] = "refreshing" => op[c] = "refresh" /\ next[c] = Parsed
  /\ pc[c] = "write" =>
       /\ \A q \in Providers \ {About[c]} : next[c][q] = Parsed[q]
       /\ op[c] = "refresh" => Parsed[About[c]] # None
       /\ op[c] = "logout" => next[c][About[c]] = None
  /\ pc[c] = "lock" /\ op[c] = "logout" => given[c] = None

Ahead == {c \in Calls : pc[c] \in {"write", "writing"}}

Kept ==
  /\ lost = {} /\ file # Torn
  /\ \A c \in Bringing : given[c] \notin spent
  /\ \A c, d \in Bringing : given[c] = given[d] => c = d
  /\ \A c \in Calls : AsRead(c)
  /\ \A c \in Ahead : SoundNow(next[c])
  /\ Ahead = {} => SoundNow(Parsed)

KeptInv == harmed \/ Kept

\* At the start the file holds the tokens that were given out.
LEMMA KeptInit == Init => Kept
<1> SUFFICES ASSUME Init PROVE Kept
  OBVIOUS
<1>1. Bringing = {} /\ Ahead = {} /\ \A c \in Calls : AsRead(c)
  BY DEF Init, Bringing, Ahead, AsRead
<1>2. lost = {} /\ file # Torn
  <2>1. \A q \in Providers : [Nothing EXCEPT ![q] = 1] \in Content
    BY AuthStorageAssumption
  <2>2. QED
    BY <2>1, FileAssumption DEF Init
<1>3. CASE file = Absent
  <2>1. Parsed = Nothing /\ wanted = {}
    BY <1>3 DEF Init, Parsed
  <2>2. SoundNow(Parsed)
    BY <2>1, AuthStorageAssumption DEF SoundNow, Sound
  <2>3. QED
    BY <1>1, <1>2, <2>2 DEF Kept
<1>4. CASE file # Absent
  <2>1. PICK q \in Providers : file = [Nothing EXCEPT ![q] = 1]
    BY <1>4 DEF Init
  <2>2. Parsed = file /\ issued = 1 /\ wanted = {1} /\ spent = {} /\ Brought = {}
    BY <1>1, <1>4 DEF Init, Parsed, Brought
  <2>3. \A r \in Providers : Parsed[r] = IF r = q THEN 1 ELSE None
    BY <2>1, <2>2
  <2>4. SoundNow(Parsed)
    BY <2>2, <2>3, AuthStorageAssumption DEF SoundNow, Sound
  <2>5. QED
    BY <1>1, <1>2, <2>4 DEF Kept
<1>5. QED
  BY <1>3, <1>4

\* Credentials stay sound when more tokens are issued, also to logins that are on their way.
LEMMA SoundLater ==
  ASSUME NEW s, NEW iss \in Nat, NEW jss \in Nat, iss <= jss, NEW sp, NEW wa, NEW lo, NEW lp,
         Sound(s, iss, sp, wa, lo), \A x \in lp : x \in lo \/ x \notin 1..iss
  PROVE  Sound(s, jss, sp, wa, lp)
BY DEF Sound

\* A step that reads and writes nothing: some calls end, the others are where they were.
LEMMA KeptFrame ==
  ASSUME TypeInv, Kept, lost' = {}, file' # Torn, Parsed' = Parsed,
         UNCHANGED <<issued, spent, wanted>>,
         \A c \in Calls :
           \/ pc'[c] \in {"idle", "release", "done", "dead"}
           \/ /\ pc'[c] = pc[c] /\ op'[c] = op[c] /\ given'[c] = given[c] /\ next'[c] = next[c],
         Ahead' = {} => Ahead = {}
  PROVE  Kept'
<1>1. \A c \in Bringing' : c \in Bringing /\ given'[c] = given[c]
  BY DEF Bringing
<1>2. \A c \in Ahead' : c \in Ahead /\ next'[c] = next[c]
  BY DEF Ahead
<1>3. \A c \in Calls : AsRead(c)'
  <2> SUFFICES ASSUME NEW c \in Calls PROVE AsRead(c)'
    OBVIOUS
  <2>1. AsRead(c)
    BY DEF Kept
  <2>2. QED
    BY <2>1 DEF AsRead
<1>4. Brought' \subseteq Brought
  BY <1>1 DEF Brought
<1>5. issued \in Nat
  BY AuthStorageAssumption DEF TypeInv, TypeOK
<1>6. ASSUME NEW s, SoundNow(s) PROVE Sound(s, issued', spent', wanted', Brought')
  BY <1>4, <1>5, <1>6, SoundLater DEF SoundNow
<1>7. /\ \A c \in Ahead' : Sound(next'[c], issued', spent', wanted', Brought')
      /\ Ahead' = {} => Sound(Parsed', issued', spent', wanted', Brought')
  BY <1>2, <1>6 DEF Kept
<1>8. /\ \A c \in Bringing' : given'[c] \notin spent'
      /\ \A c, d \in Bringing' : given'[c] = given'[d] => c = d
  BY <1>1 DEF Kept
<1>9. QED
  BY <1>3, <1>7, <1>8 DEF Kept, SoundNow

\* The file that a process or a call creates says what no file says.
LEMMA CreatedFile ==
  ASSUME Kept, file' = file \/ (file \in {Absent, Nothing} /\ file' = Nothing)
  PROVE  Parsed' = Parsed /\ file' # Torn
BY FileAssumption, AuthStorageAssumption DEF Kept, Parsed

\* A process that starts without harm finds the file, or creates it where it says nothing.
LEMMA Unharmed ==
  ASSUME Kept, NEW p \in Processes, Starts(p), ~harmed'
  PROVE  file' = file \/ (file \in {Absent, Nothing} /\ file' = Nothing)
<1>1. file' = Ensured(p) /\ (Overwrites(p) => harmed')
  BY DEF Starts, Harm
<1>2. QED
  BY <1>1 DEF Overwrites, Ensured, Parsed

\* Under a lock that was not stolen there is one call.
LEMMA OneAhead ==
  ASSUME LockExcludes, ~harmed, NEW c \in Calls, NEW d \in Calls, pc[c] \in Locked, pc[d] \in Locked
  PROVE  c = d
BY DEF LockExcludes

\* While the lock is free, no call is behind it.
LEMMA NoneLocked ==
  ASSUME LockExcludes, ~harmed, Free
  PROVE  \A c \in Calls : pc[c] \notin Locked
BY AuthStorageAssumption DEF LockExcludes, Free, Locked

\* A call that begins keeps the invariant: it has read nothing yet.
LEMMA KeptCalling ==
  ASSUME TypeInv, TypeInv', Kept, NEW c \in Calls, Calling(c)
  PROVE  Kept'
<1>1. /\ pc[c] = "idle" /\ pc' = [pc EXCEPT ![c] = "lock"]
      /\ GetAuth(c) \/ Login(c) \/ Logout(c)
      /\ UNCHANGED <<file, next, spent, lost, wanted>>
  BY DEF Calling, theft
<1>2. /\ pc'[c] = "lock"
      /\ \A d \in Calls \ {c} : pc'[d] = pc[d] /\ op'[d] = op[d] /\ given'[d] = given[d]
  BY <1>1 DEF GetAuth, Login, Logout, TypeInv, TypeOK
<1>3. /\ Ahead' = Ahead /\ Parsed' = Parsed
  BY <1>1, <1>2 DEF Ahead, Parsed
<1>4. issued \in Nat /\ issued' \in Nat /\ issued <= issued'
  BY <1>1, AuthStorageAssumption DEF GetAuth, Login, Logout, TypeInv, TypeOK
<1>5. \A d \in Bringing' : \/ d \in Bringing /\ d # c /\ given'[d] = given[d]
                           \/ d = c /\ given'[d] \notin 1..issued
  <2>1. ASSUME c \in Bringing' PROVE given'[c] \notin 1..issued
    <3>1. op'[c] = "login" /\ given'[c] \in Token
      BY <2>1 DEF Bringing
    <3>2. Login(c)
      BY <1>1, <3>1 DEF GetAuth, Logout, TypeInv, TypeOK
    <3>3. given'[c] = issued + 1
      <4>1. \/ given' = [given EXCEPT ![c] = ApiKey]
            \/ given' = [given EXCEPT ![c] = issued'] /\ issued' = issued + 1
        BY <3>2 DEF Login
      <4>2. given'[c] # ApiKey
        BY <3>1, AuthStorageAssumption
      <4>3. QED
        BY <4>1, <4>2 DEF TypeInv, TypeOK
    <3>4. QED
      BY <1>4, <3>3
  <2>2. QED
    BY <1>2, <2>1 DEF Bringing
<1>6. \A x \in Brought' : x \in Brought \/ x \notin 1..issued
  BY <1>5 DEF Brought
<1>7. ASSUME NEW s, SoundNow(s) PROVE Sound(s, issued', spent', wanted', Brought')
  <2>1. Sound(s, issued', spent, wanted, Brought')
    BY <1>4, <1>6, <1>7, SoundLater DEF SoundNow
  <2>2. QED
    BY <1>1, <2>1
<1>8. /\ \A d \in Ahead' : Sound(next'[d], issued', spent', wanted', Brought')
      /\ Ahead' = {} => Sound(Parsed', issued', spent', wanted', Brought')
  BY <1>1, <1>3, <1>7 DEF Kept
<1>9. /\ \A d \in Bringing' : given'[d] \notin spent'
      /\ \A d, e \in Bringing' : given'[d] = given'[e] => d = e
  <2>1. spent' \subseteq 1..issued
    BY <1>1 DEF TypeInv, TypeOK
  <2>2. \A d \in Bringing : given[d] \in 1..issued
    BY AuthStorageAssumption DEF Bringing, TypeInv, GivenIssued
  <2>3. QED
    BY <1>1, <1>5, <2>1, <2>2 DEF Kept
<1>10. \A d \in Calls : AsRead(d)'
  <2> SUFFICES ASSUME NEW d \in Calls PROVE AsRead(d)'
    OBVIOUS
  <2>1. AsRead(d)
    BY DEF Kept
  <2>2. CASE d # c
    BY <1>1, <1>2, <1>3, <2>1, <2>2 DEF AsRead
  <2>3. CASE d = c
    <3>1. op'[c] = "logout" => given'[c] = None
      BY <1>1 DEF GetAuth, Login, Logout, TypeInv, TypeOK
    <3>2. QED
      BY <1>2, <2>3, <3>1 DEF AsRead
  <2>4. QED
    BY <2>2, <2>3
<1>11. QED
  BY <1>1, <1>8, <1>9, <1>10 DEF Kept, SoundNow

\* A call that has the lock finds no other at work.
LEMMA KeptAcquires ==
  ASSUME TypeInv, LockExcludes, ~harmed, Kept, NEW c \in Calls, Acquires(c)
  PROVE  Kept'
<1>1. /\ pc[c] = "lock" /\ Free /\ Enters(c) /\ file # Torn
      /\ UNCHANGED <<file, op, given, issued, spent, lost>>
  BY DEF Acquires, calls, tokens, theft, Kept
<1>2. \A d \in Calls : pc[d] \notin Locked
  BY <1>1, NoneLocked
<1>3. Ahead = {} /\ Parsed' = Parsed /\ Parsed \in Content /\ SoundNow(Parsed)
  BY <1>1, <1>2, ParsedType DEF Ahead, Locked, Parsed, Kept, TypeInv
<1>4. About[c] \in Providers
  BY AuthStorageAssumption
<1>5. ASSUME pc' = [pc EXCEPT ![c] = "release"], UNCHANGED <<next, wanted>> PROVE Kept'
  <2>1. \A d \in Calls :
           \/ pc'[d] \in {"idle", "release", "done", "dead"}
           \/ /\ pc'[d] = pc[d] /\ op'[d] = op[d] /\ given'[d] = given[d] /\ next'[d] = next[d]
    BY <1>1, <1>5 DEF TypeInv, TypeOK
  <2>2. lost' = {}
    BY <1>1 DEF Kept
  <2>3. QED
    BY <1>1, <1>3, <1>5, <2>1, <2>2, KeptFrame
<1>6. ASSUME op[c] = "refresh", MustRefresh(c), pc' = [pc EXCEPT ![c] = "refreshing"],
             next' = [next EXCEPT ![c] = [Parsed EXCEPT ![About[c]] = Current(c)]], wanted' = wanted
      PROVE  Kept'
  <2>1. next'[c] = Parsed /\ \A d \in Calls \ {c} : next'[d] = next[d]
    BY <1>3, <1>4, <1>6 DEF TypeInv, TypeOK, Current
  <2>2. pc'[c] = "refreshing" /\ \A d \in Calls \ {c} : pc'[d] = pc[d]
    BY <1>6 DEF TypeInv, TypeOK
  <2>3. Ahead' = {} /\ Bringing' = Bringing
    BY <1>1, <1>3, <1>6, <2>2 DEF Ahead, Bringing
  <2>4. Brought' = Brought
    BY <1>1, <2>3 DEF Brought
  <2>5. \A d \in Calls : AsRead(d)'
    <3> SUFFICES ASSUME NEW d \in Calls PROVE AsRead(d)'
      OBVIOUS
    <3>1. AsRead(d)
      BY DEF Kept
    <3>2. QED
      BY <1>1, <1>3, <1>6, <2>1, <2>2, <3>1 DEF AsRead
  <2>6. QED
    BY <1>1, <1>3, <1>6, <2>3, <2>4, <2>5 DEF Kept, SoundNow
<1>7. ASSUME op[c] # "refresh", pc' = [pc EXCEPT ![c] = "write"],
             next' = [next EXCEPT ![c] = Merged(c)],
             wanted' = (wanted \ {Parsed[About[c]]}) \cup ({given[c]} \cap Token)
      PROVE  Kept'
  <2>1. /\ Merged(c) \in Content
        /\ \A q \in Providers : Merged(c)[q] = IF q = About[c] THEN given[c] ELSE Parsed[q]
    BY <1>3, <1>4 DEF Merged, TypeInv, TypeOK
  <2>2. next'[c] = Merged(c) /\ \A d \in Calls \ {c} : next'[d] = next[d]
    BY <1>7, <2>1 DEF TypeInv, TypeOK
  <2>3. pc'[c] = "write" /\ \A d \in Calls \ {c} : pc'[d] = pc[d]
    BY <1>7 DEF TypeInv, TypeOK
  <2>4. Ahead' = {c} /\ Bringing' = Bringing \ {c}
    BY <1>1, <1>3, <2>3 DEF Ahead, Bringing
  <2>5. \A d \in Calls : AsRead(d)'
    <3> SUFFICES ASSUME NEW d \in Calls PROVE AsRead(d)'
      OBVIOUS
    <3>1. AsRead(d) /\ AsRead(c)
      BY DEF Kept
    <3>2. CASE d # c
      BY <1>1, <1>3, <2>2, <2>3, <3>1, <3>2 DEF AsRead
    <3>3. CASE d = c
      BY <1>1, <1>3, <1>4, <1>7, <2>1, <2>2, <2>3, <3>1, <3>3 DEF AsRead
    <3>4. QED
      BY <3>2, <3>3
  <2>6. given[c] \in Token => c \in Bringing
    <3>1. op[c] = "login" \/ given[c] = None
      BY <1>1, <1>7 DEF Kept, AsRead, TypeInv, TypeOK
    <3>2. QED
      BY <1>1, <3>1, AuthStorageAssumption DEF Bringing
  <2>7. Sound(next'[c], issued', spent', wanted', Brought')
    <3>1. \A q \in Providers : Parsed[q] \in Token => Parsed[q] \in 1..issued /\ Parsed[q] \notin spent \cup Brought
      BY <1>3 DEF SoundNow, Sound
    <3>2. given[c] \in Token => given[c] \in 1..issued /\ given[c] \notin spent /\ given[c] \in Brought
      BY <2>6, AuthStorageAssumption DEF Kept, Brought, TypeInv, GivenIssued
    <3>3. Brought' = {given[d] : d \in Bringing \ {c}}
      BY <1>1, <2>4 DEF Brought
    <3>4. Brought' \subseteq Brought /\ (given[c] \in Token => given[c] \notin Brought')
      BY <2>6, <3>3 DEF Kept, Brought
    <3>5. \A q \in Providers : Merged(c)[q] \in Token =>
             Merged(c)[q] \in 1..issued /\ Merged(c)[q] \notin spent \cup Brought'
      BY <2>1, <3>1, <3>2, <3>4
    <3>6. \A q, r \in Providers : Merged(c)[q] \in Token /\ Merged(c)[q] = Merged(c)[r] => q = r
      <4>1. \A q, r \in Providers : Parsed[q] \in Token /\ Parsed[q] = Parsed[r] => q = r
        BY <1>3 DEF SoundNow, Sound
      <4>2. \A q \in Providers : given[c] \in Token => Parsed[q] # given[c]
        BY <3>1, <3>2
      <4>3. QED
        BY <2>1, <4>1, <4>2
    <3>7. \A t \in wanted' : \E q \in Providers : Merged(c)[q] = t
      <4>1. \A t \in wanted : \E q \in Providers : Parsed[q] = t
        BY <1>3 DEF SoundNow, Sound
      <4>2. QED
        BY <1>4, <1>7, <2>1, <4>1
    <3>8. QED
      BY <1>1, <2>2, <3>5, <3>6, <3>7 DEF Sound
  <2>8. /\ \A d \in Bringing' : given'[d] \notin spent'
        /\ \A d, e \in Bringing' : given'[d] = given'[e] => d = e
    BY <1>1, <2>4 DEF Kept
  <2>9. QED
    BY <1>1, <2>4, <2>5, <2>7, <2>8 DEF Kept, SoundNow
<1>8. QED
  BY <1>1, <1>5, <1>6, <1>7 DEF Enters

\* A refresh keeps the invariant: the tokens it brings are newer than those it presents.
LEMMA KeptRefreshes ==
  ASSUME TypeInv, TypeInv', LockExcludes, ~harmed, Kept, NEW c \in Calls, Refreshes(c)
  PROVE  Kept'
<1>1. /\ pc[c] = "refreshing" /\ pc' = [pc EXCEPT ![c] = "write"]
      /\ Presented(c) \in Token \ spent
      /\ issued' = issued + 1 /\ spent' = spent \cup {Presented(c)}
      /\ wanted' = (wanted \ {Presented(c)}) \cup {issued'}
      /\ next' = [next EXCEPT ![c] = Renewed(c, issued')]
      /\ UNCHANGED <<file, op, given, lost>>
  BY DEF Refreshes, calls, theft
<1>2. op[c] = "refresh" /\ next[c] = Parsed /\ Parsed' = Parsed
  BY <1>1 DEF Kept, AsRead, Parsed
<1>3. About[c] \in Providers /\ issued \in Nat /\ next[c] \in Content
  BY AuthStorageAssumption DEF TypeInv, TypeOK
<1>4. pc'[c] = "write" /\ \A d \in Calls \ {c} : pc'[d] = pc[d]
  BY <1>1 DEF TypeInv, TypeOK
<1>5. Ahead = {} /\ Ahead' = {c}
  BY <1>1, <1>4, OneAhead DEF Ahead, Locked
<1>6. Bringing' = Bringing
  BY <1>1, <1>4 DEF Bringing
<1>7. Brought' = Brought
  BY <1>1, <1>6 DEF Brought
<1>8. /\ next'[c] = Renewed(c, issued') /\ \A d \in Calls \ {c} : next'[d] = next[d]
      /\ \A q \in Providers : next'[c][q] = IF q = About[c] THEN issued' ELSE next[c][q]
  <2>1. Renewed(c, issued') \in [Providers -> Credential \cup {issued'}]
    BY <1>3 DEF Renewed
  <2>2. \A q \in Providers : Renewed(c, issued')[q] = IF q = About[c] THEN issued' ELSE next[c][q]
    BY <1>3 DEF Renewed
  <2>3. QED
    BY <1>1, <2>2 DEF TypeInv, TypeOK
<1>9. SoundNow(next[c])
  BY <1>2, <1>5 DEF Kept
<1>10. \A x \in Brought \cup spent : x \in 1..issued
  <2>1. \A d \in Bringing : given[d] \in 1..issued
    BY AuthStorageAssumption DEF Bringing, TypeInv, GivenIssued
  <2>2. spent \subseteq 1..issued
    BY DEF TypeInv, TypeOK
  <2>3. QED
    BY <2>1, <2>2 DEF Brought
<1>11. Presented(c) = next[c][About[c]] /\ Presented(c) \notin Brought /\ Presented(c) \in 1..issued
  BY <1>1, <1>3, <1>9 DEF Presented, SoundNow, Sound
<1>12. Sound(next'[c], issued', spent', wanted', Brought')
  <2>1. \A q \in Providers \ {About[c]} : next[c][q] \in Token =>
           next[c][q] \in 1..issued /\ next[c][q] \notin spent \cup Brought /\ next[c][q] # Presented(c)
    BY <1>3, <1>9, <1>11 DEF SoundNow, Sound
  <2>2. issued' \notin 1..issued /\ issued' \in 1..issued' /\ 1..issued \subseteq 1..issued'
    BY <1>1, <1>3
  <2>3. issued' \notin spent' \cup Brought'
    BY <1>1, <1>7, <1>10, <1>11, <2>2
  <2>4. \A q \in Providers : next'[c][q] \in Token =>
             next'[c][q] \in 1..issued' /\ next'[c][q] \notin spent' \cup Brought'
    BY <1>1, <1>7, <1>8, <2>1, <2>2, <2>3
  <2>5. \A q, r \in Providers : next'[c][q] \in Token /\ next'[c][q] = next'[c][r] => q = r
    <3>1. \A q, r \in Providers : next[c][q] \in Token /\ next[c][q] = next[c][r] => q = r
      BY <1>9 DEF SoundNow, Sound
    <3>2. \A q \in Providers \ {About[c]} : next[c][q] \in Token => next[c][q] # issued'
      BY <2>1, <2>2
    <3>3. QED
      BY <1>8, <3>1, <3>2
  <2>6. \A t \in wanted' : \E q \in Providers : next'[c][q] = t
    <3>1. \A t \in wanted : \E q \in Providers : next[c][q] = t
      BY <1>9 DEF SoundNow, Sound
    <3>2. QED
      BY <1>1, <1>3, <1>8, <1>11, <3>1
  <2>7. QED
    BY <2>4, <2>5, <2>6 DEF Sound
<1>13. \A d \in Calls : AsRead(d)'
  <2> SUFFICES ASSUME NEW d \in Calls PROVE AsRead(d)'
    OBVIOUS
  <2>1. AsRead(d)
    BY DEF Kept
  <2>2. CASE d # c
    BY <1>1, <1>2, <1>4, <1>8, <2>1, <2>2 DEF AsRead
  <2>3. CASE d = c
    <3>1. Parsed[About[c]] # None
      BY <1>1, <1>2, <1>11, AuthStorageAssumption
    <3>2. \A q \in Providers \ {About[c]} : next'[c][q] = Parsed[q]
      BY <1>2, <1>8
    <3>3. QED
      BY <1>1, <1>2, <1>4, <2>3, <3>1, <3>2 DEF AsRead
  <2>4. QED
    BY <2>2, <2>3
<1>14. /\ \A d \in Bringing' : given'[d] \notin spent'
       /\ \A d, e \in Bringing' : given'[d] = given'[e] => d = e
  <2>1. \A d \in Bringing : given[d] \in Brought
    BY DEF Brought
  <2>2. QED
    BY <1>1, <1>6, <1>11, <2>1 DEF Kept
<1>15. QED
  BY <1>1, <1>5, <1>12, <1>13, <1>14 DEF Kept, SoundNow

\* The file is empty while it is written, and then holds what the call has made of it.
LEMMA KeptWrites ==
  ASSUME TypeInv, LockExcludes, ~harmed, Kept, NEW c \in Calls, WriteBegins(c) \/ WriteEnds(c)
  PROVE  Kept'
<1>1. /\ pc[c] \in {"write", "writing"} /\ pc' = [pc EXCEPT ![c] = pc'[c]]
      /\ UNCHANGED <<op, given, next, issued, spent, wanted, lost>>
      /\ \/ file' = Nothing /\ pc'[c] = "writing"
         \/ file' = next[c] /\ pc'[c] = "release"
  BY DEF WriteBegins, WriteEnds, calls, tokens, theft, TypeInv, TypeOK
<1>2. \A d \in Calls \ {c} : pc'[d] = pc[d]
  BY <1>1 DEF TypeInv, TypeOK
<1>3. \A d \in Calls \ {c} : pc[d] \notin Locked
  BY <1>1, OneAhead DEF Locked
<1>4. next[c] \in Content /\ Nothing \in Content
  BY DEF TypeInv, TypeOK
<1>5. file' # Torn /\ (pc'[c] = "release" => Parsed' = next[c])
  BY <1>1, <1>4, FileAssumption DEF Parsed
<1>6. Ahead' = (IF pc'[c] = "writing" THEN {c} ELSE {}) /\ SoundNow(next[c])
  BY <1>1, <1>2, <1>3 DEF Ahead, Locked, Kept
<1>7. Bringing' = Bringing
  BY <1>1, <1>2 DEF Bringing
<1>8. Brought' = Brought
  BY <1>1, <1>7 DEF Brought
<1>9. \A d \in Calls : AsRead(d)'
  <2> SUFFICES ASSUME NEW d \in Calls PROVE AsRead(d)'
    OBVIOUS
  <2>1. AsRead(d)
    BY DEF Kept
  <2>2. QED
    BY <1>1, <1>2, <1>3, <2>1 DEF AsRead, Locked
<1>10. QED
  BY <1>1, <1>5, <1>6, <1>7, <1>8, <1>9 DEF Kept, SoundNow

\* Every step keeps the invariant unless it does harm, which is recorded.
LEMMA KeptNext ==
  TypeInv /\ TypeInv' /\ LockExcludes /\ KeptInv /\ [Next]_vars => KeptInv'
<1> SUFFICES ASSUME TypeInv, TypeInv', LockExcludes, KeptInv, [Next]_vars, ~harmed' PROVE Kept'
  BY DEF KeptInv
<1>0. ~harmed /\ Kept
  <2>1. ~harmed
    BY DEF Next, CallStep, FaultStep, Starts, Calling, Lapses, FindsNone, TimesOut, Acquires, Steals,
           Notices, Refreshes, RefreshFails, AnswerLost, GivesUp, WriteBegins, WriteEnds, WriteFails,
           Releases, Crash, Harm, vars
  <2>2. QED
    BY <2>1 DEF KeptInv
<1>l. lost = {} /\ noticed = {}
  BY <1>0 DEF Kept, TypeInv, TypeOK
<1>1. ASSUME NEW p \in Processes, Starts(p) PROVE Kept'
  <2>1. /\ UNCHANGED <<pc, op, given, next, issued, spent, wanted, lost>>
        /\ file' = file \/ (file \in {Absent, Nothing} /\ file' = Nothing)
    <3>1. UNCHANGED <<pc, op, given, next, issued, spent, wanted, lost>>
      BY <1>1 DEF Starts, Harm, calls, tokens
    <3>2. QED
      BY <1>0, <1>1, <3>1, Unharmed
  <2>2. Parsed' = Parsed /\ file' # Torn
    BY <1>0, <2>1, CreatedFile
  <2>3. Ahead' = Ahead
    BY <2>1 DEF Ahead
  <2>4. QED
    BY <1>0, <1>l, <2>1, <2>2, <2>3, KeptFrame
<1>2. ASSUME NEW c \in Calls, TimesOut(c) \/ Releases(c) PROVE Kept'
  <2>1. /\ pc' = [pc EXCEPT ![c] = "done"] /\ pc[c] \in {"lock", "release"} /\ Forgets({c})
        /\ UNCHANGED <<file, op, issued, spent, wanted>>
    BY <1>2 DEF TimesOut, Releases, tokens
  <2>2. /\ pc'[c] = "done" /\ \A d \in Calls \ {c} : pc'[d] = pc[d]
        /\ \A d \in Calls \ {c} : given'[d] = given[d] /\ next'[d] = next[d]
    BY <2>1 DEF Forgets, TypeInv, TypeOK
  <2>3. Ahead' = Ahead /\ lost' = {} /\ Parsed' = Parsed /\ file' # Torn
    BY <1>0, <1>l, <2>1, <2>2 DEF Ahead, Forgets, Parsed, Kept
  <2>4. \A d \in Calls :
           \/ pc'[d] \in {"idle", "release", "done", "dead"}
           \/ /\ pc'[d] = pc[d] /\ op'[d] = op[d] /\ given'[d] = given[d] /\ next'[d] = next[d]
    BY <2>1, <2>2
  <2>5. QED
    BY <1>0, <2>1, <2>3, <2>4, KeptFrame
<1>3. ASSUME NEW c \in Calls, RefreshFails(c) PROVE Kept'
  <2>1. /\ pc' = [pc EXCEPT ![c] = "release"] /\ pc[c] = "refreshing"
        /\ UNCHANGED <<file, op, given, next, issued, spent, wanted, lost>>
    BY <1>3 DEF RefreshFails, calls, tokens, theft
  <2>2. pc'[c] = "release" /\ \A d \in Calls \ {c} : pc'[d] = pc[d]
    BY <2>1 DEF TypeInv, TypeOK
  <2>3. Ahead' = Ahead /\ lost' = {} /\ Parsed' = Parsed /\ file' # Torn
    BY <1>0, <1>l, <2>1, <2>2 DEF Ahead, Parsed, Kept
  <2>4. \A d \in Calls :
           \/ pc'[d] \in {"idle", "release", "done", "dead"}
           \/ /\ pc'[d] = pc[d] /\ op'[d] = op[d] /\ given'[d] = given[d] /\ next'[d] = next[d]
    BY <2>1, <2>2
  <2>5. QED
    BY <1>0, <2>1, <2>3, <2>4, KeptFrame
<1>4. ASSUME NEW p \in Processes, Crash(p) PROVE Kept'
  <2> DEFINE own == {c \in Calls : Owner[c] = p /\ pc[c] \notin {"idle", "done"}}
  <2>1. /\ pc' = [c \in Calls |-> IF c \in own THEN "dead" ELSE pc[c]]
        /\ Forgets(own) /\ \A c \in own : pc[c] \notin {"write", "writing"}
        /\ UNCHANGED <<op, issued, spent, wanted>>
    BY <1>4 DEF Crash, tokens
  <2>2. file' = file
    BY <1>4, <2>1 DEF Crash
  <2>3. own \in SUBSET Calls
    OBVIOUS
  <2> HIDE DEF own
  <2>4. \A d \in Calls : IF d \in own THEN pc'[d] = "dead"
                         ELSE pc'[d] = pc[d] /\ given'[d] = given[d] /\ next'[d] = next[d]
    BY <2>1 DEF Forgets
  <2>5. Ahead' = Ahead /\ lost' = {} /\ Parsed' = Parsed /\ file' # Torn
    BY <1>0, <1>l, <2>1, <2>2, <2>4 DEF Ahead, Forgets, Parsed, Kept
  <2>6. \A d \in Calls :
           \/ pc'[d] \in {"idle", "release", "done", "dead"}
           \/ /\ pc'[d] = pc[d] /\ op'[d] = op[d] /\ given'[d] = given[d] /\ next'[d] = next[d]
    BY <2>1, <2>4
  <2>7. QED
    BY <1>0, <2>1, <2>5, <2>6, KeptFrame
<1>5. ASSUME UNCHANGED <<file, pc, op, given, next, issued, spent, wanted, lost>> PROVE Kept'
  <2>1. Ahead' = Ahead /\ lost' = {} /\ Parsed' = Parsed /\ file' # Torn
    BY <1>0, <1>l, <1>5 DEF Ahead, Parsed, Kept
  <2>2. QED
    BY <1>0, <1>5, <2>1, KeptFrame
<1>6. ASSUME (\E t \in Token : Lapses(t)) \/ (\E p \in Processes : FindsNone(p))
      PROVE  UNCHANGED <<file, pc, op, given, next, issued, spent, wanted, lost>>
  BY <1>6 DEF Lapses, FindsNone, calls, tokens, theft
<1>7. UNCHANGED vars => UNCHANGED <<file, pc, op, given, next, issued, spent, wanted, lost>>
  BY DEF vars, calls, tokens, theft
<1>8. ASSUME NEW c \in Calls,
             Steals(c) \/ Notices(c) \/ AnswerLost(c) \/ WriteFails(c) \/ GivesUp(c)
      PROVE  FALSE
  BY <1>l, <1>8 DEF Steals, Notices, AnswerLost, WriteFails, GivesUp, Harm
<1>9. ASSUME NEW c \in Calls,
             \/ Calling(c) \/ Acquires(c) \/ Refreshes(c)
             \/ WriteBegins(c) \/ WriteEnds(c)
      PROVE  Kept'
  BY <1>0, <1>9, KeptCalling, KeptAcquires, KeptRefreshes, KeptWrites
<1>10. QED
  BY <1>1, <1>2, <1>3, <1>4, <1>5, <1>6, <1>7, <1>8, <1>9 DEF Next, CallStep, FaultStep

CredentialInv == TypeInv /\ LockExcludes /\ KeptInv

\* The inductive invariant: types, the exclusive lock, and credentials that are kept unless harm was done.
LEMMA CredentialsKept == Spec => []CredentialInv
<1>1. Init => CredentialInv
  BY TypeInit, LockInit, KeptInit DEF CredentialInv, KeptInv
<1>2. CredentialInv /\ [Next]_vars => CredentialInv'
  BY TypeNext, LockNext, KeptNext DEF CredentialInv
<1>3. QED
  BY <1>1, <1>2, PTL DEF Spec

\* What is stored is what the one writing call writes, or else what the file says.
LEMMA StoredIs ==
  ASSUME CredentialInv, ~harmed
  PROVE  /\ \A c \in Calls : pc[c] = "writing" => Stored = next[c]
         /\ (\A c \in Calls : pc[c] # "writing") => Stored = Parsed
<1>1. ASSUME NEW c \in Calls, pc[c] = "writing" PROVE Stored = next[c]
  <2>1. \A d \in Calls : pc[d] = "writing" => d = c
    BY <1>1, OneAhead DEF CredentialInv, Locked
  <2>2. (CHOOSE d \in Calls : pc[d] = "writing") = c
    BY <1>1, <2>1
  <2>3. QED
    BY <1>1, <2>2 DEF Stored
<1>2. file # Torn
  BY DEF CredentialInv, KeptInv, Kept
<1>3. QED
  BY <1>1, <1>2 DEF Stored

\* As long as no fault has done harm, a token that the provider has taken is not presented
\* again, and the newest token of every login is stored or about to be, whatever processes
\* log in, log out, refresh, time out and crash in whatever order.
THEOREM TokensServe == Spec => []TokensAreKept
<1>1. CredentialInv => NoDoubleRefresh
  <2> SUFFICES ASSUME CredentialInv, ~harmed, NEW c \in Calls, pc[c] = "refreshing"
               PROVE  Presented(c) \notin spent
    BY DEF NoDoubleRefresh
  <2>1. Ahead = {}
    BY OneAhead DEF CredentialInv, Ahead, Locked
  <2>2. next[c] = Parsed /\ SoundNow(Parsed)
    BY <2>1 DEF CredentialInv, KeptInv, Kept, AsRead
  <2>3. Presented(c) \in Token /\ About[c] \in Providers
    <3>1. Presented(c) \in 1..issued /\ issued \in 0..MaxTokens
      BY DEF CredentialInv, TypeInv, TypeOK, PresentsLapsed
    <3>2. QED
      BY <3>1, AuthStorageAssumption
  <2>4. QED
    BY <2>2, <2>3 DEF SoundNow, Sound, Presented
<1>2. CredentialInv => GrantKept
  <2> SUFFICES ASSUME CredentialInv, ~harmed, NEW t \in wanted
               PROVE  \/ \E q \in Providers : Stored[q] = t
                      \/ \E c \in Calls : pc[c] = "write" /\ Presented(c) = t
    BY DEF GrantKept
  <2>1. Kept
    BY DEF CredentialInv, KeptInv
  <2>2. ASSUME NEW c \in Calls, pc[c] = "writing" PROVE \E q \in Providers : Stored[q] = t
    <3>1. SoundNow(next[c]) /\ Stored = next[c]
      BY <2>1, <2>2, StoredIs DEF Kept, Ahead
    <3>2. QED
      BY <3>1 DEF SoundNow, Sound
  <2>3. ASSUME NEW c \in Calls, pc[c] = "write"
        PROVE  (\E q \in Providers : Stored[q] = t) \/ Presented(c) = t
    <3>1. SoundNow(next[c]) /\ \A q \in Providers \ {About[c]} : next[c][q] = Parsed[q]
      BY <2>1, <2>3 DEF Kept, Ahead, AsRead
    <3>2. PICK q \in Providers : next[c][q] = t
      BY <3>1 DEF SoundNow, Sound
    <3>3. \A d \in Calls : pc[d] # "writing"
      BY <2>3, OneAhead DEF CredentialInv, Locked
    <3>4. Stored = Parsed
      BY <3>3, StoredIs
    <3>5. QED
      BY <3>1, <3>2, <3>4 DEF Presented
  <2>4. CASE Ahead = {}
    <3>1. SoundNow(Parsed) /\ Stored = Parsed
      BY <2>1, <2>4, StoredIs DEF Kept, Ahead
    <3>2. QED
      BY <3>1 DEF SoundNow, Sound
  <2>5. QED
    BY <2>2, <2>3, <2>4 DEF Ahead
<1>3. QED
  BY <1>1, <1>2, CredentialsKept, PTL DEF TokensAreKept

\* The file changes when a write begins, and then for the provider of the call.
LEMMA StoredChanges ==
  ASSUME CredentialInv, CredentialInv', [Next]_vars, ~harmed'
  PROVE  \/ Stored' = Stored
         \/ \E c \in Calls : /\ Writes(c) /\ pc[c] = "write" /\ Stored = Parsed
                             /\ Stored' = next[c] /\ AsRead(c)
<1>0. ~harmed
  BY DEF Next, CallStep, FaultStep, Starts, Calling, Lapses, FindsNone, TimesOut, Acquires, Steals,
         Notices, Refreshes, RefreshFails, AnswerLost, GivesUp, WriteBegins, WriteEnds, WriteFails,
         Releases, Crash, Harm, vars
<1>k. Kept /\ Kept' /\ TypeOK /\ TypeOK'
  BY <1>0 DEF CredentialInv, KeptInv, TypeInv
<1>s. /\ \A c \in Calls : pc'[c] = "writing" => Stored' = next'[c]
      /\ (\A c \in Calls : pc'[c] # "writing") => Stored' = Parsed'
  <2>1. (CredentialInv /\ ~harmed =>
          /\ \A c \in Calls : pc[c] = "writing" => Stored = next[c]
          /\ (\A c \in Calls : pc[c] # "writing") => Stored = Parsed)'
    BY StoredIs, PTL
  <2>2. QED
    BY <2>1
<1>1. ASSUME Parsed' = Parsed,
             \A c \in Calls : pc'[c] = "writing" <=> pc[c] = "writing",
             \A c \in Calls : pc[c] = "writing" => next'[c] = next[c]
      PROVE  Stored' = Stored
  <2>1. CASE \E c \in Calls : pc[c] = "writing"
    BY <1>0, <1>1, <1>s, <2>1, StoredIs
  <2>2. CASE \A c \in Calls : pc[c] # "writing"
    BY <1>0, <1>1, <1>s, <2>2, StoredIs
  <2>3. QED
    BY <2>1, <2>2
<1>2. ASSUME NEW c \in Calls, WriteBegins(c)
      PROVE  /\ Writes(c) /\ pc[c] = "write" /\ Stored = Parsed /\ Stored' = next[c] /\ AsRead(c)
  <2>1. pc[c] = "write" /\ pc'[c] = "writing" /\ next' = next
    BY <1>2, <1>k DEF WriteBegins, TypeOK
  <2>2. \A d \in Calls : pc[d] # "writing"
    BY <1>0, <2>1, OneAhead DEF CredentialInv, Locked
  <2>3. QED
    BY <1>0, <1>k, <1>s, <2>1, <2>2, StoredIs DEF Writes, Kept
<1>3. ASSUME NEW c \in Calls, WriteEnds(c) PROVE Stored' = Stored
  <2>1. /\ pc[c] = "writing" /\ pc'[c] = "release" /\ file' = next[c]
        /\ \A d \in Calls \ {c} : pc'[d] = pc[d]
    BY <1>3, <1>k DEF WriteEnds, TypeOK
  <2>2. \A d \in Calls : pc'[d] # "writing"
    BY <1>0, <2>1, OneAhead DEF CredentialInv, Locked
  <2>3. Parsed' = next[c]
    <3>1. next[c] \in Content
      BY <1>k DEF TypeOK
    <3>2. QED
      BY <2>1, <3>1, FileAssumption DEF Parsed
  <2>4. QED
    BY <1>0, <1>s, <2>1, <2>2, <2>3, StoredIs
<1>4. ASSUME NEW c \in Calls,
             \/ Calling(c) \/ TimesOut(c) \/ Acquires(c) \/ Refreshes(c) \/ RefreshFails(c) \/ Releases(c)
      PROVE  Stored' = Stored
  <2>1. file' = file /\ pc'[c] # "writing" /\ pc[c] # "writing"
        /\ \A d \in Calls \ {c} : pc'[d] = pc[d]
    BY <1>4, <1>k DEF Calling, TimesOut, Acquires, Enters, Refreshes, RefreshFails, Releases, TypeOK
  <2>2. \A d \in Calls \ {c} : next'[d] = next[d]
    BY <1>4, <1>k DEF Calling, TimesOut, Acquires, Enters, Refreshes, RefreshFails, Releases, Forgets, TypeOK
  <2>3. QED
    BY <1>1, <2>1, <2>2 DEF Parsed
<1>5. ASSUME NEW p \in Processes, FindsNone(p) PROVE Stored' = Stored
  <2>1. pc' = pc /\ next' = next /\ file' = file
    BY <1>5 DEF FindsNone, calls
  <2>2. QED
    BY <1>1, <2>1 DEF Parsed
<1>6. ASSUME NEW p \in Processes, Starts(p) PROVE Stored' = Stored
  <2>1. /\ pc' = pc /\ next' = next
        /\ file' = file \/ (file \in {Absent, Nothing} /\ file' = Nothing)
    BY <1>k, <1>6, Unharmed DEF Starts
  <2>2. Parsed' = Parsed
    BY <1>k, <2>1, CreatedFile
  <2>3. QED
    BY <1>1, <2>1, <2>2
<1>7. ASSUME NEW p \in Processes, Crash(p) PROVE Stored' = Stored
  <2> DEFINE own == {c \in Calls : Owner[c] = p /\ pc[c] \notin {"idle", "done"}}
  <2>1. /\ pc' = [c \in Calls |-> IF c \in own THEN "dead" ELSE pc[c]]
        /\ Forgets(own) /\ \A c \in own : pc[c] \notin {"write", "writing"}
    BY <1>7 DEF Crash
  <2>2. file' = file
    BY <1>7, <2>1 DEF Crash
  <2>3. own \in SUBSET Calls
    OBVIOUS
  <2> HIDE DEF own
  <2>4. /\ \A c \in Calls : pc'[c] = "writing" <=> pc[c] = "writing"
        /\ \A c \in Calls : pc[c] = "writing" => next'[c] = next[c]
    BY <2>1 DEF Forgets
  <2>5. QED
    BY <1>1, <2>2, <2>4 DEF Parsed
<1>8. ASSUME UNCHANGED <<file, pc, next>> PROVE Stored' = Stored
  BY <1>1, <1>8 DEF Parsed
<1>9. ASSUME NEW t \in Token, Lapses(t) PROVE UNCHANGED <<file, pc, next>>
  BY <1>9 DEF Lapses
<1>10. ASSUME NEW c \in Calls, Notices(c) PROVE UNCHANGED <<file, pc, next>>
  BY <1>10 DEF Notices
<1>11. UNCHANGED vars => UNCHANGED <<file, pc, next>>
  BY DEF vars
<1>12. ASSUME NEW c \in Calls, Steals(c) \/ AnswerLost(c) \/ WriteFails(c) \/ GivesUp(c) PROVE FALSE
  BY <1>k, <1>12 DEF Steals, AnswerLost, WriteFails, GivesUp, Harm, Kept, TypeOK
<1>13. QED
  BY <1>2, <1>3, <1>4, <1>5, <1>6, <1>7, <1>8, <1>9, <1>10, <1>11, <1>12 DEF Next, CallStep, FaultStep

\* A write changes what is stored for the provider of its call and nothing else, and only a
\* login stores a credential where there was none.
THEOREM WritesMerge == Spec => WritesAreMerged
<1>1. CredentialInv /\ CredentialInv' /\ [Next]_vars =>
        [harmed' \/ \A q \in Providers :
           Stored'[q] # Stored[q] => \E c \in Calls : Writes(c) /\ About[c] = q]_vars
  <2> SUFFICES ASSUME CredentialInv, CredentialInv', [Next]_vars, ~harmed',
                      NEW q \in Providers, Stored'[q] # Stored[q]
               PROVE  \E c \in Calls : Writes(c) /\ About[c] = q
    OBVIOUS
  <2>1. PICK c \in Calls : Writes(c) /\ pc[c] = "write" /\ Stored = Parsed /\ Stored' = next[c] /\ AsRead(c)
    BY StoredChanges
  <2>2. About[c] = q
    BY <2>1 DEF AsRead
  <2>3. QED
    BY <2>1, <2>2
<1>2. CredentialInv /\ CredentialInv' /\ [Next]_vars =>
        [harmed' \/ \A q \in Providers :
           Stored[q] = None /\ Stored'[q] # None =>
             \E c \in Calls : Writes(c) /\ op[c] = "login" /\ About[c] = q]_vars
  <2> SUFFICES ASSUME CredentialInv, CredentialInv', [Next]_vars, ~harmed',
                      NEW q \in Providers, Stored[q] = None, Stored'[q] # None
               PROVE  \E c \in Calls : Writes(c) /\ op[c] = "login" /\ About[c] = q
    OBVIOUS
  <2>1. PICK c \in Calls : Writes(c) /\ pc[c] = "write" /\ Stored = Parsed /\ Stored' = next[c] /\ AsRead(c)
    BY StoredChanges
  <2>2. About[c] = q
    BY <2>1 DEF AsRead
  <2>3. op[c] = "login"
    BY <2>1, <2>2 DEF AsRead, CredentialInv, TypeInv, TypeOK
  <2>4. QED
    BY <2>1, <2>2, <2>3
<1>3. QED
  BY <1>1, <1>2, CredentialsKept, PTL DEF Spec, WritesAreMerged, OthersKept, StaysOut
=============================================================================
