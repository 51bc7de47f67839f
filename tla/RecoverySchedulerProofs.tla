----------------------- MODULE RecoverySchedulerProofs -----------------------
(***************************************************************************)
(* Proofs about RecoveryScheduler, for every catalogue, every set of       *)
(* callers, policies and pushed states, and every width of the cursor.     *)
(***************************************************************************)
EXTENDS RecoveryScheduler, ServiceInfoProofs, TLAPS

\* A narrowing conversion keeps what fits.
LEMMA Int8Keeps ==
  ASSUME NEW n \in Int, -Int8Max - 1 <= n, n <= Int8Max
  PROVE  Int8(n) = n
<1> DEFINE a == n + Int8Max + 1
           b == 2 * Int8Max + 2
<1>1. a \in Int /\ b \in Int /\ 0 <= a /\ a < b
  BY Int8Assumption
<1>2. ASSUME NEW x \in Int, NEW y \in Int, 0 <= x, x < y
      PROVE  x % y = x
  BY <1>2
<1>3. a % b = a
  BY <1>1, <1>2
<1> QED BY <1>3, Int8Assumption DEF Int8
-----------------------------------------------------------------------------
(* One step of the registry, seen from one entry.                          *)

\* What a call may have done to the entry of s.
EntryStep(s) ==
  \/ /\ s \in DOMAIN m_MapServiceInfo
     /\ \/ m_MapServiceInfo'[s] = m_MapServiceInfo[s]
        \/ m_MapServiceInfo'[s] = [m_MapServiceInfo[s] EXCEPT !.isOnline = TRUE]
        \/ m_MapServiceInfo'[s] \in Failed(m_MapServiceInfo[s])
        \/ \E current, last \in Reports :
             m_MapServiceInfo'[s] = Reported(m_MapServiceInfo[s], current, last)
  \/ /\ s \in ServiceNames \ DOMAIN m_MapServiceInfo
     /\ \E actions \in Policies : m_MapServiceInfo'[s] = Fresh(actions)

\* Every call leaves a function, and changes each entry in one of those ways.
LEMMA StepByEntry ==
  ASSUME TypeOK, [Next]_vars
  PROVE  /\ \A s \in DOMAIN m_MapServiceInfo' : EntryStep(s)
         /\ m_MapServiceInfo' =
              [s \in DOMAIN m_MapServiceInfo' |-> m_MapServiceInfo'[s]]
         /\ DOMAIN reply' = Callers
<1> USE DEF TypeOK, IsRegistry
<1>1. CASE UNCHANGED vars
  BY <1>1 DEF vars, EntryStep
<1>2. ASSUME NEW t \in Callers, NEW s \in Names, NEW actions \in Policies,
             onRegisterService(t, s, actions)
      PROVE  /\ \A x \in DOMAIN m_MapServiceInfo' : EntryStep(x)
             /\ m_MapServiceInfo' =
                  [x \in DOMAIN m_MapServiceInfo' |-> m_MapServiceInfo'[x]]
             /\ DOMAIN reply' = Callers
  <2>1. DOMAIN reply' = Callers
    BY <1>2 DEF onRegisterService, Answer
  <2>2. CASE s \in DOMAIN m_MapServiceInfo
    BY <1>2, <2>1, <2>2 DEF onRegisterService, Registered, EntryStep
  <2>3. CASE s \in ServiceNames \ DOMAIN m_MapServiceInfo
    BY <1>2, <2>1, <2>3 DEF onRegisterService, Registered, Emplace, EntryStep
  <2>4. CASE s \notin ServiceNames /\ s \notin DOMAIN m_MapServiceInfo
    BY <1>2, <2>1, <2>4 DEF onRegisterService, Registered, EntryStep
  <2> QED BY <2>2, <2>3, <2>4
<1>3. ASSUME NEW t \in Callers, NEW s \in Names, onUnregisterService(t, s)
      PROVE  /\ \A x \in DOMAIN m_MapServiceInfo' : EntryStep(x)
             /\ m_MapServiceInfo' =
                  [x \in DOMAIN m_MapServiceInfo' |-> m_MapServiceInfo'[x]]
             /\ DOMAIN reply' = Callers
  BY <1>3 DEF onUnregisterService, Answer, Erase, Restrict, EntryStep
<1>4. ASSUME NEW t \in Callers, NEW s \in Names,
             NEW current \in Reports, NEW last \in Reports,
             onReportServiceState(t, s, current, last)
      PROVE  /\ \A x \in DOMAIN m_MapServiceInfo' : EntryStep(x)
             /\ m_MapServiceInfo' =
                  [x \in DOMAIN m_MapServiceInfo' |-> m_MapServiceInfo'[x]]
             /\ DOMAIN reply' = Callers
  <2>1. DOMAIN reply' = Callers
    BY <1>4 DEF onReportServiceState, Answer
  <2>2. CASE s \in DOMAIN m_MapServiceInfo
    BY <1>4, <2>1, <2>2 DEF onReportServiceState, AfterReport, EntryStep
  <2>3. CASE s \notin DOMAIN m_MapServiceInfo
    BY <1>4, <2>1, <2>3 DEF onReportServiceState, AfterReport, EntryStep
  <2> QED BY <2>2, <2>3
<1>5. ASSUME NEW t \in Callers, NEW s \in Names, onServiceFailure(t, s)
      PROVE  /\ \A x \in DOMAIN m_MapServiceInfo' : EntryStep(x)
             /\ m_MapServiceInfo' =
                  [x \in DOMAIN m_MapServiceInfo' |-> m_MapServiceInfo'[x]]
             /\ DOMAIN reply' = Callers
  <2>1. DOMAIN reply' = Callers
    BY <1>5 DEF onServiceFailure, Answer
  <2>2. CASE s \in DOMAIN m_MapServiceInfo
    <3>1. PICK info \in Failed(m_MapServiceInfo[s]) :
            m_MapServiceInfo' = [m_MapServiceInfo EXCEPT ![s] = info]
      BY <1>5, <2>2 DEF onServiceFailure, AfterFailure
    <3> QED BY <3>1, <2>1, <2>2 DEF EntryStep
  <2>3. CASE s \notin DOMAIN m_MapServiceInfo
    BY <1>5, <2>1, <2>3 DEF onServiceFailure, AfterFailure, EntryStep
  <2> QED BY <2>2, <2>3
<1>6. ASSUME NEW t \in Callers, NEW s \in Names, getServiceState(t, s)
      PROVE  /\ \A x \in DOMAIN m_MapServiceInfo' : EntryStep(x)
             /\ m_MapServiceInfo' =
                  [x \in DOMAIN m_MapServiceInfo' |-> m_MapServiceInfo'[x]]
             /\ DOMAIN reply' = Callers
  BY <1>6 DEF getServiceState, Answer, EntryStep
<1> QED BY <1>1, <1>2, <1>3, <1>4, <1>5, <1>6 DEF Next

-----------------------------------------------------------------------------
(* Type correctness.                                                       *)

\* The registry only ever holds complete entries of services of the catalogue,
\* whatever the callers pass and however long the policies are.
THEOREM TypeCorrect == Spec => []TypeOK
<1>1. Init => TypeOK
  BY DEF Init, TypeOK, IsRegistry
<1>2. TypeOK /\ [Next]_vars => TypeOK'
  <2> SUFFICES ASSUME TypeOK, [Next]_vars PROVE TypeOK'
    OBVIOUS
  <2>1. \A s \in DOMAIN m_MapServiceInfo' : EntryStep(s)
    BY StepByEntry
  <2>2. ASSUME NEW s \in DOMAIN m_MapServiceInfo'
        PROVE  s \in ServiceNames /\ m_MapServiceInfo'[s] \in Info
    <3>1. CASE s \in DOMAIN m_MapServiceInfo
      <4>1. m_MapServiceInfo[s] \in Info /\ s \in ServiceNames
        BY <3>1 DEF TypeOK, IsRegistry
      <4>2. [m_MapServiceInfo[s] EXCEPT !.isOnline = TRUE] \in Info
        BY <4>1 DEF Info
      <4>3. Reports \subseteq RecoveryState
        BY SchedulerAssumption
      <4>4. \A current, last \in Reports :
              Reported(m_MapServiceInfo[s], current, last) \in Info
        BY <4>1, <4>3, ReportedInfo
      <4> QED BY <2>1, <3>1, <4>1, <4>2, <4>4, FailedInfo DEF EntryStep
    <3>2. CASE s \notin DOMAIN m_MapServiceInfo
      BY <2>1, <3>2, FreshInfo, SchedulerAssumption DEF EntryStep
    <3> QED BY <3>1, <3>2
  <2> QED BY <2>2, StepByEntry DEF TypeOK, IsRegistry
<1> QED BY <1>1, <1>2, PTL DEF Spec
-----------------------------------------------------------------------------
(* What a crash leaves behind.                                             *)

\* A counted crash is never clobbered by a later registration or state push,
\* whatever the policies.
THEOREM CrashStaysRemembered == Spec => []CrashIsRemembered
<1> USE DEF CrashIsRemembered
<1>1. Init => CrashIsRemembered
  BY DEF Init
<1>2. TypeOK /\ CrashIsRemembered /\ [Next]_vars => CrashIsRemembered'
  <2> SUFFICES ASSUME TypeOK, CrashIsRemembered, [Next]_vars,
                      NEW s \in DOMAIN m_MapServiceInfo'
               PROVE  m_MapServiceInfo'[s].crashCount > 0
                        => m_MapServiceInfo'[s].lastAction # "UNKNOWN"
    OBVIOUS
  <2>1. EntryStep(s)
    BY StepByEntry
  <2>2. CASE s \notin DOMAIN m_MapServiceInfo
    BY <2>1, <2>2 DEF EntryStep, Fresh
  <2>3. CASE s \in DOMAIN m_MapServiceInfo
    <3> DEFINE info == m_MapServiceInfo[s]
    <3>1. info \in Info
      BY <2>3 DEF TypeOK, IsRegistry
    <3>2. CASE m_MapServiceInfo'[s] \in {info, [info EXCEPT !.isOnline = TRUE]}
      BY <2>3, <3>1, <3>2 DEF Info
    <3>3. CASE m_MapServiceInfo'[s] \in Failed(info)
      BY <3>3 DEF Failed
    <3>4. CASE \E current, last \in Reports :
                 m_MapServiceInfo'[s] = Reported(info, current, last)
      BY <2>3, <3>1, <3>4 DEF Reported, Info
    <3> QED BY <2>1, <2>3, <3>2, <3>3, <3>4 DEF EntryStep
  <2> QED BY <2>2, <2>3
<1> QED BY <1>1, <1>2, TypeCorrect, PTL DEF Spec

\* What a step may do to isOnline of s.
OnlineStep(s) ==
  LET old == m_MapServiceInfo[s]
      new == m_MapServiceInfo'[s]
  IN  /\ old.isOnline /\ ~ new.isOnline => new.crashCount = old.crashCount + 1
      /\ ~ old.isOnline /\ new.isOnline =>
           /\ new = [old EXCEPT !.isOnline = TRUE]
           /\ \E t \in Callers : reply'[t].op = "register" /\ reply'[t].service = s

\* An entry that keeps its isOnline says nothing of the call.
LEMMA SameOnline ==
  ASSUME NEW s, m_MapServiceInfo'[s].isOnline = m_MapServiceInfo[s].isOnline
  PROVE  OnlineStep(s)
  BY DEF OnlineStep

\* A push, a query and a withdrawal leave isOnline alone, a failure counts what it
\* takes offline, and a registration writes isOnline and nothing else.
THEOREM OnlineOnlyByCalls == Spec => OnlineFollowsCalls
<1>1. ASSUME TypeOK, Next, NEW s \in DOMAIN m_MapServiceInfo \cap DOMAIN m_MapServiceInfo'
      PROVE  OnlineStep(s)
  <2>1. m_MapServiceInfo[s] \in Info
    BY <1>1 DEF TypeOK, IsRegistry
  <2>2. ASSUME NEW t \in Callers, NEW x \in Names, NEW actions \in Policies,
               onRegisterService(t, x, actions)
        PROVE  OnlineStep(s)
    <3>1. CASE x # s
      <4>1. m_MapServiceInfo'[s] = m_MapServiceInfo[s]
        BY <1>1, <2>2, <3>1 DEF onRegisterService, Registered, Emplace
      <4> QED BY <4>1, SameOnline
    <3>2. CASE x = s
      <4>1. m_MapServiceInfo'[s] = [m_MapServiceInfo[s] EXCEPT !.isOnline = TRUE]
        BY <1>1, <2>1, <2>2, <3>2 DEF onRegisterService, Registered
      <4>2. m_MapServiceInfo'[s].isOnline = TRUE
        BY <2>1, <4>1 DEF Info
      <4>3. reply'[t].op = "register" /\ reply'[t].service = s
        BY <1>1, <2>2, <3>2 DEF onRegisterService, Answer, TypeOK
      <4> QED BY <4>1, <4>2, <4>3 DEF OnlineStep
    <3> QED BY <3>1, <3>2
  <2>3. ASSUME NEW t \in Callers, NEW x \in Names, onUnregisterService(t, x)
        PROVE  OnlineStep(s)
    <3>1. m_MapServiceInfo'[s] = m_MapServiceInfo[s]
      BY <1>1, <2>3 DEF onUnregisterService, Erase, Restrict
    <3> QED BY <3>1, SameOnline
  <2>4. ASSUME NEW t \in Callers, NEW x \in Names, NEW current \in Reports,
               NEW last \in Reports, onReportServiceState(t, x, current, last)
        PROVE  OnlineStep(s)
    <3>1. m_MapServiceInfo'[s] \in {m_MapServiceInfo[s], Reported(m_MapServiceInfo[s], current, last)}
      BY <1>1, <2>4 DEF onReportServiceState, AfterReport
    <3>2. Reported(m_MapServiceInfo[s], current, last).isOnline = m_MapServiceInfo[s].isOnline
      BY <2>1, ReportedInfo, SchedulerAssumption
    <3> QED BY <3>1, <3>2, SameOnline
  <2>5. ASSUME NEW t \in Callers, NEW x \in Names, onServiceFailure(t, x)
        PROVE  OnlineStep(s)
    <3>1. \/ m_MapServiceInfo'[s] = m_MapServiceInfo[s]
          \/ m_MapServiceInfo'[s] \in Failed(m_MapServiceInfo[s])
      BY <1>1, <2>5 DEF onServiceFailure, AfterFailure
    <3>2. CASE m_MapServiceInfo'[s] \in Failed(m_MapServiceInfo[s])
      <4>1. /\ m_MapServiceInfo'[s].crashCount = m_MapServiceInfo[s].crashCount + 1
            /\ m_MapServiceInfo'[s].isOnline = FALSE
        BY <3>2 DEF Failed
      <4> QED BY <4>1 DEF OnlineStep
    <3> QED BY <3>1, <3>2, SameOnline
  <2>6. ASSUME NEW t \in Callers, NEW x \in Names, getServiceState(t, x)
        PROVE  OnlineStep(s)
    BY <2>6, SameOnline DEF getServiceState
  <2> QED BY <1>1, <2>2, <2>3, <2>4, <2>5, <2>6 DEF Next
<1>2. TypeOK /\ [Next]_vars =>
        [\A s \in DOMAIN m_MapServiceInfo \cap DOMAIN m_MapServiceInfo' : OnlineStep(s)]_vars
  BY <1>1
<1> QED BY <1>2, TypeCorrect, PTL DEF Spec, OnlineFollowsCalls, OnlineStep

-----------------------------------------------------------------------------
(* The cursor.                                                             *)

\* A remainder is determined by any quotient.
LEMMA ModUnique ==
  ASSUME NEW a \in Nat, NEW size \in Nat, size > 0,
         NEW q \in Int, NEW r \in Int, 0 <= r, r < size, a = size * q + r
  PROVE  a % size = r
<1> DEFINE q1 == a \div size
           r1 == a % size
<1>1. q1 \in Int /\ r1 \in Int /\ 0 <= r1 /\ r1 < size /\ a = size * q1 + r1
  OBVIOUS
<1> HIDE DEF q1, r1
<1>2. size * (q - q1) = r1 - r
  BY <1>1
<1>3. CASE q - q1 >= 1
  <2>1. size * (q - q1) >= size
    BY <1>1, <1>3
  <2> QED BY <1>1, <1>2, <2>1
<1>4. CASE q - q1 <= -1
  <2>1. size * (q - q1) <= -size
    BY <1>1, <1>4
  <2> QED BY <1>1, <1>2, <2>1
<1>5. CASE q = q1
  BY <1>1, <1>5 DEF r1
<1> QED BY <1>1, <1>3, <1>4, <1>5

\* The remainder of the next number: it grows by one or starts over.
LEMMA ModSucc ==
  ASSUME NEW n \in Nat, NEW size \in Nat, size > 0
  PROVE  (n + 1) % size = IF (n % size) + 1 = size THEN 0 ELSE (n % size) + 1
<1> DEFINE q == n \div size
           r == n % size
<1>1. q \in Int /\ r \in Int /\ 0 <= r /\ r < size /\ n = size * q + r
  OBVIOUS
<1> HIDE DEF q, r
<1>2. CASE r + 1 = size
  <2>1. n + 1 = size * (q + 1) + 0
    BY <1>1, <1>2
  <2> QED BY <1>1, <1>2, <2>1, ModUnique DEF r
<1>3. CASE r + 1 # size
  <2>1. n + 1 = size * q + (r + 1) /\ r + 1 < size
    BY <1>1, <1>3
  <2> QED BY <1>1, <1>3, <2>1, ModUnique DEF r
<1> QED BY <1>2, <1>3
\* Inside a policy that fits, the two computations of the next index, the one
\* that advances the cursor and the one that previews it, agree.
LEMMA NextIndex ==
  ASSUME NEW size \in 1 .. Int8Max, NEW cursor \in -1 .. size - 1
  PROVE  /\ AdvanceCursor(cursor, size) = IF cursor + 1 = size THEN 0 ELSE cursor + 1
         /\ PeekCursor(cursor, size) = AdvanceCursor(cursor, size)
         /\ AdvanceCursor(cursor, size) \in 0 .. size - 1
<1>1. size \in Int /\ cursor \in Int /\ Int8Max \in Nat
  BY Int8Assumption
<1>2. Int8(size) = size /\ Int8(cursor + 1) = cursor + 1
  BY <1>1, Int8Keeps
<1> QED BY <1>1, <1>2 DEF AdvanceCursor, PeekCursor

\* The inductive invariant about one entry: its policy fits the cursor, and the
\* cursor is where the number of crashes puts it.
CursorOK(info) ==
  /\ Len(info.recoveryActions) \in 1 .. Int8Max
  /\ info.recoveryActionCount =
       IF info.crashCount = 0 THEN -1
       ELSE (info.crashCount - 1) % Len(info.recoveryActions)

CursorInv == \A s \in DOMAIN m_MapServiceInfo : CursorOK(m_MapServiceInfo[s])

\* It puts the cursor inside the policy.
LEMMA CursorOKInRange ==
  ASSUME NEW info \in Info, CursorOK(info)
  PROVE  info.recoveryActionCount \in -1 .. Len(info.recoveryActions) - 1
<1>1. info.crashCount \in Nat /\ Len(info.recoveryActions) \in Nat \ {0}
  BY Int8Assumption DEF Info, CursorOK
<1> QED BY <1>1 DEF CursorOK

\* A fresh entry satisfies it.
LEMMA FreshCursor ==
  ASSUME ShortPolicies, NEW actions \in Policies
  PROVE  CursorOK(Fresh(actions))
<1>1. Len(DefaultActions) = 4
  BY DEF DefaultActions
<1>2. actions \in Seq(RecoveryState) /\ Len(actions) \in Nat
  BY SchedulerAssumption
<1>3. actions # <<>> => Len(actions) > 0
  BY <1>2
<1>4. Len(Fresh(actions).recoveryActions) \in 1 .. Int8Max
  <2>1. CASE actions = <<>>
    <3>1. Fresh(actions).recoveryActions = DefaultActions
      BY <2>1 DEF Fresh
    <3>2. Int8Max >= 4 /\ Int8Max \in Nat
      BY <1>1, Int8Assumption DEF ShortPolicies
    <3>3. Len(Fresh(actions).recoveryActions) = 4
      BY <1>1, <3>1, Zenon
    <3> QED BY <3>2, <3>3
  <2>2. CASE actions # <<>>
    <3>1. Fresh(actions).recoveryActions = actions
      BY <2>2 DEF Fresh
    <3> QED BY <1>2, <1>3, <2>2, <3>1, Int8Assumption DEF ShortPolicies
  <2> QED BY <2>1, <2>2
<1>5. Fresh(actions).crashCount = 0 /\ Fresh(actions).recoveryActionCount = -1
  BY DEF Fresh
<1> QED BY <1>4, <1>5 DEF CursorOK

\* A failure keeps it, and drives the action the entry previewed.
LEMMA FailedCursor ==
  ASSUME NEW info \in Info, CursorOK(info), NEW new \in Failed(info)
  PROVE  /\ CursorOK(new)
         /\ NextActions(info) = {new.currentRecoveryState}
<1> DEFINE size == Len(info.recoveryActions)
           cursor == info.recoveryActionCount
           next == AdvanceCursor(cursor, size)
<1>1. /\ size \in 1 .. Int8Max
      /\ size \in Nat
      /\ size > 0
      /\ cursor \in -1 .. size - 1
      /\ info.crashCount \in Nat
  BY CursorOKInRange, Int8Assumption DEF CursorOK, Info
<1>2. /\ next = IF cursor + 1 = size THEN 0 ELSE cursor + 1
      /\ PeekCursor(cursor, size) = next
      /\ next \in 0 .. size - 1
  BY <1>1, NextIndex
<1>3. PICK action \in ActionAt(info.recoveryActions, next) :
        new = [recoveryActions      |-> info.recoveryActions,
               recoveryActionCount  |-> next,
               crashCount           |-> info.crashCount + 1,
               isOnline             |-> FALSE,
               currentRecoveryState |-> action,
               lastAction           |-> "CRASHED"]
  BY DEF Failed
<1>4. next = info.crashCount % size
  <2>1. CASE info.crashCount = 0
    <3>1. cursor = -1
      BY <2>1 DEF CursorOK
    <3> HIDE DEF size, cursor, next
    <3>2. 0 % size = 0
      <4>1. 0 = size * 0 + 0 /\ 0 \in Nat /\ 0 < size
        BY <1>1
      <4> QED BY <1>1, <4>1, ModUnique
    <3>3. next = 0
      BY <1>1, <1>2, <3>1
    <3> QED BY <2>1, <3>2, <3>3
  <2>2. CASE info.crashCount # 0
    <3>1. cursor = (info.crashCount - 1) % size /\ info.crashCount - 1 \in Nat
      BY <1>1, <2>2 DEF CursorOK
    <3>2. info.crashCount % size = IF cursor + 1 = size THEN 0 ELSE cursor + 1
      <4>1. (info.crashCount - 1) + 1 = info.crashCount
        BY <1>1
      <4> HIDE DEF size, cursor
      <4> QED BY <1>1, <3>1, <4>1, ModSucc
    <3> QED BY <1>2, <3>2
  <2> QED BY <2>1, <2>2
<1>5. CursorOK(new)
  <2>1. /\ new.recoveryActions = info.recoveryActions
        /\ new.crashCount = info.crashCount + 1
        /\ new.recoveryActionCount = next
    BY <1>3
  <2> HIDE DEF next
  <2> QED BY <1>1, <1>4, <2>1 DEF CursorOK
<1>6. ActionAt(info.recoveryActions, next) = {info.recoveryActions[next + 1]}
  BY <1>2 DEF ActionAt
<1>7. NextActions(info) = ActionAt(info.recoveryActions, next)
  BY <1>1, <1>2 DEF NextActions
<1> QED BY <1>3, <1>5, <1>6, <1>7

\* The other calls keep it and the preview too: they leave the policy, the
\* cursor and the count alone.
LEMMA QuietCursor ==
  ASSUME NEW info, NEW new, CursorOK(info),
         new.recoveryActions = info.recoveryActions,
         new.recoveryActionCount = info.recoveryActionCount,
         new.crashCount = info.crashCount
  PROVE  /\ CursorOK(new)
         /\ NextActions(new) = NextActions(info)
  BY DEF CursorOK, NextActions

\* What a step does to the entry of a service that was and is tracked.
LEMMA TrackedStep ==
  ASSUME TypeOK, CursorInv, [Next]_vars,
         NEW s \in DOMAIN m_MapServiceInfo \cap DOMAIN m_MapServiceInfo'
  PROVE  /\ CursorOK(m_MapServiceInfo'[s])
         /\ \/ /\ m_MapServiceInfo'[s].crashCount = m_MapServiceInfo[s].crashCount
               /\ NextActions(m_MapServiceInfo'[s]) = NextActions(m_MapServiceInfo[s])
            \/ /\ m_MapServiceInfo'[s].crashCount = m_MapServiceInfo[s].crashCount + 1
               /\ NextActions(m_MapServiceInfo[s])
                    = {m_MapServiceInfo'[s].currentRecoveryState}
<1> DEFINE info == m_MapServiceInfo[s]
           new  == m_MapServiceInfo'[s]
<1>1. EntryStep(s)
  BY StepByEntry
<1>2. info \in Info /\ CursorOK(info)
  BY DEF TypeOK, IsRegistry, CursorInv
<1>3. CASE new \in Failed(info)
  <2>1. new.crashCount = info.crashCount + 1
    BY <1>3 DEF Failed
  <2> QED BY <1>2, <1>3, <2>1, FailedCursor
<1>4. CASE \/ new \in {info, [info EXCEPT !.isOnline = TRUE]}
           \/ \E current, last \in Reports : new = Reported(info, current, last)
  <2>1. /\ new.recoveryActions = info.recoveryActions
        /\ new.recoveryActionCount = info.recoveryActionCount
        /\ new.crashCount = info.crashCount
    BY <1>2, <1>4 DEF Reported, Info
  <2> HIDE DEF info, new
  <2>2. CursorOK(new) /\ NextActions(new) = NextActions(info)
    BY <1>2, <2>1, QuietCursor
  <2> QED BY <2>1, <2>2 DEF info, new
<1> QED BY <1>1, <1>3, <1>4 DEF EntryStep

\* The strengthened invariant holds when every policy fits the cursor.
LEMMA CursorInvariant == ShortPolicies /\ Spec => []CursorInv
<1> SUFFICES ASSUME ShortPolicies PROVE Spec => []CursorInv
  OBVIOUS
<1>1. Init => CursorInv
  BY DEF Init, CursorInv
<1>2. TypeOK /\ CursorInv /\ [Next]_vars => CursorInv'
  <2> SUFFICES ASSUME TypeOK, CursorInv, [Next]_vars,
                      NEW s \in DOMAIN m_MapServiceInfo'
               PROVE  CursorOK(m_MapServiceInfo'[s])
    BY DEF CursorInv
  <2>1. CASE s \in DOMAIN m_MapServiceInfo
    BY <2>1, TrackedStep
  <2>2. CASE s \notin DOMAIN m_MapServiceInfo
    <3>1. PICK actions \in Policies : m_MapServiceInfo'[s] = Fresh(actions)
      BY <2>2, StepByEntry DEF EntryStep
    <3> QED BY <3>1, FreshCursor
  <2> QED BY <2>1, <2>2
<1> QED BY <1>1, <1>2, TypeCorrect, PTL DEF Spec

\* onServiceFailure and getServiceState never index outside the policy, if the
\* policies are short enough for the cursor.
THEOREM CursorStaysInRange == ShortPolicies /\ Spec => []CursorInRange
<1>1. TypeOK /\ CursorInv => CursorInRange
  BY CursorOKInRange DEF TypeOK, IsRegistry, CursorInv, CursorInRange
<1> QED BY <1>1, CursorInvariant, TypeCorrect, PTL

\* Action i is applied at the i-th recovery attempt, round and round: the cursor
\* is determined by the number of crashes, whatever else the callers did.
THEOREM CursorFollowsCrashes == ShortPolicies /\ Spec => []CursorTracksCrashes
<1>1. CursorInv => CursorTracksCrashes
  BY DEF CursorInv, CursorOK, CursorTracksCrashes
<1> QED BY <1>1, CursorInvariant, PTL

\* The action getServiceState announces is the one the next failure drives, and
\* nothing else changes it.
THEOREM PreviewKept == ShortPolicies /\ Spec => PreviewIsHonoured
<1>1. TypeOK /\ CursorInv /\ [Next]_vars =>
        [\A s \in DOMAIN m_MapServiceInfo \cap DOMAIN m_MapServiceInfo' :
           IF m_MapServiceInfo'[s].crashCount = m_MapServiceInfo[s].crashCount
           THEN NextActions(m_MapServiceInfo'[s]) = NextActions(m_MapServiceInfo[s])
           ELSE NextActions(m_MapServiceInfo[s])
                  = {m_MapServiceInfo'[s].currentRecoveryState}]_vars
  <2> SUFFICES ASSUME TypeOK, CursorInv, [Next]_vars,
                      NEW s \in DOMAIN m_MapServiceInfo \cap DOMAIN m_MapServiceInfo'
               PROVE  IF m_MapServiceInfo'[s].crashCount = m_MapServiceInfo[s].crashCount
                      THEN NextActions(m_MapServiceInfo'[s]) = NextActions(m_MapServiceInfo[s])
                      ELSE NextActions(m_MapServiceInfo[s])
                             = {m_MapServiceInfo'[s].currentRecoveryState}
    OBVIOUS
  <2>1. m_MapServiceInfo[s].crashCount \in Nat
    BY DEF TypeOK, IsRegistry, Info
  <2> QED BY <2>1, TrackedStep
<1> QED BY <1>1, CursorInvariant, TypeCorrect, PTL DEF Spec, PreviewIsHonoured
=============================================================================
