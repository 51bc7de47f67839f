----------------------------- MODULE ServiceInfo -----------------------------
(***************************************************************************)
(* The book-keeping the scheduler holds for one service                    *)
(* (SServiceRecoveryInfo) and the registry m_MapServiceInfo, a function    *)
(* from the registered service names to that book-keeping, as pure         *)
(* operators.  The state machines of the project apply them under the      *)
(* locks the code takes.                                                   *)
(*                                                                         *)
(* pid and recoveryInterval are left out: the code never assigns the first *)
(* and never reads the second.                                             *)
(***************************************************************************)
EXTENDS Integers, Sequences, Functions

CONSTANTS
  ServiceNames, \* the names g_MapServiceNames holds
  Int8Max       \* the largest int8_t: 127 in the build

ASSUME Int8Assumption == Int8Max \in Nat \ {0}

RecoveryState == {"RESTART", "STOP", "DISABLE", "CRASHED", "UNKNOWN"}

DefaultActions == <<"RESTART", "RESTART", "STOP", "DISABLE">>

\* static_cast<int8_t>(n), and the result of ++ on an int8_t: modulo 2^8.
Int8(n) == ((n + Int8Max + 1) % (2 * Int8Max + 2)) - Int8Max - 1

-----------------------------------------------------------------------------
(* One service.                                                            *)

Info ==
  [recoveryActions : Seq(RecoveryState), recoveryActionCount : Int,
   crashCount : Nat, isOnline : BOOLEAN,
   currentRecoveryState : RecoveryState, lastAction : RecoveryState]

\* A fresh entry: an empty policy is replaced by the default one, and the
\* cursor stands before the first action.
Fresh(actions) ==
  [recoveryActions      |-> IF actions = <<>> THEN DefaultActions ELSE actions,
   recoveryActionCount  |-> -1,
   crashCount           |-> 0,
   isOnline             |-> TRUE,
   currentRecoveryState |-> "UNKNOWN",
   lastAction           |-> "UNKNOWN"]

\* What recoveryActions[static_cast<size_t>(i)] may read, i counted from 0.
\* Outside the vector it is some byte of the heap: one that is no enumerator
\* is treated by every switch of the code as UNKNOWN is.
ActionAt(actions, i) ==
  IF i \in 0 .. Len(actions) - 1 THEN {actions[i + 1]} ELSE RecoveryState

AdvanceCursorEndMutant(cursor, size) ==
  LET next == Int8(cursor + 1) IN IF next = Int8(size + 1) THEN 0 ELSE next

\* The cursor after a failure: incremented, wrapped to the first action when it
\* reaches the (narrowed) length of the policy.
AdvanceCursor(cursor, size) ==
  LET next == Int8(cursor + 1) IN IF next = Int8(size) THEN 0 ELSE next

PeekCursorMutant(cursor, size) ==
  IF cursor + 1 > Int8(size) THEN 0 ELSE Int8(cursor + 1)

\* The index getServiceState previews, computed on its own from the cursor.
PeekCursor(cursor, size) ==
  IF cursor + 1 >= Int8(size) THEN 0 ELSE Int8(cursor + 1)

\* The entries a failure may leave (one, unless the read above is wild): all
\* but the policy changes.
Failed(info) ==
  LET cursor == AdvanceCursor(info.recoveryActionCount, Len(info.recoveryActions))
  IN  {[recoveryActions      |-> info.recoveryActions,
        recoveryActionCount  |-> cursor,
        crashCount           |-> info.crashCount + 1,
        isOnline             |-> FALSE,
        currentRecoveryState |-> action,
        lastAction           |-> "CRASHED"] :
         action \in ActionAt(info.recoveryActions, cursor)}

ReportedOnlineMutant(info, current, last) ==
  [info EXCEPT !.isOnline = TRUE, !.currentRecoveryState = current,
               !.lastAction = IF last # "UNKNOWN" THEN last ELSE @]
ReportedClobberMutant(info, current, last) ==
  [info EXCEPT !.currentRecoveryState = current, !.lastAction = last]

\* A state push; UNKNOWN as last action leaves the tracked one alone.
Reported(info, current, last) ==
  [info EXCEPT !.currentRecoveryState = current,
               !.lastAction = IF last # "UNKNOWN" THEN last ELSE @]

\* The actions a query may announce for the next failure.
NextActions(info) ==
  IF info.recoveryActions = <<>>
  THEN {"UNKNOWN"}
  ELSE ActionAt(info.recoveryActions,
                PeekCursor(info.recoveryActionCount, Len(info.recoveryActions)))

-----------------------------------------------------------------------------
(* The registry.                                                           *)

\* Complete entries of services of the catalogue.
IsRegistry(map) ==
  /\ DOMAIN map \subseteq ServiceNames
  /\ map \in [DOMAIN map -> Info]

EmplaceForgottenMutant(map, s, info) == map

\* emplace: an entry that is already there stays as it is.
Emplace(map, s, info) ==
  [x \in DOMAIN map \cup {s} |-> IF x \in DOMAIN map THEN map[x] ELSE info]

Erase(map, s) == Restrict(map, DOMAIN map \ {s})

\* onRegisterService accepts a name it tracks or one of the catalogue.
Accepts(map, s) == s \in DOMAIN map \cup ServiceNames

RegisteredUncheckedMutant(map, s, actions) ==
  IF s \in DOMAIN map THEN [map EXCEPT ![s].isOnline = TRUE]
  ELSE Emplace(map, s, Fresh(actions))

RegisteredRewindMutant(map, s, actions) ==
  IF s \in DOMAIN map
  THEN [map EXCEPT ![s].isOnline = TRUE, ![s].recoveryActionCount = -1]
  ELSE IF s \in ServiceNames THEN Emplace(map, s, Fresh(actions))
  ELSE map

\* The registry after onRegisterService: a tracked service comes back online
\* with its policy and counters, a new one of the catalogue gets a fresh entry.
Registered(map, s, actions) ==
  IF s \in DOMAIN map THEN [map EXCEPT ![s].isOnline = TRUE]
  ELSE IF s \in ServiceNames THEN Emplace(map, s, Fresh(actions))
  ELSE map

\* The registries onServiceFailure may leave.
AfterFailure(map, s) ==
  IF s \in DOMAIN map THEN {[map EXCEPT ![s] = info] : info \in Failed(map[s])}
  ELSE {map}

\* The registry after onReportServiceState.
AfterReport(map, s, current, last) ==
  IF s \in DOMAIN map THEN [map EXCEPT ![s] = Reported(@, current, last)] ELSE map

\* A default-constructed SServiceSnapshot.
NotFound ==
  [found |-> FALSE, isOnline |-> FALSE, lastAction |-> "UNKNOWN",
   currentAction |-> "UNKNOWN", nextAction |-> "UNKNOWN", attemptCount |-> 0]

\* What getServiceState may return.
Snapshots(map, s) ==
  IF s \notin DOMAIN map THEN {NotFound}
  ELSE {[found |-> TRUE, isOnline |-> map[s].isOnline,
         lastAction |-> map[s].lastAction,
         currentAction |-> map[s].currentRecoveryState,
         nextAction |-> next, attemptCount |-> map[s].crashCount] :
          next \in NextActions(map[s])}
=============================================================================
