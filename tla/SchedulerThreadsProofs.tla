----------------------- MODULE SchedulerThreadsProofs ------------------------
(***************************************************************************)
(* Proofs about the lock-level model of CRecoveryScheduler and its logger, *)
(* for any number of threads, names, policies and pushed states.           *)
(*                                                                         *)
(* That log lines are whole, and that no query sees half a failure, holds  *)
(* whoever calls what.  That the methods are atomic is proved for the      *)
(* program as it is wired: any number of threads may query, but only one,  *)
(* the dispatch thread, makes the calls that change the registry.  With    *)
(* two such threads it does not hold.                                      *)
(***************************************************************************)
EXTENDS SchedulerThreads, ServiceInfoProofs, FiniteSetTheorems, TLAPS

-----------------------------------------------------------------------------
(* The logger.                                                             *)

\* The inductive invariant: exactly the holder of sMutex is past the lock of
\* write(), what stands on the line is its first piece, and no caller is inside
\* the registry's critical section with a record under way, so that the record
\* logged there replaces none.
LogInv ==
  /\ record \in [Callers -> {"none", "formatted", "locked", "writing"}]
  /\ sMutex \in Callers \cup {NoCaller}
  /\ \A t \in Callers : record[t] \in {"locked", "writing"} <=> sMutex = t
  /\ \/ line = <<>>
     \/ sMutex \in Callers /\ record[sMutex] = "writing" /\ line = <<sMutex>>
  /\ \A t \in Callers : pc[t] = "inside" => record[t] = "none"
  /\ DOMAIN pc = Callers

\* A LOG_* statement of a caller that has no record under way.
LEMMA LogKeeps ==
  ASSUME LogInv, NEW t \in Callers, NEW levels, Quiet(t), Log(t, levels),
         NEW place, place # "inside", Goto(t, place), UNCHANGED sink
  PROVE  LogInv'
<1>1. PICK r \in {"none", "formatted"} : record' = [record EXCEPT ![t] = r]
  BY DEF Log
<1> QED BY <1>1 DEF LogInv, Quiet, Goto, sink

\* The end of a method.
LEMMA FinishLogs ==
  ASSUME LogInv, NEW t \in Callers, NEW r, NEW levels, Quiet(t), Finish(t, r, levels)
  PROVE  LogInv'
  BY LogKeeps DEF Finish

\* Every step keeps it.
LEMMA LogInvKept == LogInv /\ [Next]_vars => LogInv'
<1> SUFFICES ASSUME LogInv, [Next]_vars PROVE LogInv'
  OBVIOUS
<1>1. CASE UNCHANGED vars
  BY <1>1 DEF vars, LogInv
<1>2. ASSUME NEW t \in Callers, NEW call \in Ops(t), Invoke(t, call)
      PROVE  LogInv'
  BY <1>2, LogKeeps DEF Invoke
<1>3. ASSUME NEW t \in Callers, FindService(t)
      PROVE  LogInv'
  <2>1. PICK found \in Found(t, op[t].service) :
          \/ Goto(t, "lock") /\ UNCHANGED <<sink, record>>
          \/ Finish(t, RegisterResult(t, FALSE), {"ERROR"})
    BY <1>3 DEF FindService
  <2>2. CASE Goto(t, "lock") /\ UNCHANGED <<sink, record>>
    BY <2>2 DEF LogInv, Goto, sink
  <2>3. CASE Finish(t, RegisterResult(t, FALSE), {"ERROR"})
    BY <1>3, <2>3, FinishLogs DEF FindService
  <2> QED BY <2>1, <2>2, <2>3
<1>4. ASSUME NEW t \in Callers, Lock(t)
      PROVE  LogInv'
  BY <1>4 DEF Lock, LogInv, Goto, Quiet, sink
<1>5. ASSUME NEW t \in Callers,
             \/ RegisterNew(t) \/ RegisterAgain(t) \/ Unregister(t)
             \/ ReportUnknown(t) \/ FailureUnknown(t) \/ QueryUnknown(t)
             \/ ReportLast(t) \/ FailureDrives(t) \/ QueryPeeks(t)
      PROVE  LogInv'
  <2>1. Quiet(t)
    BY <1>5 DEF RegisterNew, RegisterAgain, Unregister, ReportUnknown, FailureUnknown,
                QueryUnknown, ReportLast, FailureDrives, QueryPeeks, Inside, Halfway,
                LogInv, Quiet
  <2>2. \E r, levels : Finish(t, r, levels)
    BY <1>5, Zenon DEF RegisterNew, RegisterAgain, Unregister, ReportUnknown, FailureUnknown,
                QueryUnknown, ReportLast, FailureDrives, QueryPeeks
  <2> QED BY <2>1, <2>2, FinishLogs
<1>6. ASSUME NEW t \in Callers, ReportCurrent(t) \/ QueryCopies(t)
      PROVE  LogInv'
  BY <1>6 DEF ReportCurrent, QueryCopies, Inside, LogInv, Goto, sink
<1>7. ASSUME NEW t \in Callers, FailureCounts(t)
      PROVE  LogInv'
  <2>1. Quiet(t)
    BY <1>7 DEF FailureCounts, Inside, LogInv, Quiet
  <2> QED BY <1>7, <2>1, LogKeeps DEF FailureCounts
<1>8. ASSUME NEW t \in Callers, Return(t)
      PROVE  LogInv'
  BY <1>8, LogKeeps DEF Return
<1>9. ASSUME NEW t \in Callers, Write(t), UNCHANGED pc
      PROVE  LogInv'
  <2>1. CASE LockSink(t)
    BY <1>9, <2>1, LoggerAssumption DEF LockSink, SinkFree, LogInv
  <2>2. CASE WriteHead(t)
    <3>1. sMutex = t /\ line = <<>>
      BY <2>2 DEF WriteHead, LogInv
    <3>2. line' = <<t>>
      BY <2>2, <3>1 DEF WriteHead
    <3> QED BY <1>9, <2>2, <3>1, <3>2 DEF WriteHead, LogInv
  <2>3. CASE WriteRest(t)
    BY <1>9, <2>3, LoggerAssumption DEF WriteRest, LogInv
  <2> QED BY <1>9, <2>1, <2>2, <2>3 DEF Write
<1> QED BY <1>1, <1>2, <1>3, <1>4, <1>5, <1>6, <1>7, <1>8, <1>9 DEF Next

\* Logger::write emits whole lines: whatever threads log, in and out of the
\* registry's lock, no two of them have pieces on the same line.
THEOREM LinesStayWhole == Spec => []LinesAreWhole
<1>1. Init => LogInv
  BY LoggerAssumption DEF Init, LoggerInit, LogInv
<1>2. LogInv => LinesAreWhole
  BY DEF LogInv, LinesAreWhole
<1> QED BY <1>1, <1>2, LogInvKept, PTL DEF Spec
-----------------------------------------------------------------------------
(* The registry's lock, whoever calls what.                                *)

\* What getServiceState has copied of an entry before it looks up the next action.
Copied(info) ==
  [found |-> TRUE, isOnline |-> info.isOnline, lastAction |-> info.lastAction,
   currentAction |-> info.currentRecoveryState, nextAction |-> "UNKNOWN",
   attemptCount |-> info.crashCount]

\* A method between its two halves: its service is still there, and what it has put
\* aside is still right.
HalfOK(t) ==
  /\ op[t].name \in {"failure", "report", "query"}
  /\ Tracked(t)
  /\ op[t].name = "failure" =>
       /\ lNextState[t] \in RecoveryState
       /\ m_MapServiceInfo[op[t].service].crashCount > 0
  /\ op[t].name = "query" => lSnapshot[t] = Copied(m_MapServiceInfo[op[t].service])

\* The inductive invariant about one caller: at work it holds the lock, and a name
\* outside the catalogue does not get past the lookup.
CallOK(t) ==
  /\ pc[t] \in {"idle", "find", "lock", "inside", "half", "return"}
  /\ pc[t] \in {"idle", "return"} => op[t] = NoOp
  /\ pc[t] \in {"find", "lock", "inside", "half"} => op[t] \in Ops(t)
  /\ pc[t] = "find" => op[t].name = "register"
  /\ pc[t] \in {"lock", "inside"} /\ op[t].name = "register" /\ itFind[t] = "end"
       => op[t].service \in ServiceNames
  /\ pc[t] \in {"inside", "half"} => m_MutxServiceInfo = t
  /\ pc[t] = "half" => HalfOK(t)
  /\ pc[t] # "half" => lSnapshot[t] = NotFound

LockInv ==
  /\ IsRegistry(m_MapServiceInfo)
  /\ reply = [t \in Callers |-> reply[t]]
  /\ DOMAIN pc = Callers /\ DOMAIN op = Callers /\ DOMAIN itFind = Callers
  /\ DOMAIN lNextState = Callers /\ DOMAIN lSnapshot = Callers
  /\ \A t \in Callers : CallOK(t)

\* What the calls carry.
LEMMA OpsFields ==
  ASSUME NEW t \in Callers, NEW call \in Ops(t)
  PROVE  /\ call.service \in Names
         /\ call.name \in {"query", "register", "unregister", "failure", "report"}
         /\ t \notin Mutators <=> call.name = "query"
         /\ call.name = "register" => call.actions \in Policies
         /\ call.name = "report" => call.current \in Reports /\ call.last \in Reports
  BY DEF Ops

\* The policies and the pushed states are what the operators expect.
LEMMA ArgumentTypes ==
  /\ \A actions \in Policies : actions \in Seq(RecoveryState)
  /\ \A r \in Reports : r \in RecoveryState
  BY ThreadsAssumption

\* A caller that is at work holds the lock and is in the call it says.
LEMMA AtWork ==
  ASSUME LockInv, NEW t \in Callers, NEW name, Inside(t, name) \/ Halfway(t, name)
  PROVE  /\ m_MutxServiceInfo = t
         /\ op[t] \in Ops(t)
         /\ op[t].name = name
         /\ op[t].service \in Names
         /\ name # "query" => t \in Mutators
         /\ name = "register" => op[t].actions \in Policies
         /\ name = "report" => op[t].current \in Reports /\ op[t].last \in Reports
<1>1. op[t] \in Ops(t) /\ op[t].name = name /\ CallOK(t) /\ pc[t] \in {"inside", "half"}
  BY DEF LockInv, CallOK, Inside, Halfway
<1> QED BY <1>1, OpsFields DEF CallOK

\* What a step of t leaves of the others, but for the registry and the lock.
Frame(t) ==
  /\ DOMAIN pc' = Callers /\ DOMAIN op' = Callers /\ DOMAIN itFind' = Callers
  /\ DOMAIN lNextState' = Callers /\ DOMAIN lSnapshot' = Callers
  /\ reply' = [u \in Callers |-> reply'[u]]
  /\ \A u \in Callers \ {t} :
       /\ pc'[u] = pc[u] /\ op'[u] = op[u]
       /\ lNextState'[u] = lNextState[u] /\ lSnapshot'[u] = lSnapshot[u]
       /\ itFind'[u] \in {itFind[u], "dangling"}

\* The others keep their part: the step leaves the registry and their lock alone, or
\* is one of the holder's.
LEMMA StepKeeps ==
  ASSUME LockInv, NEW t \in Callers, Frame(t), IsRegistry(m_MapServiceInfo'), CallOK(t)',
         \/ m_MutxServiceInfo = t
         \/ /\ UNCHANGED m_MapServiceInfo
            /\ m_MutxServiceInfo' # m_MutxServiceInfo => m_MutxServiceInfo = NoCaller
  PROVE  LockInv'
<1>1. ASSUME NEW u \in Callers, u # t PROVE CallOK(u)'
  <2>1. CallOK(u)
    BY DEF LockInv
  <2>2. /\ pc'[u] = pc[u] /\ op'[u] = op[u]
        /\ lNextState'[u] = lNextState[u] /\ lSnapshot'[u] = lSnapshot[u]
        /\ itFind'[u] = "end" => itFind[u] = "end"
    BY <1>1 DEF Frame
  <2>3. CASE m_MutxServiceInfo = t
    <3>1. pc[u] \notin {"inside", "half"}
      BY <1>1, <2>1, <2>3 DEF CallOK
    <3> QED BY <2>1, <2>2, <3>1 DEF CallOK, Ops
  <2>4. CASE /\ UNCHANGED m_MapServiceInfo
             /\ m_MutxServiceInfo' # m_MutxServiceInfo => m_MutxServiceInfo = NoCaller
    <3>1. m_MutxServiceInfo = u => m_MutxServiceInfo' = u
      BY <2>4, LoggerAssumption
    <3>2. HalfOK(u) => HalfOK(u)'
      BY <2>2, <2>4 DEF HalfOK, Tracked
    <3> QED BY <2>1, <2>2, <3>1, <3>2 DEF CallOK, Ops
  <2> QED BY <2>3, <2>4
<1> QED BY <1>1 DEF LockInv, Frame

\* A method that has done its work has no obligation left.
LEMMA FinishKeeps ==
  ASSUME LockInv, NEW t \in Callers, NEW r, NEW levels, Finish(t, r, levels),
         IsRegistry(m_MapServiceInfo'), DOMAIN itFind' = Callers,
         \A u \in Callers \ {t} : itFind'[u] \in {itFind[u], "dangling"},
         m_MutxServiceInfo = t \/ UNCHANGED m_MapServiceInfo
  PROVE  LockInv'
<1>1. Frame(t) /\ pc'[t] = "return" /\ op'[t] = NoOp /\ lSnapshot'[t] = NotFound
  BY DEF Finish, Goto, LockInv, Frame
<1>2. CallOK(t)'
  BY <1>1 DEF CallOK
<1> QED BY <1>1, <1>2, StepKeeps DEF Finish

-----------------------------------------------------------------------------
(* The entries the methods write.                                          *)

\* A complete entry in the place of another.
LEMMA EntryKeeps ==
  ASSUME NEW map, IsRegistry(map), NEW s \in DOMAIN map, NEW info \in Info
  PROVE  IsRegistry([map EXCEPT ![s] = info])
  BY DEF IsRegistry

\* The entry between the halves of a failure, and the failure it becomes.
LEMMA CountedEntry ==
  ASSUME NEW info \in Info, NEW failed \in Failed(info)
  PROVE  /\ [failed EXCEPT !.currentRecoveryState = info.currentRecoveryState,
                           !.lastAction = info.lastAction] \in Info
         /\ failed = [[failed EXCEPT !.currentRecoveryState = info.currentRecoveryState,
                                     !.lastAction = info.lastAction]
                        EXCEPT !.lastAction = "CRASHED",
                               !.currentRecoveryState = failed.currentRecoveryState]
         /\ failed.currentRecoveryState \in RecoveryState
         /\ [failed EXCEPT !.currentRecoveryState = info.currentRecoveryState,
                           !.lastAction = info.lastAction].crashCount > 0
<1>1. failed \in Info
  BY FailedInfo
<1>2. failed.lastAction = "CRASHED" /\ failed.crashCount = info.crashCount + 1
  BY DEF Failed
<1>3. info.crashCount \in Nat
  BY DEF Info
<1>4. [failed EXCEPT !.currentRecoveryState = info.currentRecoveryState,
                     !.lastAction = info.lastAction].crashCount = failed.crashCount
  BY <1>1 DEF Info
<1>5. [failed EXCEPT !.currentRecoveryState = info.currentRecoveryState,
                     !.lastAction = info.lastAction].crashCount > 0
  BY <1>2, <1>3, <1>4
<1> QED BY <1>1, <1>2, <1>5 DEF Info

\* The second half of a failure or of a push leaves a complete entry.
LEMMA CompletedInfo ==
  ASSUME LockInv, NEW t \in Callers, Halfway(t, "failure") \/ Halfway(t, "report"),
         NEW info \in Info
  PROVE  Completed(t, info) \in Info
<1>1. CASE Halfway(t, "failure")
  <2>1. lNextState[t] \in RecoveryState /\ op[t].name = "failure"
    BY <1>1 DEF Halfway, LockInv, CallOK, HalfOK
  <2>2. "CRASHED" \in RecoveryState
    BY DEF RecoveryState
  <2> QED BY <2>1, <2>2 DEF Completed, Info
<1>2. CASE Halfway(t, "report")
  <2>1. op[t].last \in RecoveryState /\ op[t].name = "report"
    BY <1>2, AtWork, ArgumentTypes
  <2>2. info.currentRecoveryState \in RecoveryState
    BY DEF Info
  <2> QED BY <2>1, <2>2, ReportedInfo DEF Completed
<1> QED BY <1>1, <1>2

\* A snapshot is the copy of the entry and a next action of its policy.
LEMMA SnapshotOfEntry ==
  ASSUME NEW map, NEW s \in DOMAIN map, NEW snapshot \in Snapshots(map, s)
  PROVE  /\ [snapshot EXCEPT !.nextAction = "UNKNOWN"] = Copied(map[s])
         /\ [Copied(map[s]) EXCEPT !.nextAction = snapshot.nextAction] = snapshot
<1> DEFINE found    == TRUE
           online   == map[s].isOnline
           last     == map[s].lastAction
           current  == map[s].currentRecoveryState
           attempts == map[s].crashCount
           Copy(next) == [found |-> found, isOnline |-> online, lastAction |-> last,
                          currentAction |-> current, nextAction |-> next,
                          attemptCount |-> attempts]
<1>1. PICK next : snapshot = Copy(next)
  BY DEF Snapshots
<1>2. Copied(map[s]) = Copy("UNKNOWN")
  BY DEF Copied
<1>3. snapshot.nextAction = next
  BY <1>1
<1> HIDE DEF found, online, last, current, attempts
<1>4. ASSUME NEW n, NEW m PROVE [Copy(n) EXCEPT !.nextAction = m] = Copy(m)
  OBVIOUS
<1> HIDE DEF Copy
<1> QED BY <1>1, <1>2, <1>3, <1>4

\* A registration under the lock leaves a registry, whether or not what was found
\* is still so.
LEMMA RegisterKeepsRegistry ==
  ASSUME LockInv, NEW t \in Callers, RegisterNew(t) \/ RegisterAgain(t)
  PROVE  IsRegistry(m_MapServiceInfo')
<1> DEFINE s == op[t].service
<1>1. Inside(t, "register")
  BY DEF RegisterNew, RegisterAgain
<1>2. op[t].actions \in Seq(RecoveryState)
  BY <1>1, AtWork, ArgumentTypes
<1>3. IsRegistry(Registered(m_MapServiceInfo, s, op[t].actions))
  BY <1>2, RegisteredKeeps DEF LockInv
<1>4. CASE RegisterNew(t)
  <2>1. s \in ServiceNames
    BY <1>1, <1>4 DEF RegisterNew, Inside, LockInv, CallOK
  <2>2. CASE s \in DOMAIN m_MapServiceInfo
    <3>1. m_MapServiceInfo' = m_MapServiceInfo
      BY <1>4, <2>2 DEF RegisterNew, Emplace, LockInv, IsRegistry
    <3> QED BY <3>1 DEF LockInv
  <2>3. CASE s \notin DOMAIN m_MapServiceInfo
    BY <1>3, <1>4, <2>1, <2>3 DEF RegisterNew, Registered
  <2> QED BY <2>2, <2>3
<1>5. CASE RegisterAgain(t)
  <2>1. CASE s \in DOMAIN m_MapServiceInfo
    BY <1>3, <1>5, <2>1 DEF RegisterAgain, BackOnline, Registered, LockInv
  <2>2. CASE s \notin DOMAIN m_MapServiceInfo
    <3>1. m_MapServiceInfo' = m_MapServiceInfo
      BY <1>5, <2>2 DEF RegisterAgain, BackOnline, LockInv, IsRegistry
    <3> QED BY <3>1 DEF LockInv
  <2> QED BY <2>1, <2>2
<1> QED BY <1>4, <1>5
-----------------------------------------------------------------------------
(* Every step keeps the invariant of the lock.                             *)

\* A caller enters a method, looks its service up, takes or leaves the lock, or
\* logs.
LEMMA OutsideKeeps ==
  ASSUME LockInv, NEW t \in Callers,
         \/ \E call \in Ops(t) : Invoke(t, call)
         \/ FindService(t) \/ Lock(t) \/ Return(t)
         \/ Write(t) /\ UNCHANGED <<registry, m_MutxServiceInfo, pc, op, locals>>
  PROVE  LockInv'
<1>1. CallOK(t) /\ IsRegistry(m_MapServiceInfo)
  BY DEF LockInv
<1>2. ASSUME NEW call \in Ops(t), Invoke(t, call) PROVE LockInv'
  <2>1. /\ Frame(t) /\ UNCHANGED <<m_MapServiceInfo, m_MutxServiceInfo>>
        /\ pc'[t] = IF call.name = "register" THEN "find" ELSE "lock"
        /\ op'[t] = call /\ lSnapshot'[t] = lSnapshot[t] /\ pc[t] = "idle"
    BY <1>2 DEF Invoke, Goto, registry, locals, LockInv, Frame
  <2>2. CallOK(t)'
    BY <1>1, <2>1 DEF CallOK, Ops
  <2> QED BY <1>1, <2>1, <2>2, StepKeeps
<1>3. ASSUME FindService(t) PROVE LockInv'
  <2>1. PICK found \in Found(t, op[t].service) :
          /\ itFind' = [itFind EXCEPT ![t] = found]
          /\ \/ /\ found # "end" \/ op[t].service \in ServiceNames
                /\ Goto(t, "lock")
                /\ UNCHANGED <<reply, op, lNextState, lSnapshot, m_MutxServiceInfo>>
             \/ Finish(t, RegisterResult(t, FALSE), {"ERROR"})
    BY <1>3 DEF FindService
  <2>2. UNCHANGED m_MapServiceInfo /\ pc[t] = "find"
    BY <1>3 DEF FindService
  <2>3. CASE /\ found # "end" \/ op[t].service \in ServiceNames
             /\ Goto(t, "lock")
             /\ UNCHANGED <<reply, op, lNextState, lSnapshot, m_MutxServiceInfo>>
    <3>1. /\ Frame(t) /\ pc'[t] = "lock" /\ itFind'[t] = found
      BY <2>1, <2>3 DEF Goto, LockInv, Frame
    <3>2. CallOK(t)'
      BY <1>1, <2>2, <2>3, <3>1 DEF CallOK, Ops
    <3> QED BY <1>1, <2>2, <2>3, <3>1, <3>2, StepKeeps
  <2>4. CASE Finish(t, RegisterResult(t, FALSE), {"ERROR"})
    <3>1. DOMAIN itFind' = Callers /\ \A u \in Callers \ {t} : itFind'[u] = itFind[u]
      BY <2>1 DEF LockInv
    <3> QED BY <1>1, <2>2, <2>4, <3>1, FinishKeeps
  <2> QED BY <2>1, <2>3, <2>4
<1>4. ASSUME Lock(t) PROVE LockInv'
  <2>1. /\ Frame(t) /\ UNCHANGED <<m_MapServiceInfo, op, itFind, lSnapshot>>
        /\ pc[t] = "lock" /\ pc'[t] = "inside"
        /\ m_MutxServiceInfo = NoCaller /\ m_MutxServiceInfo' = t
    BY <1>4 DEF Lock, Acquire, Goto, registry, locals, LockInv, Frame
  <2>2. CallOK(t)'
    BY <1>1, <2>1 DEF CallOK, Ops
  <2> QED BY <1>1, <2>1, <2>2, StepKeeps
<1>5. ASSUME Return(t) PROVE LockInv'
  <2>1. /\ Frame(t) /\ UNCHANGED <<m_MapServiceInfo, op, lSnapshot>>
        /\ pc[t] = "return" /\ pc'[t] = "idle"
        /\ m_MutxServiceInfo' # m_MutxServiceInfo => m_MutxServiceInfo = t
    BY <1>5 DEF Return, Goto, registry, locals, LockInv, Frame
  <2>2. CallOK(t)'
    BY <1>1, <2>1 DEF CallOK
  <2> QED BY <1>1, <2>1, <2>2, StepKeeps
<1>6. ASSUME UNCHANGED <<registry, m_MutxServiceInfo, pc, op, locals>> PROVE LockInv'
  BY <1>6 DEF LockInv, CallOK, HalfOK, Tracked, Ops, registry, locals
<1> QED BY <1>2, <1>3, <1>4, <1>5, <1>6

\* The methods that do their work in one step.
LEMMA WholeKeeps ==
  ASSUME LockInv, NEW t \in Callers,
         \/ RegisterNew(t) \/ RegisterAgain(t) \/ Unregister(t)
         \/ ReportUnknown(t) \/ FailureUnknown(t) \/ QueryUnknown(t)
  PROVE  LockInv'
<1>1. m_MutxServiceInfo = t
  BY AtWork DEF RegisterNew, RegisterAgain, Unregister, ReportUnknown, FailureUnknown,
                QueryUnknown
<1>2. PICK r, levels : Finish(t, r, levels)
  BY Zenon DEF RegisterNew, RegisterAgain, Unregister, ReportUnknown, FailureUnknown,
               QueryUnknown
<1>3. /\ DOMAIN itFind' = Callers
      /\ \A u \in Callers \ {t} : itFind'[u] \in {itFind[u], "dangling"}
  BY DEF RegisterNew, RegisterAgain, Unregister, ReportUnknown, FailureUnknown,
         QueryUnknown, LockInv
<1>4. IsRegistry(m_MapServiceInfo')
  <2>1. CASE Unregister(t)
    BY <2>1, EraseKeeps DEF Unregister, LockInv
  <2>2. CASE ReportUnknown(t) \/ FailureUnknown(t) \/ QueryUnknown(t)
    BY <2>2 DEF ReportUnknown, FailureUnknown, QueryUnknown, LockInv
  <2> QED BY <2>1, <2>2, RegisterKeepsRegistry
<1> QED BY <1>1, <1>2, <1>3, <1>4, FinishKeeps

\* The first halves.
LEMMA FirstHalfKeeps ==
  ASSUME LockInv, NEW t \in Callers, ReportCurrent(t) \/ FailureCounts(t) \/ QueryCopies(t)
  PROVE  LockInv'
<1> DEFINE s == op[t].service
           info == m_MapServiceInfo[s]
<1>1. m_MutxServiceInfo = t /\ op[t] \in Ops(t) /\ pc[t] = "inside" /\ Tracked(t)
  BY AtWork DEF ReportCurrent, FailureCounts, QueryCopies, Inside
<1>2. info \in Info
  BY <1>1 DEF Tracked, LockInv, IsRegistry
<1>3. /\ UNCHANGED <<op, m_MutxServiceInfo>> /\ pc'[t] = "half"
  BY DEF ReportCurrent, FailureCounts, QueryCopies, Goto, LockInv
<1>4. CASE ReportCurrent(t)
  <2> DEFINE new == [info EXCEPT !.currentRecoveryState = op[t].current]
  <2>1. op[t].name = "report" /\ op[t].current \in RecoveryState
    BY <1>4, AtWork, ArgumentTypes DEF ReportCurrent
  <2>2. new \in Info
    BY <1>2, <2>1 DEF Info
  <2>3. m_MapServiceInfo' = [m_MapServiceInfo EXCEPT ![s] = new]
    BY <1>4 DEF ReportCurrent
  <2>4. IsRegistry(m_MapServiceInfo')
    BY <1>1, <2>2, <2>3, EntryKeeps DEF Tracked, LockInv
  <2>5. Frame(t)
    BY <1>4 DEF ReportCurrent, Goto, locals, LockInv, Frame
  <2>6. CallOK(t)'
    <3>1. HalfOK(t)'
      BY <1>1, <1>3, <2>1, <2>3 DEF HalfOK, Tracked
    <3> QED BY <1>1, <1>3, <3>1 DEF CallOK, Ops
  <2> QED BY <1>1, <2>4, <2>5, <2>6, StepKeeps
<1>5. CASE FailureCounts(t)
  <2>1. PICK failed \in Failed(info) :
          /\ m_MapServiceInfo' = [m_MapServiceInfo EXCEPT
               ![s] = [failed EXCEPT !.currentRecoveryState = info.currentRecoveryState,
                                     !.lastAction = info.lastAction]]
          /\ lNextState' = [lNextState EXCEPT ![t] = failed.currentRecoveryState]
    BY <1>5 DEF FailureCounts
  <2> DEFINE new == [failed EXCEPT !.currentRecoveryState = info.currentRecoveryState,
                                   !.lastAction = info.lastAction]
  <2>2. new \in Info /\ failed.currentRecoveryState \in RecoveryState /\ new.crashCount > 0
    BY <1>2, CountedEntry
  <2>3. m_MapServiceInfo' = [m_MapServiceInfo EXCEPT ![s] = new]
    BY <2>1
  <2> HIDE DEF new
  <2>4. IsRegistry(m_MapServiceInfo')
    BY <1>1, <2>2, <2>3, EntryKeeps DEF Tracked, LockInv
  <2>5. Frame(t)
    BY <1>5, <2>1 DEF FailureCounts, Goto, LockInv, Frame
  <2>6. CallOK(t)'
    <3>1. op[t].name = "failure" /\ lNextState'[t] \in RecoveryState
      BY <1>5, <2>1, <2>2 DEF FailureCounts, Inside, LockInv
    <3>2. HalfOK(t)'
      BY <1>1, <1>3, <2>2, <2>3, <3>1 DEF HalfOK, Tracked
    <3> QED BY <1>1, <1>3, <3>2 DEF CallOK, Ops
  <2> QED BY <1>1, <2>4, <2>5, <2>6, StepKeeps
<1>6. CASE QueryCopies(t)
  <2>1. PICK snapshot \in Snapshots(m_MapServiceInfo, s) :
          lSnapshot' = [lSnapshot EXCEPT ![t] = [snapshot EXCEPT !.nextAction = "UNKNOWN"]]
    BY <1>6 DEF QueryCopies
  <2>2. [snapshot EXCEPT !.nextAction = "UNKNOWN"] = Copied(info)
    BY <1>1, SnapshotOfEntry DEF Tracked
  <2>3. Frame(t) /\ UNCHANGED m_MapServiceInfo
    BY <1>6, <2>1 DEF QueryCopies, Goto, registry, LockInv, Frame
  <2>4. CallOK(t)'
    <3>1. op[t].name = "query" /\ lSnapshot'[t] = Copied(info)
      BY <1>6, <2>1, <2>2 DEF QueryCopies, Inside, LockInv
    <3>2. HalfOK(t)'
      BY <1>1, <1>3, <2>3, <3>1 DEF HalfOK, Tracked
    <3> QED BY <1>1, <1>3, <3>2 DEF CallOK, Ops
  <2>5. IsRegistry(m_MapServiceInfo')
    BY <2>3 DEF LockInv
  <2> QED BY <1>1, <2>3, <2>4, <2>5, StepKeeps
<1> QED BY <1>4, <1>5, <1>6

\* The second halves.
LEMMA SecondHalfKeeps ==
  ASSUME LockInv, NEW t \in Callers, ReportLast(t) \/ FailureDrives(t) \/ QueryPeeks(t)
  PROVE  LockInv'
<1>1. m_MutxServiceInfo = t
  BY AtWork DEF ReportLast, FailureDrives, QueryPeeks
<1>2. PICK r, levels : Finish(t, r, levels)
  BY Zenon DEF ReportLast, FailureDrives, QueryPeeks
<1>3. DOMAIN itFind' = Callers /\ \A u \in Callers \ {t} : itFind'[u] = itFind[u]
  BY DEF ReportLast, FailureDrives, QueryPeeks, LockInv
<1>4. IsRegistry(m_MapServiceInfo')
  <2>1. CASE ReportLast(t) \/ FailureDrives(t)
    <3> DEFINE info == m_MapServiceInfo[op[t].service]
    <3>1. Tracked(t)
      BY <2>1 DEF ReportLast, FailureDrives, Halfway, LockInv, CallOK, HalfOK
    <3>2. info \in Info
      BY <3>1 DEF Tracked, LockInv, IsRegistry
    <3>3. Completed(t, info) \in Info
      BY <2>1, <3>2, CompletedInfo DEF ReportLast, FailureDrives
    <3>4. m_MapServiceInfo' = [m_MapServiceInfo EXCEPT ![op[t].service] = Completed(t, info)]
      BY <2>1 DEF ReportLast, FailureDrives, Complete
    <3> QED BY <3>1, <3>3, <3>4, EntryKeeps DEF Tracked, LockInv
  <2>2. CASE QueryPeeks(t)
    BY <2>2 DEF QueryPeeks, LockInv
  <2> QED BY <2>1, <2>2
<1> QED BY <1>1, <1>2, <1>3, <1>4, FinishKeeps

\* One step of the threads.
LEMMA LockInvKept == LockInv /\ [Next]_vars => LockInv'
<1> SUFFICES ASSUME LockInv, [Next]_vars PROVE LockInv'
  OBVIOUS
<1>1. CASE UNCHANGED vars
  BY <1>1 DEF vars, LockInv, CallOK, HalfOK, Tracked, Ops
<1>2. CASE Next
  BY <1>2, OutsideKeeps, WholeKeeps, FirstHalfKeeps, SecondHalfKeeps DEF Next
<1> QED BY <1>1, <1>2

\* Nothing is tracked and nobody is in a call at the start.
LEMMA LockInvStarts == Init => LockInv
  BY DEF Init, LockInv, IsRegistry, CallOK
-----------------------------------------------------------------------------
(* No query sees a failure half recorded.                                  *)

\* An entry in which every failure that is counted is recorded.
Whole(info) == IF info.crashCount > 0 THEN info.lastAction # "UNKNOWN" ELSE info.isOnline

\* A failure of s is between its halves.
Counted(s) ==
  \E u \in Callers : pc[u] = "half" /\ op[u].name = "failure" /\ op[u].service = s

\* The inductive invariant: entries are whole, but for the one the holder of the lock
\* is working on.
WholeInv ==
  /\ \A s \in DOMAIN m_MapServiceInfo : Whole(m_MapServiceInfo[s]) \/ Counted(s)
  /\ SnapshotsAreWhole

\* Beside a caller that has the lock, and is not in a failure itself, all entries
\* are whole.
LEMMA OthersAreWhole ==
  ASSUME LockInv, WholeInv, NEW t \in Callers, m_MutxServiceInfo = t,
         pc[t] = "half" => op[t].name # "failure"
  PROVE  \A s \in DOMAIN m_MapServiceInfo : Whole(m_MapServiceInfo[s])
<1>1. ASSUME NEW u \in Callers, pc[u] = "half" PROVE u = t
  BY <1>1 DEF LockInv, CallOK
<1> QED BY <1>1 DEF WholeInv, Counted

\* Whole entries, and an answer that is no snapshot or a whole one.
LEMMA WholeAfter ==
  ASSUME WholeInv, LockInv, NEW t \in Callers, NEW r, reply' = [reply EXCEPT ![t] = r],
         \A s \in DOMAIN m_MapServiceInfo' : Whole(m_MapServiceInfo'[s]) \/ Counted(s)',
         r.op = "query" /\ r.snapshot.found =>
           IF r.snapshot.attemptCount > 0 THEN r.snapshot.lastAction # "UNKNOWN"
           ELSE r.snapshot.isOnline
  PROVE  WholeInv'
<1>1. \A u \in Callers : reply'[u] = IF u = t THEN r ELSE reply[u]
  BY DEF LockInv
<1>2. SnapshotsAreWhole'
  BY <1>1 DEF SnapshotsAreWhole, WholeInv
<1> QED BY <1>2 DEF WholeInv

\* The steps that leave the registry alone and come from outside the lock.
LEMMA OutsideWhole ==
  ASSUME LockInv, WholeInv, NEW t \in Callers,
         \/ \E call \in Ops(t) : Invoke(t, call)
         \/ FindService(t) \/ Lock(t) \/ Return(t)
         \/ Write(t) /\ UNCHANGED <<registry, m_MutxServiceInfo, pc, op, locals>>
  PROVE  WholeInv'
<1>1. UNCHANGED m_MapServiceInfo
  BY DEF Invoke, FindService, Lock, Return, registry
<1>2. ASSUME NEW u \in Callers, pc[u] = "half" PROVE pc'[u] = "half" /\ op'[u] = op[u]
  <2>1. CASE FindService(t)
    BY <1>2, <2>1 DEF FindService, Finish, Goto, LockInv
  <2>2. CASE ~ FindService(t)
    BY <1>2, <2>2 DEF Invoke, Lock, Return, Goto, LockInv
  <2> QED BY <2>1, <2>2
<1>3. \A s \in DOMAIN m_MapServiceInfo' : Whole(m_MapServiceInfo'[s]) \/ Counted(s)'
  BY <1>1, <1>2 DEF WholeInv, Counted
<1>4. CASE UNCHANGED reply
  BY <1>3, <1>4 DEF WholeInv, SnapshotsAreWhole
<1>5. CASE reply' = [reply EXCEPT ![t] = RegisterResult(t, FALSE)]
  <2>1. RegisterResult(t, FALSE).op # "query"
    BY DEF RegisterResult
  <2> QED BY <1>3, <1>5, <2>1, WholeAfter
<1>6. UNCHANGED reply \/ reply' = [reply EXCEPT ![t] = RegisterResult(t, FALSE)]
  BY DEF Invoke, FindService, Finish, Lock, Return, registry
<1> QED BY <1>4, <1>5, <1>6

\* A registration leaves whole entries.
LEMMA RegisterWhole ==
  ASSUME LockInv, WholeInv, NEW t \in Callers, RegisterNew(t) \/ RegisterAgain(t)
  PROVE  WholeInv'
<1>1. m_MutxServiceInfo = t /\ pc[t] = "inside"
  BY AtWork DEF RegisterNew, RegisterAgain, Inside
<1>2. \A s \in DOMAIN m_MapServiceInfo : Whole(m_MapServiceInfo[s])
  BY <1>1, OthersAreWhole
<1>3. \A s \in DOMAIN m_MapServiceInfo : m_MapServiceInfo[s] \in Info
  BY DEF LockInv, IsRegistry
<1>4. \A s \in DOMAIN m_MapServiceInfo' : Whole(m_MapServiceInfo'[s])
  <2>1. CASE RegisterNew(t)
    <3>1. Whole(Fresh(op[t].actions))
      BY DEF Whole, Fresh
    <3> QED BY <1>2, <2>1, <3>1 DEF RegisterNew, Emplace
  <2>2. CASE RegisterAgain(t)
    <3> DEFINE new == BackOnline(m_MapServiceInfo, op[t].service)
    <3>1. DOMAIN new = DOMAIN m_MapServiceInfo
      BY DEF BackOnline
    <3>2. ASSUME NEW s \in DOMAIN m_MapServiceInfo PROVE Whole(new[s])
      <4>1. Whole(m_MapServiceInfo[s]) /\ m_MapServiceInfo[s] \in Info
        BY <1>2, <1>3
      <4>2. Whole([m_MapServiceInfo[s] EXCEPT !.isOnline = TRUE])
        BY <4>1 DEF Whole, Info
      <4>3. new[s] \in {m_MapServiceInfo[s], [m_MapServiceInfo[s] EXCEPT !.isOnline = TRUE]}
        BY DEF BackOnline
      <4> QED BY <4>1, <4>2, <4>3
    <3>3. m_MapServiceInfo' \in {m_MapServiceInfo, new}
      BY <2>2 DEF RegisterAgain
    <3> HIDE DEF new
    <3> QED BY <1>2, <3>1, <3>2, <3>3
  <2> QED BY <2>1, <2>2
<1>5. reply' = [reply EXCEPT ![t] = RegisterResult(t, TRUE)]
  BY DEF RegisterNew, RegisterAgain, Finish
<1>6. RegisterResult(t, TRUE).op # "query"
  BY DEF RegisterResult
<1> QED BY <1>4, <1>5, <1>6, WholeAfter

\* The methods that have nothing to write, or erase.
LEMMA PlainWhole ==
  ASSUME LockInv, WholeInv, NEW t \in Callers,
         \/ Unregister(t) \/ ReportUnknown(t) \/ FailureUnknown(t) \/ QueryUnknown(t)
  PROVE  WholeInv'
<1>1. m_MutxServiceInfo = t /\ pc[t] = "inside"
  BY AtWork DEF Unregister, ReportUnknown, FailureUnknown, QueryUnknown, Inside
<1>2. \A s \in DOMAIN m_MapServiceInfo : Whole(m_MapServiceInfo[s])
  BY <1>1, OthersAreWhole
<1>3. \A s \in DOMAIN m_MapServiceInfo' : Whole(m_MapServiceInfo'[s])
  BY <1>2 DEF Unregister, Erase, Restrict, ReportUnknown, FailureUnknown, QueryUnknown
<1>4. CASE QueryUnknown(t)
  <2>1. lSnapshot[t] = NotFound
    BY <1>1 DEF LockInv, CallOK
  <2>2. reply' = [reply EXCEPT ![t] = QueryResult(t, NotFound)]
    BY <1>4, <2>1 DEF QueryUnknown, Finish
  <2>3. QueryResult(t, NotFound).snapshot.found = FALSE
    BY DEF QueryResult, NotFound
  <2> QED BY <1>3, <2>2, <2>3, WholeAfter
<1>5. CASE Unregister(t) \/ ReportUnknown(t) \/ FailureUnknown(t)
  <2>1. PICK ok : reply' = [reply EXCEPT ![t] = Result(t, ok)]
    BY <1>5 DEF Unregister, ReportUnknown, FailureUnknown, Finish
  <2>2. Result(t, ok).op # "query"
    BY <1>5 DEF Unregister, ReportUnknown, FailureUnknown, Inside, Result
  <2> QED BY <1>3, <2>1, <2>2, WholeAfter
<1> QED BY <1>4, <1>5

\* The first halves: only that of a failure leaves an entry that is not whole.
LEMMA FirstHalfWhole ==
  ASSUME LockInv, WholeInv, NEW t \in Callers,
         ReportCurrent(t) \/ FailureCounts(t) \/ QueryCopies(t)
  PROVE  WholeInv'
<1> DEFINE s == op[t].service
           info == m_MapServiceInfo[s]
<1>1. m_MutxServiceInfo = t /\ pc[t] = "inside" /\ s \in DOMAIN m_MapServiceInfo
  BY AtWork DEF ReportCurrent, FailureCounts, QueryCopies, Inside, Tracked
<1>2. \A x \in DOMAIN m_MapServiceInfo : Whole(m_MapServiceInfo[x])
  BY <1>1, OthersAreWhole
<1>3. info \in Info
  BY <1>1 DEF LockInv, IsRegistry
<1>4. SnapshotsAreWhole'
  BY DEF ReportCurrent, FailureCounts, QueryCopies, registry, WholeInv, SnapshotsAreWhole
<1>5. CASE ReportCurrent(t)
  <2> DEFINE new == [info EXCEPT !.currentRecoveryState = op[t].current]
  <2>1. Whole(new)
    BY <1>1, <1>2, <1>3 DEF Whole, Info
  <2>2. m_MapServiceInfo' = [m_MapServiceInfo EXCEPT ![s] = new]
    BY <1>5 DEF ReportCurrent
  <2> HIDE DEF new
  <2> QED BY <1>2, <1>4, <2>1, <2>2 DEF WholeInv
<1>6. CASE FailureCounts(t)
  <2>1. PICK failed \in Failed(info) :
          m_MapServiceInfo' = [m_MapServiceInfo EXCEPT
            ![s] = [failed EXCEPT !.currentRecoveryState = info.currentRecoveryState,
                                  !.lastAction = info.lastAction]]
    BY <1>6 DEF FailureCounts
  <2>2. op'[t] = op[t] /\ op[t].name = "failure" /\ pc'[t] = "half"
    BY <1>6 DEF FailureCounts, Inside, Goto, LockInv
  <2>3. ASSUME NEW x, x = s PROVE Counted(x)'
    BY <2>2, <2>3 DEF Counted
  <2>4. \A x \in DOMAIN m_MapServiceInfo' : x # s => Whole(m_MapServiceInfo'[x])
    BY <1>2, <2>1
  <2> QED BY <1>4, <2>3, <2>4 DEF WholeInv
<1>7. CASE QueryCopies(t)
  BY <1>2, <1>4, <1>7 DEF QueryCopies, registry, WholeInv
<1> QED BY <1>5, <1>6, <1>7

\* The second halves: a failure makes its entry whole again, ...
LEMMA CompleteWhole ==
  ASSUME LockInv, WholeInv, NEW t \in Callers, ReportLast(t) \/ FailureDrives(t)
  PROVE  WholeInv'
<1> DEFINE s == op[t].service
           info == m_MapServiceInfo[s]
<1>1. /\ m_MutxServiceInfo = t /\ pc[t] = "half" /\ s \in DOMAIN m_MapServiceInfo
      /\ op[t].name \in {"report", "failure"}
  BY AtWork DEF ReportLast, FailureDrives, Halfway, Tracked, LockInv, CallOK, HalfOK
<1>2. info \in Info
  BY <1>1 DEF LockInv, IsRegistry
<1>3. m_MapServiceInfo' = [m_MapServiceInfo EXCEPT ![s] = Completed(t, info)]
  BY DEF ReportLast, FailureDrives, Complete
<1>4. ASSUME NEW x \in DOMAIN m_MapServiceInfo, x # s PROVE Whole(m_MapServiceInfo[x])
  <2>1. ASSUME NEW u \in Callers, pc[u] = "half" PROVE u = t
    BY <1>1, <2>1 DEF LockInv, CallOK
  <2> QED BY <1>4, <2>1 DEF WholeInv, Counted
<1>5. Whole(Completed(t, info))
  <2>1. CASE op[t].name = "failure"
    <3>1. info.crashCount > 0
      BY <1>1, <2>1 DEF LockInv, CallOK, HalfOK
    <3> QED BY <1>2, <2>1, <3>1 DEF Completed, Whole, Info
  <2>2. CASE op[t].name = "report"
    <3>1. Whole(info)
      BY <1>1, <2>2, OthersAreWhole
    <3> QED BY <1>2, <2>2, <3>1 DEF Completed, Reported, Whole, Info
  <2> QED BY <1>1, <2>1, <2>2
<1>6. \A x \in DOMAIN m_MapServiceInfo' : Whole(m_MapServiceInfo'[x])
  BY <1>1, <1>3, <1>4, <1>5
<1>7. reply' = [reply EXCEPT ![t] = Result(t, TRUE)]
  BY DEF ReportLast, FailureDrives, Finish
<1>8. Result(t, TRUE).op # "query"
  BY <1>1 DEF Result
<1> QED BY <1>6, <1>7, <1>8, WholeAfter

\* ... and a query hands out the copy of a whole one.
LEMMA QueryWhole ==
  ASSUME LockInv, WholeInv, NEW t \in Callers, QueryPeeks(t)
  PROVE  WholeInv'
<1> DEFINE s == op[t].service
           info == m_MapServiceInfo[s]
<1>1. /\ m_MutxServiceInfo = t /\ pc[t] = "half" /\ s \in DOMAIN m_MapServiceInfo
      /\ op[t].name = "query" /\ lSnapshot[t] = Copied(info)
  BY AtWork DEF QueryPeeks, Halfway, Tracked, LockInv, CallOK, HalfOK
<1>2. \A x \in DOMAIN m_MapServiceInfo : Whole(m_MapServiceInfo[x])
  BY <1>1, OthersAreWhole
<1>3. PICK snapshot \in Snapshots(m_MapServiceInfo, s) :
        reply' = [reply EXCEPT ![t] =
          QueryResult(t, [lSnapshot[t] EXCEPT !.nextAction = snapshot.nextAction])]
  BY DEF QueryPeeks, Finish
<1>4. reply' = [reply EXCEPT ![t] = QueryResult(t, snapshot)]
  <2>1. [Copied(info) EXCEPT !.nextAction = snapshot.nextAction] = snapshot
    BY <1>1, SnapshotOfEntry
  <2> QED BY <1>1, <1>3, <2>1
<1>5. /\ snapshot.attemptCount = info.crashCount
      /\ snapshot.lastAction = info.lastAction
      /\ snapshot.isOnline = info.isOnline
  BY <1>1 DEF Snapshots
<1>6. QueryResult(t, snapshot).snapshot = snapshot
  BY DEF QueryResult
<1>7. IF snapshot.attemptCount > 0 THEN snapshot.lastAction # "UNKNOWN" ELSE snapshot.isOnline
  BY <1>1, <1>2, <1>5 DEF Whole
<1>8. UNCHANGED m_MapServiceInfo
  BY DEF QueryPeeks
<1> QED BY <1>2, <1>4, <1>6, <1>7, <1>8, WholeAfter

\* Whatever threads call, also several that change the registry, a query never
\* returns a failure that is counted and not yet recorded.
THEOREM SnapshotsStayWhole == Spec => []SnapshotsAreWhole
<1>1. Init => WholeInv
  BY DEF Init, WholeInv, SnapshotsAreWhole
<1>2. LockInv /\ WholeInv /\ [Next]_vars => WholeInv'
  <2> SUFFICES ASSUME LockInv, WholeInv, [Next]_vars PROVE WholeInv'
    OBVIOUS
  <2>1. CASE UNCHANGED vars
    BY <2>1 DEF vars, WholeInv, Counted, SnapshotsAreWhole
  <2>2. CASE Next
    BY <2>2, OutsideWhole, RegisterWhole, PlainWhole, FirstHalfWhole, CompleteWhole, QueryWhole
       DEF Next
  <2> QED BY <2>1, <2>2
<1>3. WholeInv => SnapshotsAreWhole
  BY DEF WholeInv
<1> QED BY <1>1, <1>2, <1>3, LockInvStarts, LockInvKept, PTL DEF Spec
-----------------------------------------------------------------------------
(* One thread changes the registry.                                        *)

\* The condition under which the methods are atomic: one thread at most makes
\* the calls that change the registry.
OneMutator == \A t, u \in Mutators : t = u

\* What the unlocked lookup of onRegisterService gave is what the registry holds,
\* and a name that got past it is one of the catalogue.
LookupOK(t) ==
  /\ op[t].service \in ServiceNames
  /\ itFind[t] = IF op[t].service \in DOMAIN m_MapServiceInfo THEN "entry" ELSE "end"

\* A failure that is under way can still be counted.
FailureOK(t) ==
  op[t].service \in DOMAIN m_MapServiceInfo
    => m_MapServiceInfo[op[t].service].crashCount < MaxCrashes

\* What a caller that is about to work knows is still so when it does.
CurrentOK(t) ==
  pc[t] \in {"lock", "inside"} =>
    /\ op[t].name = "register" => LookupOK(t)
    /\ op[t].name = "failure" => FailureOK(t)

CurrentInv == \A t \in Callers : CurrentOK(t)

\* The only mutator's steps concern no one else, and a step of another caller leaves
\* the registry and the lookups alone.
LEMMA OthersStayCurrent ==
  ASSUME LockInv, CurrentInv, OneMutator, NEW t \in Callers, NEW u \in Callers, u # t,
         pc'[u] = pc[u], op'[u] = op[u],
         t \in Mutators \/ (UNCHANGED m_MapServiceInfo /\ itFind'[u] = itFind[u])
  PROVE  CurrentOK(u)'
<1>1. CallOK(u) /\ CurrentOK(u)
  BY DEF LockInv, CurrentInv
<1>2. CASE u \in Mutators
  <2>1. UNCHANGED m_MapServiceInfo /\ itFind'[u] = itFind[u]
    BY <1>2 DEF OneMutator
  <2> QED BY <1>1, <2>1 DEF CurrentOK, LookupOK, FailureOK
<1>3. CASE u \notin Mutators
  <2>1. pc[u] \in {"lock", "inside"} => op[u].name = "query"
    BY <1>1, <1>3, OpsFields DEF CallOK
  <2> QED BY <2>1 DEF CurrentOK
<1> QED BY <1>2, <1>3

\* A caller that leaves the place where it is about to work.
LEMMA DoneStaysCurrent ==
  ASSUME LockInv, CurrentInv, OneMutator, NEW t \in Callers, Frame(t),
         pc'[t] \notin {"lock", "inside"},
         \/ t \in Mutators
         \/ UNCHANGED m_MapServiceInfo /\ \A u \in Callers \ {t} : itFind'[u] = itFind[u]
  PROVE  CurrentInv'
<1>1. CurrentOK(t)'
  BY DEF CurrentOK
<1>2. ASSUME NEW u \in Callers, u # t PROVE CurrentOK(u)'
  BY <1>2, OthersStayCurrent DEF Frame
<1> QED BY <1>1, <1>2 DEF CurrentInv

\* The end of a method.
LEMMA FinishStaysCurrent ==
  ASSUME LockInv, CurrentInv, OneMutator, NEW t \in Callers, NEW r, NEW levels,
         Finish(t, r, levels), DOMAIN itFind' = Callers,
         \A u \in Callers \ {t} : itFind'[u] \in {itFind[u], "dangling"},
         \/ t \in Mutators
         \/ UNCHANGED m_MapServiceInfo /\ \A u \in Callers \ {t} : itFind'[u] = itFind[u]
  PROVE  CurrentInv'
<1>1. Frame(t) /\ pc'[t] = "return"
  BY DEF Finish, Goto, LockInv, Frame
<1> QED BY <1>1, DoneStaysCurrent

\* Beside the only mutator nobody inserts or erases, so its lookup is no race.
LEMMA LookupIsExact ==
  ASSUME LockInv, OneMutator, NEW t \in Mutators, NEW s, NEW found \in Found(t, s)
  PROVE  found = IF s \in DOMAIN m_MapServiceInfo THEN "entry" ELSE "end"
<1>1. ASSUME NEW u \in Callers \ {t}, pc[u] = "inside"
      PROVE  op[u].name = "query"
  <2>1. u \notin Mutators
    BY DEF OneMutator
  <2>2. op[u] \in Ops(u)
    BY <1>1 DEF LockInv, CallOK
  <2> QED BY <2>1, <2>2, OpsFields
<1>2. ~ BeingChanged(t)
  BY <1>1 DEF BeingChanged
<1> QED BY <1>2 DEF Found

\* A caller enters a method; nobody else has a failure of the service under way.
LEMMA InvokeStaysCurrent ==
  ASSUME LockInv, CurrentInv, OneMutator, NEW t \in Callers, NEW call \in Ops(t),
         Invoke(t, call)
  PROVE  CurrentInv'
<1>1. /\ Frame(t) /\ UNCHANGED <<m_MapServiceInfo, itFind>>
      /\ op'[t] = call
      /\ pc'[t] = IF call.name = "register" THEN "find" ELSE "lock"
  BY DEF Invoke, Goto, registry, locals, LockInv, Frame
<1>2. call.name = "failure" => FailureOK(t)'
  <2> SUFFICES ASSUME call.name = "failure", call.service \in DOMAIN m_MapServiceInfo
               PROVE  m_MapServiceInfo[call.service].crashCount < MaxCrashes
    BY <1>1 DEF FailureOK
  <2> DEFINE failing == {u \in Callers :
               pc[u] # "half" /\ op[u].name = "failure" /\ op[u].service = call.service}
  <2>1. t \in Mutators
    BY OpsFields
  <2>2. ASSUME NEW u \in Callers PROVE op[u].name # "failure"
    <3>1. CallOK(u)
      BY DEF LockInv
    <3>2. CASE u = t
      BY <3>1, <3>2 DEF Invoke, CallOK, NoOp
    <3>3. CASE u # t
      <4>1. u \notin Mutators
        BY <2>1, <3>3 DEF OneMutator
      <4> QED BY <3>1, <4>1, OpsFields DEF CallOK, NoOp
    <3> QED BY <3>2, <3>3
  <2>3. failing = {}
    BY <2>2
  <2>4. Cardinality(failing) = 0
    BY <2>3, FS_EmptySet
  <2>5. m_MapServiceInfo[call.service].crashCount + Cardinality(failing) < MaxCrashes
    BY DEF Invoke, Failures
  <2>6. m_MapServiceInfo[call.service].crashCount \in Nat
    BY DEF LockInv, IsRegistry, Info
  <2> HIDE DEF failing
  <2> QED BY <2>4, <2>5, <2>6
<1>3. CurrentOK(t)'
  BY <1>1, <1>2 DEF CurrentOK
<1>4. ASSUME NEW u \in Callers, u # t PROVE CurrentOK(u)'
  BY <1>1, <1>4, OthersStayCurrent DEF Frame
<1> QED BY <1>3, <1>4 DEF CurrentInv

\* The lookup gives what the registry holds.
LEMMA FindStaysCurrent ==
  ASSUME LockInv, CurrentInv, OneMutator, NEW t \in Callers, FindService(t)
  PROVE  CurrentInv'
<1> DEFINE s == op[t].service
<1>1. pc[t] = "find" /\ op[t] \in Ops(t) /\ op[t].name = "register"
  BY DEF FindService, LockInv, CallOK
<1>2. t \in Mutators
  BY <1>1, OpsFields
<1>3. PICK found \in Found(t, s) :
        /\ itFind' = [itFind EXCEPT ![t] = found]
        /\ \/ /\ found # "end" \/ s \in ServiceNames
              /\ Goto(t, "lock")
              /\ UNCHANGED <<reply, op, lNextState, lSnapshot>>
           \/ Finish(t, RegisterResult(t, FALSE), {"ERROR"})
  BY DEF FindService
<1>4. found = IF s \in DOMAIN m_MapServiceInfo THEN "entry" ELSE "end"
  BY <1>2, LookupIsExact
<1>5. /\ UNCHANGED m_MapServiceInfo /\ DOMAIN itFind' = Callers /\ itFind'[t] = found
      /\ \A u \in Callers \ {t} : itFind'[u] = itFind[u]
  BY <1>3 DEF FindService, LockInv
<1>6. CASE /\ found # "end" \/ s \in ServiceNames
           /\ Goto(t, "lock")
           /\ UNCHANGED <<reply, op, lNextState, lSnapshot>>
  <2>1. s \in ServiceNames
    BY <1>4, <1>6 DEF LockInv, IsRegistry
  <2>2. Frame(t)
    BY <1>5, <1>6 DEF Goto, LockInv, Frame
  <2>3. CurrentOK(t)'
    <3>1. LookupOK(t)'
      BY <1>4, <1>5, <1>6, <2>1 DEF LookupOK
    <3> QED BY <1>1, <1>6, <3>1 DEF CurrentOK
  <2>4. ASSUME NEW u \in Callers, u # t PROVE CurrentOK(u)'
    BY <1>2, <2>2, <2>4, OthersStayCurrent DEF Frame
  <2> QED BY <2>3, <2>4 DEF CurrentInv
<1>7. CASE Finish(t, RegisterResult(t, FALSE), {"ERROR"})
  BY <1>2, <1>5, <1>7, FinishStaysCurrent
<1> QED BY <1>3, <1>6, <1>7

\* Everybody stays current.
LEMMA CurrentInvKept ==
  ASSUME LockInv, CurrentInv, OneMutator, [Next]_vars
  PROVE  CurrentInv'
<1>1. CASE UNCHANGED vars
  BY <1>1 DEF vars, CurrentInv, CurrentOK, LookupOK, FailureOK
<1>2. ASSUME NEW t \in Callers, Lock(t) \/ Return(t) PROVE CurrentInv'
  <2>1. UNCHANGED <<m_MapServiceInfo, op, itFind>>
    BY <1>2 DEF Lock, Return, registry, locals
  <2>2. \A u \in Callers : pc'[u] \in {"lock", "inside"} => pc[u] \in {"lock", "inside"}
    BY <1>2 DEF Lock, Return, Goto, LockInv
  <2> QED BY <2>1, <2>2 DEF CurrentInv, CurrentOK, LookupOK, FailureOK
<1>3. ASSUME UNCHANGED <<registry, pc, op, locals>> PROVE CurrentInv'
  BY <1>3 DEF CurrentInv, CurrentOK, LookupOK, FailureOK, registry, locals
<1>4. ASSUME NEW t \in Callers,
             \/ RegisterNew(t) \/ RegisterAgain(t) \/ Unregister(t)
             \/ ReportUnknown(t) \/ FailureUnknown(t) \/ ReportLast(t) \/ FailureDrives(t)
      PROVE  CurrentInv'
  <2>1. t \in Mutators
    <3>1. PICK name \in {"register", "unregister", "report", "failure"} :
            Inside(t, name) \/ Halfway(t, name)
      BY <1>4 DEF RegisterNew, RegisterAgain, Unregister, ReportUnknown, FailureUnknown,
                  ReportLast, FailureDrives
    <3> QED BY <3>1, AtWork
  <2>2. PICK r, levels : Finish(t, r, levels)
    BY <1>4, Zenon DEF RegisterNew, RegisterAgain, Unregister, ReportUnknown,
                       FailureUnknown, ReportLast, FailureDrives
  <2>3. /\ DOMAIN itFind' = Callers
        /\ \A u \in Callers \ {t} : itFind'[u] \in {itFind[u], "dangling"}
    BY <1>4 DEF RegisterNew, RegisterAgain, Unregister, ReportUnknown,
                FailureUnknown, ReportLast, FailureDrives, LockInv
  <2> QED BY <2>1, <2>2, <2>3, FinishStaysCurrent
<1>5. ASSUME NEW t \in Callers, QueryUnknown(t) \/ QueryPeeks(t) PROVE CurrentInv'
  <2>1. PICK r, levels : Finish(t, r, levels)
    BY <1>5, Zenon DEF QueryUnknown, QueryPeeks
  <2>2. UNCHANGED <<m_MapServiceInfo, itFind>> /\ DOMAIN itFind = Callers
    BY <1>5 DEF QueryUnknown, QueryPeeks, LockInv
  <2> QED BY <2>1, <2>2, FinishStaysCurrent
<1>6. ASSUME NEW t \in Callers, ReportCurrent(t) \/ FailureCounts(t) \/ QueryCopies(t)
      PROVE  CurrentInv'
  <2>1. Frame(t) /\ pc'[t] = "half" /\ UNCHANGED itFind
    BY <1>6 DEF ReportCurrent, FailureCounts, QueryCopies, Goto, registry, locals, LockInv, Frame
  <2>2. t \in Mutators \/ UNCHANGED m_MapServiceInfo
    <3>1. CASE QueryCopies(t)
      BY <3>1 DEF QueryCopies, registry
    <3>2. CASE ReportCurrent(t) \/ FailureCounts(t)
      <4>1. PICK name \in {"report", "failure"} : Inside(t, name)
        BY <3>2 DEF ReportCurrent, FailureCounts
      <4> QED BY <4>1, AtWork
    <3> QED BY <1>6, <3>1, <3>2
  <2> QED BY <2>1, <2>2, DoneStaysCurrent
<1>7. CASE Next
  BY <1>2, <1>3, <1>4, <1>5, <1>6, <1>7, InvokeStaysCurrent, FindStaysCurrent DEF Next
<1> QED BY <1>1, <1>7

\* The invariants of the threads, as the daemon is wired.
LEMMA ThreadsInvariant == OneMutator /\ Spec => [](LockInv /\ CurrentInv)
<1> SUFFICES ASSUME OneMutator PROVE Spec => [](LockInv /\ CurrentInv)
  OBVIOUS
<1>1. Init => CurrentInv
  BY DEF Init, CurrentInv, CurrentOK
<1>2. LockInv /\ CurrentInv /\ [Next]_vars => CurrentInv'
  BY CurrentInvKept
<1> QED BY <1>1, <1>2, LockInvStarts, LockInvKept, PTL DEF Spec

-----------------------------------------------------------------------------
(* The methods are atomic.                                                 *)

\* The operators of ServiceInfo are the same in both specifications.
LEMMA SameOperators ==
  /\ \A map, s, actions : Atomic!Registered(map, s, actions) = Registered(map, s, actions)
  /\ \A map, s : Atomic!Accepts(map, s) = Accepts(map, s)
  /\ \A map, s : Atomic!Erase(map, s) = Erase(map, s)
  /\ \A map, s, current, last :
       Atomic!AfterReport(map, s, current, last) = AfterReport(map, s, current, last)
  /\ \A map, s : Atomic!AfterFailure(map, s) = AfterFailure(map, s)
  /\ \A map, s : Atomic!Snapshots(map, s) = Snapshots(map, s)
<1>1. \A actions : Atomic!Fresh(actions) = Fresh(actions)
  BY DEF Atomic!Fresh, Fresh, Atomic!DefaultActions, DefaultActions
<1>2. \A actions, i : Atomic!ActionAt(actions, i) = ActionAt(actions, i)
  BY DEF Atomic!ActionAt, ActionAt, Atomic!RecoveryState, RecoveryState
<1>3. \A n : Atomic!Int8(n) = Int8(n)
  BY DEF Atomic!Int8, Int8
<1>4. \A info : Atomic!Failed(info) = Failed(info)
  BY <1>2, <1>3 DEF Atomic!Failed, Failed, Atomic!AdvanceCursor, AdvanceCursor
<1>5. \A info : Atomic!NextActions(info) = NextActions(info)
  BY <1>2, <1>3 DEF Atomic!NextActions, NextActions, Atomic!PeekCursor, PeekCursor
<1>6. \A map, s, info : Atomic!Emplace(map, s, info) = Emplace(map, s, info)
  BY DEF Atomic!Emplace, Emplace
<1>7. \A map, s, actions : Atomic!Registered(map, s, actions) = Registered(map, s, actions)
  BY <1>1, <1>6 DEF Atomic!Registered, Registered
<1>8. \A map, s : Atomic!Accepts(map, s) = Accepts(map, s)
  BY DEF Atomic!Accepts, Accepts
<1>9. \A map, s : Atomic!Erase(map, s) = Erase(map, s)
  BY DEF Atomic!Erase, Erase, Atomic!Restrict, Restrict
<1>10. \A map, s, current, last :
         Atomic!AfterReport(map, s, current, last) = AfterReport(map, s, current, last)
  BY DEF Atomic!AfterReport, AfterReport, Atomic!Reported, Reported
<1>11. \A map, s : Atomic!AfterFailure(map, s) = AfterFailure(map, s)
  BY <1>4 DEF Atomic!AfterFailure, AfterFailure
<1>12. \A map, s : Atomic!Snapshots(map, s) = Snapshots(map, s)
  BY <1>5 DEF Atomic!Snapshots, Snapshots, Atomic!NotFound, NotFound
<1> QED BY <1>7, <1>8, <1>9, <1>10, <1>11, <1>12

\* Nobody is between the halves of a change: what the registry holds counts.
LEMMA Settled ==
  ASSUME LockInv, NEW t \in Callers, m_MutxServiceInfo = t, ~ Changing(t)
  PROVE  Committed = m_MapServiceInfo /\ Replied = reply
<1>1. ASSUME NEW u \in Callers PROVE ~ Changing(u)
  BY <1>1 DEF Changing, LockInv, CallOK
<1>2. Replied = [u \in Callers |-> reply[u]]
  BY <1>1 DEF Replied
<1> QED BY <1>2 DEF Committed, LockInv

\* The same after a step.
LEMMA SettledAfter ==
  ASSUME LockInv', NEW t \in Callers, m_MutxServiceInfo' = t, ~ Changing(t)'
  PROVE  Committed' = m_MapServiceInfo' /\ Replied' = reply'
<1>1. ASSUME NEW u \in Callers PROVE ~ Changing(u)'
  BY <1>1 DEF Changing, LockInv, CallOK
<1>2. Replied' = [u \in Callers |-> reply'[u]]
  BY <1>1 DEF Replied
<1> QED BY <1>2 DEF Committed, LockInv

\* t is between the halves of a change: what it will leave counts.
LEMMA Unsettled ==
  ASSUME LockInv, NEW t \in Callers, Changing(t)
  PROVE  /\ Committed = [m_MapServiceInfo EXCEPT
                           ![op[t].service] = Completed(t, m_MapServiceInfo[op[t].service])]
         /\ Replied = [reply EXCEPT ![t] = Result(t, TRUE)]
<1>1. m_MutxServiceInfo = t
  BY DEF Changing, LockInv, CallOK
<1>2. ASSUME NEW u \in Callers, u # t PROVE ~ Changing(u)
  BY <1>1, <1>2 DEF Changing, LockInv, CallOK
<1>3. Replied = [u \in Callers |-> IF u = t THEN Result(t, TRUE) ELSE reply[u]]
  BY <1>2 DEF Replied
<1>4. DOMAIN reply = Callers
  BY DEF LockInv
<1> QED BY <1>1, <1>3, <1>4 DEF Committed

\* The same after a step.
LEMMA UnsettledAfter ==
  ASSUME LockInv', NEW t \in Callers, Changing(t)'
  PROVE  /\ Committed' = [m_MapServiceInfo' EXCEPT
                   ![op'[t].service] = Completed(t, m_MapServiceInfo[op[t].service])']
         /\ Replied' = [reply' EXCEPT ![t] = Result(t, TRUE)']
<1>1. m_MutxServiceInfo' = t
  BY DEF Changing, LockInv, CallOK
<1>2. ASSUME NEW u \in Callers, u # t PROVE ~ Changing(u)'
  BY <1>1, <1>2 DEF Changing, LockInv, CallOK
<1>3. Replied' = [u \in Callers |-> IF u = t THEN Result(t, TRUE)' ELSE reply'[u]]
  BY <1>2 DEF Replied
<1>4. DOMAIN reply' = Callers
  BY DEF LockInv
<1> QED BY <1>1, <1>3, <1>4 DEF Committed

\* A step that neither writes the registry nor is one of a caller between the halves
\* of a change.
LEMMA SameView ==
  ASSUME LockInv, UNCHANGED m_MapServiceInfo,
         \A u \in Callers : Changing(u)' <=> Changing(u),
         \A u \in Callers : Changing(u) =>
           op'[u] = op[u] /\ lNextState'[u] = lNextState[u] /\ m_MutxServiceInfo' = m_MutxServiceInfo
  PROVE  /\ Committed' = Committed
         /\ Replied' = [u \in Callers |-> IF Changing(u) THEN Replied[u] ELSE reply'[u]]
<1>1. Replied' = [u \in Callers |-> IF Changing(u) THEN Replied[u] ELSE reply'[u]]
  BY DEF Replied, Result
<1>2. CASE \E u \in Callers : Changing(u)
  <2>1. PICK u \in Callers : Changing(u)
    BY <1>2
  <2>2. m_MutxServiceInfo = u
    BY <2>1 DEF Changing, LockInv, CallOK
  <2>3. m_MutxServiceInfo' = u /\ Changing(u)' /\ op'[u] = op[u] /\ lNextState'[u] = lNextState[u]
    BY <2>1, <2>2
  <2>4. Completed(u, m_MapServiceInfo[op[u].service])' = Completed(u, m_MapServiceInfo[op[u].service])
    BY <2>3 DEF Completed
  <2> QED BY <1>1, <2>1, <2>2, <2>3, <2>4 DEF Committed
<1>3. CASE ~ \E u \in Callers : Changing(u)
  <2>1. ~ Changing(m_MutxServiceInfo) /\ ~ Changing(m_MutxServiceInfo)'
    BY <1>3 DEF Changing
  <2> QED BY <1>1, <2>1 DEF Committed
<1> QED BY <1>2, <1>3

\* A step of RecoveryScheduler, from the method it is of.
LEMMA AtomicStep ==
  ASSUME NEW t \in Callers, NEW s \in Names,
         \/ \E actions \in Policies : Atomic!onRegisterService(t, s, actions)
         \/ Atomic!onUnregisterService(t, s)
         \/ \E current, last \in Reports : Atomic!onReportServiceState(t, s, current, last)
         \/ Atomic!onServiceFailure(t, s)
         \/ Atomic!getServiceState(t, s)
  PROVE  [Atomic!Next]_(Atomic!vars)
  BY DEF Atomic!Next

\* A method that does its work in one step under the lock: the view of it is the
\* registry, before and after.
LEMMA OneStepView ==
  ASSUME LockInv, LockInv', NEW t \in Callers, pc[t] = "inside",
         NEW r, NEW levels, Finish(t, r, levels)
  PROVE  /\ Committed = m_MapServiceInfo /\ Committed' = m_MapServiceInfo'
         /\ Replied = reply /\ Replied' = [reply EXCEPT ![t] = r]
<1>1. m_MutxServiceInfo = t /\ m_MutxServiceInfo' = t
  BY DEF LockInv, CallOK, Finish
<1>2. ~ Changing(t) /\ ~ Changing(t)'
  BY DEF Changing, Finish, Goto, LockInv
<1>3. reply' = [reply EXCEPT ![t] = r]
  BY DEF Finish
<1> QED BY <1>1, <1>2, <1>3, Settled, SettledAfter

\* onRegisterService refuses an unknown name in its lookup, and looks up a known one.
LEMMA FindServiceGood ==
  ASSUME LockInv, OneMutator, NEW t \in Callers, FindService(t)
  PROVE  [Atomic!Next]_(Atomic!vars)
<1> DEFINE s == op[t].service
           r == RegisterResult(t, FALSE)
<1>1. pc[t] = "find" /\ op[t] \in Ops(t) /\ op[t].name = "register"
  BY DEF FindService, LockInv, CallOK
<1>2. t \in Mutators /\ op[t].actions \in Policies /\ s \in Names
  BY <1>1, OpsFields
<1>3. PICK found \in Found(t, s) :
        \/ Goto(t, "lock") /\ UNCHANGED <<reply, op, lNextState>>
        \/ found = "end" /\ s \notin ServiceNames /\ Finish(t, r, {"ERROR"})
  BY DEF FindService
<1>4. UNCHANGED <<m_MapServiceInfo, m_MutxServiceInfo>>
  BY DEF FindService, Finish
<1>5. \A u \in Callers : Changing(u) => u # t
  BY <1>1 DEF Changing
<1>6. /\ \A u \in Callers : Changing(u)' <=> Changing(u)
      /\ \A u \in Callers : Changing(u) => op'[u] = op[u] /\ lNextState'[u] = lNextState[u]
  <2>1. \A u \in Callers \ {t} :
          pc'[u] = pc[u] /\ op'[u] = op[u] /\ lNextState'[u] = lNextState[u]
    BY <1>3 DEF Goto, Finish, LockInv
  <2>2. pc'[t] \in {"lock", "return"}
    BY <1>3 DEF Goto, Finish, LockInv
  <2> QED BY <1>5, <2>1, <2>2 DEF Changing
<1>7. /\ Committed' = Committed
      /\ Replied' = [u \in Callers |-> IF Changing(u) THEN Replied[u] ELSE reply'[u]]
  BY <1>4, <1>6, SameView
<1>8. CASE Goto(t, "lock") /\ UNCHANGED <<reply, op, lNextState>>
  <2>1. Replied' = Replied
    BY <1>7, <1>8 DEF Replied
  <2> QED BY <1>7, <2>1 DEF Atomic!vars
<1>9. CASE found = "end" /\ s \notin ServiceNames /\ Finish(t, r, {"ERROR"})
  <2>1. Replied' = [Replied EXCEPT ![t] = r]
    BY <1>5, <1>7, <1>9 DEF Replied, Finish, LockInv
  <2>2. DOMAIN Committed = DOMAIN m_MapServiceInfo
    BY DEF Committed
  <2>3. s \notin DOMAIN Committed
    BY <1>9, <2>2 DEF LockInv, IsRegistry
  <2>4. /\ Accepts(Committed, s) = FALSE
        /\ Registered(Committed, s, op[t].actions) = Committed
    BY <1>9, <2>3 DEF Accepts, Registered
  <2>5. Atomic!onRegisterService(t, s, op[t].actions)
    BY <1>7, <2>1, <2>4, SameOperators
       DEF Atomic!onRegisterService, Atomic!Answer, RegisterResult
  <2> QED BY <1>2, <2>5, AtomicStep
<1> QED BY <1>3, <1>8, <1>9

\* onRegisterService under the lock: what it found is still so, and both branches
\* are the atomic registration.
LEMMA RegisterGood ==
  ASSUME LockInv, LockInv', CurrentInv, NEW t \in Callers, RegisterNew(t) \/ RegisterAgain(t)
  PROVE  [Atomic!Next]_(Atomic!vars)
<1> DEFINE s == op[t].service
<1>1. Inside(t, "register")
  BY DEF RegisterNew, RegisterAgain
<1>2. LookupOK(t) /\ op[t].actions \in Policies /\ s \in Names /\ pc[t] = "inside"
  BY <1>1, AtWork DEF CurrentInv, CurrentOK, Inside
<1>3. m_MapServiceInfo' = Registered(m_MapServiceInfo, s, op[t].actions)
  BY <1>2 DEF RegisterNew, RegisterAgain, LookupOK, Registered, BackOnline
<1>4. Accepts(m_MapServiceInfo, s) = TRUE
  BY <1>2 DEF LookupOK, Accepts
<1>5. PICK levels : Finish(t, RegisterResult(t, TRUE), levels)
  BY DEF RegisterNew, RegisterAgain
<1>6. /\ Committed = m_MapServiceInfo /\ Committed' = m_MapServiceInfo'
      /\ Replied = reply /\ Replied' = [reply EXCEPT ![t] = RegisterResult(t, TRUE)]
  BY <1>2, <1>5, OneStepView
<1>7. Atomic!onRegisterService(t, s, op[t].actions)
  BY <1>3, <1>4, <1>6, SameOperators
     DEF Atomic!onRegisterService, Atomic!Answer, RegisterResult
<1> QED BY <1>2, <1>7, AtomicStep

\* onUnregisterService is the atomic withdrawal, and a push or a failure of a
\* service that is not tracked the atomic one that changes nothing.
LEMMA UnregisterGood ==
  ASSUME LockInv, LockInv', NEW t \in Callers,
         Unregister(t) \/ ReportUnknown(t) \/ FailureUnknown(t)
  PROVE  [Atomic!Next]_(Atomic!vars)
<1> DEFINE s == op[t].service
<1>1. s \in Names /\ pc[t] = "inside"
  BY AtWork DEF Unregister, ReportUnknown, FailureUnknown, Inside
<1>2. ASSUME NEW ok, NEW levels, Finish(t, Result(t, ok), levels)
      PROVE  /\ Committed = m_MapServiceInfo /\ Committed' = m_MapServiceInfo'
             /\ Replied = reply /\ Replied' = [reply EXCEPT ![t] = Result(t, ok)]
  BY <1>1, <1>2, OneStepView
<1>3. CASE Unregister(t)
  <2>1. /\ m_MapServiceInfo' = Erase(m_MapServiceInfo, s)
        /\ Finish(t, Result(t, Tracked(t)), {})
        /\ op[t].name = "unregister"
    BY <1>3 DEF Unregister, Inside
  <2>2. Atomic!onUnregisterService(t, s)
    BY <1>2, <2>1, SameOperators
       DEF Atomic!onUnregisterService, Atomic!Answer, Atomic!Ack, Result, Tracked
  <2> QED BY <1>1, <2>2, AtomicStep
<1>4. CASE ReportUnknown(t)
  <2>1. /\ UNCHANGED m_MapServiceInfo
        /\ Finish(t, Result(t, FALSE), {"WARN"})
        /\ op[t].name = "report" /\ s \notin DOMAIN m_MapServiceInfo
    BY <1>4 DEF ReportUnknown, Inside, Tracked
  <2>2. op[t].current \in Reports /\ op[t].last \in Reports
    BY <1>4, AtWork DEF ReportUnknown
  <2>3. AfterReport(m_MapServiceInfo, s, op[t].current, op[t].last) = m_MapServiceInfo
    BY <2>1 DEF AfterReport
  <2>4. (s \in DOMAIN m_MapServiceInfo) = FALSE
    BY <2>1
  <2>5. Atomic!onReportServiceState(t, s, op[t].current, op[t].last)
    BY <1>2, <2>1, <2>3, <2>4, SameOperators
       DEF Atomic!onReportServiceState, Atomic!Answer, Atomic!Ack, Result
  <2> QED BY <1>1, <2>2, <2>5, AtomicStep
<1>5. CASE FailureUnknown(t)
  <2>1. /\ UNCHANGED m_MapServiceInfo
        /\ Finish(t, Result(t, TRUE), {})
        /\ op[t].name = "failure" /\ s \notin DOMAIN m_MapServiceInfo
    BY <1>5 DEF FailureUnknown, Inside, Tracked
  <2>2. m_MapServiceInfo \in AfterFailure(m_MapServiceInfo, s)
    BY <2>1 DEF AfterFailure
  <2>3. Atomic!onServiceFailure(t, s)
    BY <1>2, <2>1, <2>2, SameOperators
       DEF Atomic!onServiceFailure, Atomic!Answer, Atomic!Ack, Result
  <2> QED BY <1>1, <2>3, AtomicStep
<1> QED BY <1>3, <1>4, <1>5

\* The first half of a push is the atomic push.
LEMMA ReportGood ==
  ASSUME LockInv, LockInv', NEW t \in Callers, ReportCurrent(t)
  PROVE  [Atomic!Next]_(Atomic!vars)
<1> DEFINE s == op[t].service
           info == m_MapServiceInfo[s]
           new == [info EXCEPT !.currentRecoveryState = op[t].current]
<1>1. /\ m_MutxServiceInfo = t /\ pc[t] = "inside" /\ op[t].name = "report"
      /\ s \in DOMAIN m_MapServiceInfo /\ s \in Names
      /\ op[t].current \in Reports /\ op[t].last \in Reports
  BY AtWork DEF ReportCurrent, Inside, Tracked
<1>2. /\ m_MapServiceInfo' = [m_MapServiceInfo EXCEPT ![s] = new]
      /\ UNCHANGED <<op, reply>> /\ pc'[t] = "half"
  BY DEF ReportCurrent, Goto, LockInv
<1>3. Committed = m_MapServiceInfo /\ Replied = reply
  BY <1>1, Settled DEF Changing
<1>4. Changing(t)'
  BY <1>1, <1>2 DEF Changing
<1>5. Completed(t, m_MapServiceInfo[op[t].service])' = Reported(info, op[t].current, op[t].last)
  <2>1. info \in Info
    BY <1>1 DEF LockInv, IsRegistry
  <2>2. m_MapServiceInfo'[s] = new
    BY <1>1, <1>2
  <2>3. Completed(t, m_MapServiceInfo[op[t].service])'
          = Reported(new, new.currentRecoveryState, op[t].last)
    BY <1>1, <1>2, <2>2 DEF Completed
  <2>4. new.currentRecoveryState = op[t].current
    BY <2>1 DEF Info
  <2>5. Reported(new, op[t].current, op[t].last) = Reported(info, op[t].current, op[t].last)
    BY <2>1 DEF Reported, Info
  <2> QED BY <2>3, <2>4, <2>5
<1>6. Committed' = [m_MapServiceInfo' EXCEPT ![s] = Reported(info, op[t].current, op[t].last)]
  BY <1>2, <1>4, <1>5, UnsettledAfter
<1>7. Committed' = AfterReport(m_MapServiceInfo, s, op[t].current, op[t].last)
  <2> DEFINE reported == Reported(info, op[t].current, op[t].last)
  <2>1. AfterReport(m_MapServiceInfo, s, op[t].current, op[t].last)
          = [m_MapServiceInfo EXCEPT ![s] = reported]
    BY <1>1 DEF AfterReport
  <2> HIDE DEF reported
  <2>2. Committed' = [m_MapServiceInfo' EXCEPT ![s] = reported]
    BY <1>6 DEF reported
  <2> HIDE DEF new
  <2> QED BY <1>2, <2>1, <2>2
<1>8. Replied' = [reply EXCEPT ![t] = Result(t, TRUE)]
  BY <1>2, <1>4, UnsettledAfter DEF Result
<1>9. Atomic!onReportServiceState(t, s, op[t].current, op[t].last)
  <2>1. (s \in DOMAIN m_MapServiceInfo) = TRUE
    BY <1>1
  <2> QED BY <1>1, <1>3, <1>7, <1>8, <2>1, SameOperators
       DEF Atomic!onReportServiceState, Atomic!Answer, Atomic!Ack, Result
<1> QED BY <1>1, <1>9, AtomicStep

\* The first half of a failure is the atomic failure.
LEMMA FailureGood ==
  ASSUME LockInv, LockInv', CurrentInv, NEW t \in Callers, FailureCounts(t)
  PROVE  [Atomic!Next]_(Atomic!vars)
<1> DEFINE s == op[t].service
           info == m_MapServiceInfo[s]
           counted(failed) == [failed EXCEPT !.currentRecoveryState = info.currentRecoveryState,
                                             !.lastAction = info.lastAction]
<1>1. /\ m_MutxServiceInfo = t /\ pc[t] = "inside" /\ op[t].name = "failure"
      /\ s \in DOMAIN m_MapServiceInfo /\ s \in Names /\ FailureOK(t)
  BY AtWork DEF FailureCounts, Inside, Tracked, CurrentInv, CurrentOK
<1>2. PICK failed \in Failed(info) :
        /\ m_MapServiceInfo' = [m_MapServiceInfo EXCEPT ![s] = counted(failed)]
        /\ lNextState' = [lNextState EXCEPT ![t] = failed.currentRecoveryState]
  BY DEF FailureCounts
<1>3. /\ UNCHANGED <<op, reply>> /\ pc'[t] = "half"
      /\ lNextState'[t] = failed.currentRecoveryState
  BY <1>2 DEF FailureCounts, Goto, LockInv
<1>4. Committed = m_MapServiceInfo /\ Replied = reply
  BY <1>1, Settled DEF Changing
<1>5. Changing(t)'
  BY <1>1, <1>3 DEF Changing
<1>6. Completed(t, m_MapServiceInfo[op[t].service])' = failed
  <2>1. info \in Info
    BY <1>1 DEF LockInv, IsRegistry
  <2>2. m_MapServiceInfo'[s] = counted(failed)
    BY <1>1, <1>2
  <2>3. Completed(t, m_MapServiceInfo[op[t].service])'
          = [counted(failed) EXCEPT !.lastAction = "CRASHED",
                                    !.currentRecoveryState = failed.currentRecoveryState]
    BY <1>1, <1>3, <2>2 DEF Completed
  <2> QED BY <2>1, <2>3, CountedEntry
<1> HIDE DEF counted
<1>7. Committed' = [m_MapServiceInfo' EXCEPT ![s] = failed]
  BY <1>3, <1>5, <1>6, UnsettledAfter
<1>8. Committed' = [m_MapServiceInfo EXCEPT ![s] = failed]
  BY <1>2, <1>7
<1>9. Committed' \in AfterFailure(m_MapServiceInfo, s)
  BY <1>1, <1>8 DEF AfterFailure
<1>10. Replied' = [reply EXCEPT ![t] = Result(t, TRUE)]
  BY <1>3, <1>5, UnsettledAfter DEF Result
<1>11. Atomic!onServiceFailure(t, s)
  BY <1>1, <1>4, <1>9, <1>10, SameOperators
     DEF Atomic!onServiceFailure, Atomic!Answer, Atomic!Ack, Result, FailureOK
<1> QED BY <1>1, <1>11, AtomicStep

\* The second half of a push or of a failure is what the view has shown since the
\* first.
LEMMA CompleteGood ==
  ASSUME LockInv, LockInv', NEW t \in Callers, ReportLast(t) \/ FailureDrives(t)
  PROVE  [Atomic!Next]_(Atomic!vars)
<1>1. Changing(t) /\ m_MutxServiceInfo = t
  BY AtWork DEF ReportLast, FailureDrives, Halfway, Changing
<1>2. /\ m_MapServiceInfo' = [m_MapServiceInfo EXCEPT
           ![op[t].service] = Completed(t, m_MapServiceInfo[op[t].service])]
      /\ reply' = [reply EXCEPT ![t] = Result(t, TRUE)]
      /\ m_MutxServiceInfo' = t /\ pc'[t] = "return"
  BY <1>1 DEF ReportLast, FailureDrives, Complete, Finish, Goto, LockInv
<1>3. Committed = m_MapServiceInfo' /\ Replied = reply'
  BY <1>1, <1>2, Unsettled
<1>4. Committed' = m_MapServiceInfo' /\ Replied' = reply'
  BY <1>2, SettledAfter DEF Changing
<1> QED BY <1>3, <1>4 DEF Atomic!vars

\* A query under the lock is the atomic query when it ends, and nothing before.
LEMMA QueryGood ==
  ASSUME LockInv, LockInv', NEW t \in Callers,
         QueryUnknown(t) \/ QueryCopies(t) \/ QueryPeeks(t)
  PROVE  [Atomic!Next]_(Atomic!vars)
<1> DEFINE s == op[t].service
<1>1. /\ s \in Names /\ m_MutxServiceInfo = t /\ op[t].name = "query"
      /\ UNCHANGED <<m_MapServiceInfo, m_MutxServiceInfo>>
  BY AtWork DEF QueryUnknown, QueryCopies, QueryPeeks, Finish, registry
<1>2. ~ Changing(t) /\ ~ Changing(t)'
  <2>1. op'[t] \in {op[t], NoOp}
    <3>1. CASE QueryCopies(t)
      BY <3>1 DEF QueryCopies
    <3>2. CASE ~ QueryCopies(t)
      <4>1. op' = [op EXCEPT ![t] = NoOp]
        BY <3>2 DEF QueryUnknown, QueryPeeks, Finish
      <4> QED BY <4>1 DEF LockInv
    <3> QED BY <3>1, <3>2
  <2>2. NoOp.name \notin {"report", "failure"}
    BY DEF NoOp
  <2> QED BY <1>1, <2>1, <2>2 DEF Changing
<1>3. /\ Committed = m_MapServiceInfo /\ Replied = reply
      /\ Committed' = m_MapServiceInfo' /\ Replied' = reply'
  BY <1>1, <1>2, Settled, SettledAfter
<1>4. CASE QueryCopies(t)
  BY <1>1, <1>3, <1>4 DEF QueryCopies, registry, Atomic!vars
<1>5. CASE QueryUnknown(t) \/ QueryPeeks(t)
  <2>1. \E snapshot \in Snapshots(m_MapServiceInfo, s) :
          reply' = [reply EXCEPT ![t] = QueryResult(t, snapshot)]
    <3>1. CASE QueryUnknown(t)
      <4>1. lSnapshot[t] = NotFound
        BY <3>1 DEF QueryUnknown, Inside, LockInv, CallOK
      <4> QED BY <3>1, <4>1 DEF QueryUnknown, Tracked, Snapshots, Finish
    <3>2. CASE QueryPeeks(t)
      <4>1. s \in DOMAIN m_MapServiceInfo /\ lSnapshot[t] = Copied(m_MapServiceInfo[s])
        BY <3>2 DEF QueryPeeks, Halfway, Tracked, LockInv, CallOK, HalfOK
      <4>2. PICK snapshot \in Snapshots(m_MapServiceInfo, s) :
              reply' = [reply EXCEPT ![t] =
                QueryResult(t, [lSnapshot[t] EXCEPT !.nextAction = snapshot.nextAction])]
        BY <3>2 DEF QueryPeeks, Finish
      <4>3. [Copied(m_MapServiceInfo[s]) EXCEPT !.nextAction = snapshot.nextAction] = snapshot
        BY <4>1, SnapshotOfEntry
      <4> QED BY <4>1, <4>2, <4>3
    <3> QED BY <1>5, <3>1, <3>2
  <2>2. Atomic!getServiceState(t, s)
    BY <1>1, <1>3, <2>1, SameOperators
       DEF Atomic!getServiceState, Atomic!Answer, QueryResult
  <2> QED BY <1>1, <2>2, AtomicStep
<1> QED BY <1>4, <1>5

\* Entering a method, taking and leaving the lock, and writing a log line do not
\* change the view.
LEMMA SilentGood ==
  ASSUME LockInv, NEW t \in Callers,
         \/ \E call \in Ops(t) : Invoke(t, call)
         \/ Lock(t) \/ Return(t)
         \/ Write(t) /\ UNCHANGED <<registry, m_MutxServiceInfo, pc, op, locals>>
  PROVE  [Atomic!Next]_(Atomic!vars)
<1>1. UNCHANGED <<m_MapServiceInfo, reply, lNextState>>
  BY DEF Invoke, Lock, Return, registry, locals
<1>2. ASSUME NEW u \in Callers
      PROVE  /\ Changing(u)' <=> Changing(u)
             /\ Changing(u) => op'[u] = op[u] /\ m_MutxServiceInfo' = m_MutxServiceInfo
  <2>1. CallOK(u)
    BY DEF LockInv
  <2>2. CASE \E call \in Ops(t) : Invoke(t, call)
    <3>1. /\ pc[t] = "idle" /\ pc'[t] \in {"find", "lock"} /\ UNCHANGED m_MutxServiceInfo
          /\ u # t => pc'[u] = pc[u] /\ op'[u] = op[u]
      BY <2>2 DEF Invoke, Goto, LockInv
    <3> QED BY <3>1 DEF Changing
  <2>3. CASE Lock(t)
    <3>1. /\ pc[t] = "lock" /\ pc'[t] = "inside" /\ UNCHANGED op
          /\ m_MutxServiceInfo = NoCaller
          /\ u # t => pc'[u] = pc[u]
      BY <2>3 DEF Lock, Acquire, Goto, LockInv
    <3>2. pc[u] # "half"
      BY <2>1, <3>1, LoggerAssumption DEF CallOK
    <3> QED BY <3>1, <3>2 DEF Changing
  <2>4. CASE Return(t)
    <3>1. /\ pc[t] = "return" /\ pc'[t] = "idle" /\ UNCHANGED op
          /\ m_MutxServiceInfo # t => UNCHANGED m_MutxServiceInfo
          /\ u # t => pc'[u] = pc[u]
      BY <2>4 DEF Return, Goto, LockInv
    <3> QED BY <2>1, <3>1 DEF Changing, CallOK
  <2>5. CASE UNCHANGED <<registry, m_MutxServiceInfo, pc, op, locals>>
    BY <2>5 DEF Changing
  <2> QED BY <2>2, <2>3, <2>4, <2>5
<1>3. /\ Committed' = Committed
      /\ Replied' = [u \in Callers |-> IF Changing(u) THEN Replied[u] ELSE reply'[u]]
  BY <1>1, <1>2, SameView
<1>4. Replied' = Replied
  BY <1>1, <1>3 DEF Replied
<1> QED BY <1>3, <1>4 DEF Atomic!vars

\* The methods are atomic, in spite of the unlocked lookup and of the halves of their
\* work, for any number of threads of which one changes the registry: the lock-level
\* model implements RecoveryScheduler, and what is proved of that holds of the threads.
THEOREM MethodsStayAtomic == OneMutator /\ Spec => MethodsAreAtomic
<1> SUFFICES ASSUME OneMutator PROVE Spec => MethodsAreAtomic
  OBVIOUS
<1>1. Init => Atomic!Init
  <2> SUFFICES ASSUME Init PROVE Atomic!Init
    OBVIOUS
  <2>1. \A t : ~ Changing(t)
    BY DEF Init, Changing
  <2>2. Committed = m_MapServiceInfo /\ Replied = reply
    BY <2>1 DEF Init, Committed, Replied
  <2>3. Atomic!Fresh(<<>>) = Fresh(<<>>)
    BY DEF Atomic!Fresh, Fresh, Atomic!DefaultActions, DefaultActions
  <2> QED BY <2>2, <2>3 DEF Init, Atomic!Init, Atomic!NoReply
<1>2. LockInv /\ CurrentInv /\ [Next]_vars => [Atomic!Next]_(Atomic!vars)
  <2> SUFFICES ASSUME LockInv, CurrentInv, [Next]_vars
               PROVE  [Atomic!Next]_(Atomic!vars)
    OBVIOUS
  <2>1. LockInv'
    BY LockInvKept
  <2>2. CASE UNCHANGED vars
    BY <2>2 DEF vars, Atomic!vars, Committed, Replied, Changing, Completed, Result
  <2>3. CASE Next
    BY <2>1, <2>3, SilentGood, FindServiceGood, RegisterGood, UnregisterGood, ReportGood,
       FailureGood, CompleteGood, QueryGood DEF Next
  <2> QED BY <2>2, <2>3
<1> QED BY <1>1, <1>2, ThreadsInvariant, PTL DEF Spec, MethodsAreAtomic, Atomic!Spec
=============================================================================
