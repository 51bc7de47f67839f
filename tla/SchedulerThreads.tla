-------------------------- MODULE SchedulerThreads ---------------------------
(***************************************************************************)
(* CRecoveryScheduler at the grain of its locks.  A method other than      *)
(* onRegisterService waits for m_MutxServiceInfo and does all its work     *)
(* under it.  onRegisterService looks its service up before it takes the   *)
(* lock and then acts on what it found; that lookup is a step of its own   *)
(* here, and the iterator it yields may go stale before it is used.  A     *)
(* method that reads or writes several fields of an entry does so in two   *)
(* steps, between which only the lock keeps the others out.  Most methods  *)
(* log before they let go of the lock, so the logger's lock is taken       *)
(* inside the registry's.                                                  *)
(*                                                                         *)
(* RecoveryScheduler, whose methods are single steps, is what this module  *)
(* is meant to implement.                                                  *)
(***************************************************************************)
EXTENDS ServiceInfo, FiniteSets, Logger

CONSTANTS
  Mutators,     \* the callers that call more than getServiceState
  Names,        \* the strings callers may pass as service name
  Policies,     \* the action lists callers may register
  Reports,      \* the states callers may push
  MaxCrashes    \* bound: failures counted for one service between two erasures

ASSUME ThreadsAssumption ==
  /\ Mutators \subseteq Callers
  /\ ServiceNames \subseteq Names
  /\ Policies \subseteq Seq(RecoveryState)
  /\ Reports \subseteq RecoveryState
  /\ MaxCrashes \in Nat

VARIABLES
  m_MapServiceInfo,   \* service name -> book-keeping
  reply,              \* caller -> what its last call returned
  m_MutxServiceInfo,  \* the caller that holds the lock, or NoCaller
  pc,                 \* caller -> where it is in its call
  op,                 \* caller -> the call it is in
  itFind,             \* caller -> what the unlocked lookup of onRegisterService gave
  lNextState,         \* caller -> the action onServiceFailure has chosen
  lSnapshot           \* caller -> what getServiceState has copied so far

registry == <<m_MapServiceInfo, reply>>
locals == <<itFind, lNextState, lSnapshot>>
sink == <<sMutex, line>>
vars == <<m_MapServiceInfo, reply, m_MutxServiceInfo, pc, op, itFind, lNextState, lSnapshot,
          sMutex, line, record>>

NoOp == [name |-> "none", service |-> "none"]

Init ==
  /\ m_MapServiceInfo = [s \in {} |-> Fresh(<<>>)]
  /\ reply = [t \in Callers |-> [op |-> "none"]]
  /\ LoggerInit
  /\ m_MutxServiceInfo = NoCaller
  /\ pc = [t \in Callers |-> "idle"]
  /\ op = [t \in Callers |-> NoOp]
  /\ itFind = [t \in Callers |-> "none"]
  /\ lNextState = [t \in Callers |-> "UNKNOWN"]
  /\ lSnapshot = [t \in Callers |-> NotFound]

Goto(t, place) == pc' = [pc EXCEPT ![t] = place]

-----------------------------------------------------------------------------

\* The calls t may make: the console thread asks for the state of one name
\* after another, the callbacks of the stub make the others.
Ops(t) ==
  IF t \notin Mutators THEN [name : {"query"}, service : Names]
  ELSE [name : {"register"}, service : Names, actions : Policies]
       \cup [name : {"unregister", "failure"}, service : Names]
       \cup [name : {"report"}, service : Names, current : Reports, last : Reports]

\* Failures of s counted or about to be.
Failures(s) ==
  (IF s \in DOMAIN m_MapServiceInfo THEN m_MapServiceInfo[s].crashCount ELSE 0)
  + Cardinality({t \in Callers :
                   pc[t] # "half" /\ op[t].name = "failure" /\ op[t].service = s})

\* What a method logs before it looks at the registry.
OpeningLevels(name) ==
  IF name = "register" THEN {"DEBUG"} ELSE IF name = "failure" THEN {"WARN"} ELSE {}

\* A caller enters a method.
Invoke(t, call) ==
  /\ pc[t] = "idle" /\ Quiet(t)
  /\ call.name = "failure" => Failures(call.service) < MaxCrashes
  /\ op' = [op EXCEPT ![t] = call]
  /\ Goto(t, IF call.name = "register" THEN "find" ELSE "lock")
  /\ Log(t, OpeningLevels(call.name))
  /\ UNCHANGED <<registry, m_MutxServiceInfo, locals, sink>>

\* Another caller is inside its critical section, about to insert or erase.
BeingChanged(t) ==
  \E u \in Callers \ {t} :
    /\ pc[u] = "inside"
    /\ \/ op[u].name = "register" /\ itFind[u] = "end" /\ op[u].service \notin DOMAIN m_MapServiceInfo
       \/ op[u].name = "unregister" /\ op[u].service \in DOMAIN m_MapServiceInfo

\* What find() without the lock may give.  Beside an insertion or an erasure it
\* is a data race: a lookup that survives it may miss an entry.
Found(t, s) ==
  {IF s \in DOMAIN m_MapServiceInfo THEN "entry" ELSE "end"}
  \cup (IF BeingChanged(t) THEN {"end"} ELSE {})

\* The work of a call is done with result r; a last line is logged.
Finish(t, r, levels) ==
  /\ reply' = [reply EXCEPT ![t] = r]
  /\ op' = [op EXCEPT ![t] = NoOp]
  /\ lNextState' = [lNextState EXCEPT ![t] = "UNKNOWN"]
  /\ lSnapshot' = [lSnapshot EXCEPT ![t] = NotFound]
  /\ Goto(t, "return")
  /\ Log(t, levels)
  /\ UNCHANGED <<m_MutxServiceInfo, sink>>

\* What the methods hand back.
RegisterResult(t, ok) ==
  [op |-> "register", service |-> op[t].service, actions |-> op[t].actions, ok |-> ok]
Result(t, ok) == [op |-> op[t].name, service |-> op[t].service, ok |-> ok]
QueryResult(t, snapshot) ==
  [op |-> "query", service |-> op[t].service, snapshot |-> snapshot]

\* onRegisterService, the lookup; an unknown name outside the catalogue is
\* refused without ever taking the lock.
FindService(t) ==
  /\ pc[t] = "find" /\ Quiet(t)
  /\ \E found \in Found(t, op[t].service) :
       /\ itFind' = [itFind EXCEPT ![t] = found]
       /\ \/ /\ found # "end" \/ op[t].service \in ServiceNames
             /\ Goto(t, "lock")
             /\ UNCHANGED <<reply, op, lNextState, lSnapshot, m_MutxServiceInfo, sink, record>>
          \/ /\ found = "end" /\ op[t].service \notin ServiceNames
             /\ Finish(t, RegisterResult(t, FALSE), {"ERROR"})
  /\ UNCHANGED m_MapServiceInfo

\* getServiceState without its lock_guard.
AcquireQueryUnlockedMutant(t) ==
  IF op[t].name = "query" THEN UNCHANGED m_MutxServiceInfo
  ELSE m_MutxServiceInfo = NoCaller /\ m_MutxServiceInfo' = t

\* std::lock_guard.
Acquire(t) == m_MutxServiceInfo = NoCaller /\ m_MutxServiceInfo' = t

Lock(t) ==
  /\ pc[t] = "lock" /\ Quiet(t)
  /\ Acquire(t)
  /\ Goto(t, "inside")
  /\ UNCHANGED <<registry, op, locals, sink, record>>

Inside(t, name) == pc[t] = "inside" /\ op[t].name = name

Tracked(t) == op[t].service \in DOMAIN m_MapServiceInfo

\* A method is between the two halves of its work under the lock.
Halfway(t, name) == pc[t] = "half" /\ op[t].name = name /\ Quiet(t)

\* onRegisterService under the lock, nothing was found: emplace, which does
\* nothing if another caller has inserted the service in the meantime.
RegisterNew(t) ==
  /\ Inside(t, "register")
  /\ itFind[t] = "end"
  /\ m_MapServiceInfo' =
       Emplace(m_MapServiceInfo, op[t].service, Fresh(op[t].actions))
  /\ Finish(t, RegisterResult(t, TRUE), {"INFO"})
  /\ UNCHANGED itFind

BackOnline(map, s) == [map EXCEPT ![s].isOnline = TRUE]

\* onRegisterService under the lock, an entry was found: it is written through
\* the iterator.  If it has been erased since, the write goes to freed memory;
\* the registry does not see it.
RegisterAgain(t) ==
  /\ Inside(t, "register")
  /\ itFind[t] \in {"entry", "dangling"}
  /\ m_MapServiceInfo' = IF itFind[t] = "entry" THEN BackOnline(m_MapServiceInfo, op[t].service)
                         ELSE m_MapServiceInfo
  /\ Finish(t, RegisterResult(t, TRUE), {"WARN"})
  /\ UNCHANGED itFind

\* onUnregisterService: an erased entry leaves the iterators to it dangling.
Unregister(t) ==
  /\ Inside(t, "unregister")
  /\ LET s == op[t].service
     IN  /\ m_MapServiceInfo' = Erase(m_MapServiceInfo, s)
         /\ itFind' = [u \in Callers |->
              IF pc[u] \in {"lock", "inside"} /\ op[u].service = s /\ itFind[u] = "entry"
              THEN "dangling" ELSE itFind[u]]
         /\ Finish(t, Result(t, Tracked(t)), {})

\* onReportServiceState: an unknown service is refused, ...
ReportUnknown(t) ==
  /\ Inside(t, "report")
  /\ ~ Tracked(t)
  /\ Finish(t, Result(t, FALSE), {"WARN"})
  /\ UNCHANGED <<m_MapServiceInfo, itFind>>

\* ... of a tracked one the current state is written first,
ReportCurrent(t) ==
  /\ Inside(t, "report")
  /\ Tracked(t)
  /\ m_MapServiceInfo' =
       [m_MapServiceInfo EXCEPT ![op[t].service].currentRecoveryState = op[t].current]
  /\ Goto(t, "half")
  /\ UNCHANGED <<reply, m_MutxServiceInfo, op, locals, sink, record>>

\* onServiceFailure ignores a service that is not tracked; ...
FailureUnknown(t) ==
  /\ Inside(t, "failure")
  /\ ~ Tracked(t)
  /\ Finish(t, Result(t, TRUE), {})
  /\ UNCHANGED <<m_MapServiceInfo, itFind>>

\* ... it counts the crash of a tracked one, takes it offline, moves the cursor and
\* logs the action it has chosen, the last action still being the old one.
FailureCounts(t) ==
  /\ Inside(t, "failure")
  /\ Tracked(t)
  /\ LET s == op[t].service
     IN  \E failed \in Failed(m_MapServiceInfo[s]) :
           /\ m_MapServiceInfo' = [m_MapServiceInfo EXCEPT
                ![s] = [failed EXCEPT !.currentRecoveryState = m_MapServiceInfo[s].currentRecoveryState,
                                      !.lastAction = m_MapServiceInfo[s].lastAction]]
           /\ lNextState' = [lNextState EXCEPT ![t] = failed.currentRecoveryState]
  /\ Goto(t, "half")
  /\ Log(t, {"DEBUG"})
  /\ UNCHANGED <<reply, m_MutxServiceInfo, op, itFind, lSnapshot, sink>>

\* What the second half of a failure or of a push makes of the entry: the crash and
\* the action chosen for it, or the last action unless that is UNKNOWN.
Completed(t, info) ==
  IF op[t].name = "failure"
  THEN [info EXCEPT !.lastAction = "CRASHED", !.currentRecoveryState = lNextState[t]]
  ELSE Reported(info, info.currentRecoveryState, op[t].last)

Complete(t) ==
  m_MapServiceInfo' = [m_MapServiceInfo EXCEPT ![op[t].service] = Completed(t, @)]

ReportLast(t) ==
  /\ Halfway(t, "report")
  /\ Complete(t)
  /\ Finish(t, Result(t, TRUE), {"INFO"})
  /\ UNCHANGED itFind

FailureDrives(t) ==
  /\ Halfway(t, "failure")
  /\ Complete(t)
  /\ Finish(t, Result(t, TRUE), {})
  /\ UNCHANGED itFind

\* getServiceState: the snapshot of an unknown service stays as constructed, ...
QueryUnknown(t) ==
  /\ Inside(t, "query")
  /\ ~ Tracked(t)
  /\ Finish(t, QueryResult(t, lSnapshot[t]), {})
  /\ UNCHANGED <<m_MapServiceInfo, itFind>>

\* ... of a tracked one the fields are copied,
QueryCopies(t) ==
  /\ Inside(t, "query")
  /\ Tracked(t)
  /\ \E snapshot \in Snapshots(m_MapServiceInfo, op[t].service) :
       lSnapshot' = [lSnapshot EXCEPT ![t] = [snapshot EXCEPT !.nextAction = "UNKNOWN"]]
  /\ Goto(t, "half")
  /\ UNCHANGED <<registry, m_MutxServiceInfo, op, itFind, lNextState, sink, record>>

\* and the next action is looked up in the policy.
QueryPeeks(t) ==
  /\ Halfway(t, "query")
  /\ \E snapshot \in Snapshots(m_MapServiceInfo, op[t].service) :
       Finish(t, QueryResult(t, [lSnapshot[t] EXCEPT !.nextAction = snapshot.nextAction]), {})
  /\ UNCHANGED <<m_MapServiceInfo, itFind>>

\* printSnapshot: what the console logs once getServiceState has returned.
printSnapshot(r) ==
  IF r.op # "query" THEN {} ELSE IF r.snapshot.found THEN {"INFO"} ELSE {"WARN"}

\* A method returns, and lets go of the registry's lock if it has it.
Return(t) ==
  /\ pc[t] = "return" /\ Quiet(t)
  /\ Goto(t, "idle")
  /\ m_MutxServiceInfo' = IF m_MutxServiceInfo = t THEN NoCaller ELSE m_MutxServiceInfo
  /\ Log(t, printSnapshot(reply[t]))
  /\ UNCHANGED <<registry, op, locals, sink>>

Next ==
  \E t \in Callers :
    \/ \E call \in Ops(t) : Invoke(t, call)
    \/ FindService(t)
    \/ Lock(t)
    \/ RegisterNew(t) \/ RegisterAgain(t)
    \/ Unregister(t)
    \/ ReportUnknown(t) \/ ReportCurrent(t) \/ ReportLast(t)
    \/ FailureUnknown(t) \/ FailureCounts(t) \/ FailureDrives(t)
    \/ QueryUnknown(t) \/ QueryCopies(t) \/ QueryPeeks(t)
    \/ Return(t)
    \/ Write(t) /\ UNCHANGED <<registry, m_MutxServiceInfo, pc, op, locals>>

Spec == Init /\ [][Next]_vars

-----------------------------------------------------------------------------
(* RecoveryScheduler, as seen from here.  A failure and a push take effect *)
(* with their first half: from then on until the second one is done, the   *)
(* lock keeps everybody from looking, and what will be there counts.       *)

Changing(t) == t \in Callers /\ pc[t] = "half" /\ op[t].name \in {"failure", "report"}

Committed ==
  IF Changing(m_MutxServiceInfo)
  THEN [m_MapServiceInfo EXCEPT
          ![op[m_MutxServiceInfo].service] = Completed(m_MutxServiceInfo, @)]
  ELSE m_MapServiceInfo

Replied == [t \in Callers |-> IF Changing(t) THEN Result(t, TRUE) ELSE reply[t]]

Atomic == INSTANCE RecoveryScheduler
            WITH m_MapServiceInfo <- Committed, reply <- Replied

-----------------------------------------------------------------------------
(* Properties.                                                             *)

\* No query sees a failure half recorded ("Record CRASHED as the last observed
\* event so a later query can see it"): a snapshot that counts a crash has a last
\* action, and one that counts none shows the service online.
SnapshotsAreWhole ==
  \A t \in Callers :
    /\ reply[t].op = "query"
    /\ reply[t].snapshot.found
    => IF reply[t].snapshot.attemptCount > 0 THEN reply[t].snapshot.lastAction # "UNKNOWN"
       ELSE reply[t].snapshot.isOnline

\* "All public methods are safe to call from multiple threads": every call takes
\* effect at one moment between its start and its end, with the outcome it would
\* have had alone.
MethodsAreAtomic == Atomic!Spec
=============================================================================
