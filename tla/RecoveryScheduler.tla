-------------------------- MODULE RecoveryScheduler --------------------------
(***************************************************************************)
(* CRecoveryScheduler: the registry of monitored services behind its       *)
(* public methods.  Every method is one atomic step that updates the       *)
(* registry and hands the caller its result: this is what "all public      *)
(* methods are safe to call from multiple threads" promises, and the       *)
(* specification the lock-level model of SchedulerThreads is held to.      *)
(***************************************************************************)
EXTENDS ServiceInfo

CONSTANTS
  Callers,      \* the threads that call the public methods
  Names,        \* the strings callers may pass as service name
  Policies,     \* the action lists callers may register
  Reports,      \* the states callers may push
  MaxCrashes    \* bound: failures counted for one service between two erasures

ASSUME SchedulerAssumption ==
  /\ ServiceNames \subseteq Names
  /\ Policies \subseteq Seq(RecoveryState)
  /\ Reports \subseteq RecoveryState
  /\ MaxCrashes \in Nat

VARIABLES
  m_MapServiceInfo, \* service name -> book-keeping
  reply             \* caller -> what its last call returned

vars == <<m_MapServiceInfo, reply>>

NoReply == [op |-> "none"]

Answer(t, r) == reply' = [reply EXCEPT ![t] = r]

Ack(op, s, ok) == [op |-> op, service |-> s, ok |-> ok]

Init ==
  /\ m_MapServiceInfo = [s \in {} |-> Fresh(<<>>)]
  /\ reply = [t \in Callers |-> NoReply]

onRegisterService(t, s, actions) ==
  /\ m_MapServiceInfo' = Registered(m_MapServiceInfo, s, actions)
  /\ Answer(t, [op |-> "register", service |-> s, actions |-> actions,
                ok |-> Accepts(m_MapServiceInfo, s)])

onUnregisterService(t, s) ==
  /\ m_MapServiceInfo' = Erase(m_MapServiceInfo, s)
  /\ Answer(t, Ack("unregister", s, s \in DOMAIN m_MapServiceInfo))

onReportServiceState(t, s, current, last) ==
  /\ m_MapServiceInfo' = AfterReport(m_MapServiceInfo, s, current, last)
  /\ Answer(t, Ack("report", s, s \in DOMAIN m_MapServiceInfo))

onServiceFailure(t, s) ==
  /\ s \in DOMAIN m_MapServiceInfo => m_MapServiceInfo[s].crashCount < MaxCrashes
  /\ m_MapServiceInfo' \in AfterFailure(m_MapServiceInfo, s)
  /\ Answer(t, Ack("failure", s, TRUE))

getServiceState(t, s) ==
  /\ \E snapshot \in Snapshots(m_MapServiceInfo, s) :
       Answer(t, [op |-> "query", service |-> s, snapshot |-> snapshot])
  /\ UNCHANGED m_MapServiceInfo

Next ==
  \E t \in Callers, s \in Names :
    \/ \E actions \in Policies : onRegisterService(t, s, actions)
    \/ onUnregisterService(t, s)
    \/ \E current, last \in Reports : onReportServiceState(t, s, current, last)
    \/ onServiceFailure(t, s)
    \/ getServiceState(t, s)

Spec == Init /\ [][Next]_vars

-----------------------------------------------------------------------------
(* Properties.                                                             *)

\* Type correctness: only names of the catalogue are ever tracked, each with a
\* complete entry (onRegisterService validates the name before it inserts).
TypeOK ==
  /\ IsRegistry(m_MapServiceInfo)
  /\ DOMAIN reply = Callers

\* Every policy, the default one included, has at most as many actions as an
\* int8_t cursor can walk.  The code does not check it: CursorInRange,
\* CursorTracksCrashes and PreviewIsHonoured hold only under this condition.
ShortPolicies ==
  /\ Int8Max >= Len(DefaultActions)
  /\ \A actions \in Policies : Len(actions) <= Int8Max

\* The cursor of every tracked service is -1 or an index of its policy, so
\* neither onServiceFailure nor getServiceState reads outside recoveryActions.
CursorInRange ==
  \A s \in DOMAIN m_MapServiceInfo :
    m_MapServiceInfo[s].recoveryActionCount
      \in -1 .. Len(m_MapServiceInfo[s].recoveryActions) - 1

\* "Action i is applied on the i-th recovery attempt": whatever registrations,
\* pushes and queries come between the failures, the cursor is the number of
\* crashes counted so far, less one, modulo the length of the policy.
CursorTracksCrashes ==
  \A s \in DOMAIN m_MapServiceInfo :
    LET info == m_MapServiceInfo[s]
    IN  info.recoveryActionCount =
          IF info.crashCount = 0 THEN -1
          ELSE (info.crashCount - 1) % Len(info.recoveryActions)

\* isOnline follows peer loss and registration alone: whatever crashes, returns and
\* pushes came before, a tracked service goes offline only with a failure that is
\* counted, and comes back only by a registration that touches nothing else; what
\* it pushes changes neither.
OnlineFollowsCalls ==
  [][\A s \in DOMAIN m_MapServiceInfo \cap DOMAIN m_MapServiceInfo' :
       LET old == m_MapServiceInfo[s]
           new == m_MapServiceInfo'[s]
       IN  /\ old.isOnline /\ ~ new.isOnline => new.crashCount = old.crashCount + 1
           /\ ~ old.isOnline /\ new.isOnline =>
                /\ new = [old EXCEPT !.isOnline = TRUE]
                /\ \E t \in Callers : reply'[t].op = "register" /\ reply'[t].service = s]_vars

\* The record of a crash is not lost: once a service has crashed, queries see a
\* meaningful last action, even after it re-registered and pushed a state that
\* names none (UNKNOWN must not clobber the tracked lastAction).
CrashIsRemembered ==
  \A s \in DOMAIN m_MapServiceInfo :
    m_MapServiceInfo[s].crashCount > 0 => m_MapServiceInfo[s].lastAction # "UNKNOWN"

\* The preview getServiceState computes for the next failure is kept: no other
\* call changes it, and the next failure drives exactly that action.
PreviewIsHonoured ==
  [][\A s \in DOMAIN m_MapServiceInfo \cap DOMAIN m_MapServiceInfo' :
       IF m_MapServiceInfo'[s].crashCount = m_MapServiceInfo[s].crashCount
       THEN NextActions(m_MapServiceInfo'[s]) = NextActions(m_MapServiceInfo[s])
       ELSE NextActions(m_MapServiceInfo[s])
              = {m_MapServiceInfo'[s].currentRecoveryState}]_vars

-----------------------------------------------------------------------------
(* What the documentation says and the code does not do.                   *)

\* The action the scheduler chose at the last failure of s.
ChosenAction(info) == info.recoveryActions[info.recoveryActionCount + 1]

\* "DISABLE: take the peer offline and do not attempt recovery again": after a
\* failure that chose DISABLE, the next one does not choose RESTART.
DisableIsFinal ==
  [][\A s \in DOMAIN m_MapServiceInfo \cap DOMAIN m_MapServiceInfo' :
       /\ m_MapServiceInfo[s].crashCount > 0
       /\ ChosenAction(m_MapServiceInfo[s]) = "DISABLE"
       /\ m_MapServiceInfo'[s].crashCount > m_MapServiceInfo[s].crashCount
       => ChosenAction(m_MapServiceInfo'[s]) # "RESTART"]_vars

\* "Service was accepted (either freshly added or its policy extended)": after a
\* registration returned true, the policy of the service ends with the actions
\* that were asked for.
AcceptedPolicyInForce ==
  \A t \in Callers :
    /\ reply[t].op = "register"
    /\ reply[t].ok
    /\ reply[t].service \in DOMAIN m_MapServiceInfo
    => LET want == reply[t].actions
           have == m_MapServiceInfo[reply[t].service].recoveryActions
       IN  /\ Len(want) <= Len(have)
           /\ SubSeq(have, Len(have) - Len(want) + 1, Len(have)) = want
=============================================================================
