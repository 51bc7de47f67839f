---------------------------- MODULE MonitorProofs ----------------------------
(***************************************************************************)
(* RecoveryService implements ServiceMonitor, for any number of peers and  *)
(* services: the initial states map to the initial state, and every step   *)
(* of the main thread, the peers and the dispatch thread maps to a step of *)
(* ServiceMonitor or leaves its variables alone.                           *)
(***************************************************************************)
EXTENDS RecoveryServiceProofs

\* A step that ServiceMonitor allows.
MonitorStep == [Monitor!Next]_(Monitor!vars)

\* How the view shows a service.
LEMMA ViewOf ==
  ASSUME CoreInv, NEW s \in ServiceNames
  PROVE  View[s] = IF s \notin DOMAIN m_MapServiceInfo THEN Monitor!Untracked
                   ELSE IF s \in OnlineIn(m_MapServiceInfo) THEN Monitor!Online(enroller[s])
                   ELSE Monitor!Offline(enroller[s])
  BY DEF View, Monitor!Untracked, Monitor!Online, Monitor!Offline, OnlineIn

\* A step that changes the view of one service at most is known by what it shows
\* of that service.
LEMMA SeeOne ==
  ASSUME CoreInv, CoreInv', NEW s \in ServiceNames, NEW v,
         View'[s] = v,
         \A x \in ServiceNames \ {s} : View'[x] = View[x],
         UNCHANGED <<peer, unseen>>
  PROVE  Monitor!See(s, v)
<1>1. View' = [View EXCEPT ![s] = v]
  BY DEF View
<1>2. UNCHANGED Announced
  BY DEF Announced
<1> QED BY <1>1, <1>2 DEF Monitor!See

\* The view of a service depends on its entry being there and online, and on its
\* enroller.
LEMMA SameView ==
  ASSUME CoreInv, CoreInv', NEW x \in ServiceNames,
         x \in DOMAIN m_MapServiceInfo' <=> x \in DOMAIN m_MapServiceInfo,
         x \in OnlineIn(m_MapServiceInfo') <=> x \in OnlineIn(m_MapServiceInfo),
         x \in DOMAIN m_MapServiceInfo => enroller'[x] = enroller[x]
  PROVE  View'[x] = View[x]
<1>1. View'[x] = IF x \notin DOMAIN m_MapServiceInfo' THEN Monitor!Untracked
                 ELSE IF x \in OnlineIn(m_MapServiceInfo') THEN Monitor!Online(enroller'[x])
                 ELSE Monitor!Offline(enroller'[x])
  BY DEF View, Monitor!Untracked, Monitor!Online, Monitor!Offline, OnlineIn
<1> QED BY <1>1, ViewOf

\* Steps that change nobody's view and no peer.
LEMMA NobodySees ==
  ASSUME CoreInv, CoreInv', UNCHANGED <<peer, unseen>>,
         \A x \in ServiceNames : View'[x] = View[x]
  PROVE  MonitorStep
<1>1. View' = View
  BY DEF View
<1>2. Announced' = Announced
  BY DEF Announced
<1> QED BY <1>1, <1>2 DEF MonitorStep, Monitor!vars

\* Steps that leave the registry and the peers alone.
LEMMA SameMapsSteps ==
  ASSUME CoreInv, CoreInv', UNCHANGED <<m_MapServiceInfo, enroller, peer, unseen>>
  PROVE  MonitorStep
<1>1. View' = View
  BY DEF View
<1>2. Announced' = Announced
  BY DEF Announced
<1> QED BY <1>1, <1>2 DEF MonitorStep, Monitor!vars

-----------------------------------------------------------------------------
(* The peers.                                                              *)

\* A connection is new to ServiceMonitor too.
LEMMA ConnectSteps ==
  ASSUME CoreInv, NEW c \in Conns, Connect(c)
  PROVE  MonitorStep
<1>1. /\ peer[c] = "absent" /\ peer' = [peer EXCEPT ![c] = "up"]
      /\ UNCHANGED <<m_MapServiceInfo, enroller, unseen>>
  BY DEF Connect, maps
<1>2. View' = View
  BY <1>1 DEF View
<1>3. Announced' = Announced
  BY <1>1 DEF Announced, CoreInv, TypeOK
<1> QED BY <1>1, <1>2, <1>3 DEF MonitorStep, Monitor!Next, Monitor!Connect

\* A loss under the subscription is announced, another one is not.
LEMMA LeaveSteps ==
  ASSUME CoreInv, NEW c \in Conns, Leave(c)
  PROVE  MonitorStep
<1>1. /\ peer[c] = "up" /\ peer' = [peer EXCEPT ![c] = "gone"]
      /\ UNCHANGED <<m_MapServiceInfo, enroller>>
      /\ unseen' = unseen \/ unseen' = unseen \cup {c}
  BY DEF Leave, maps
<1>2. View' = View
  BY <1>1 DEF View
<1>3. /\ peer'[c] = "gone"
      /\ \A d \in Conns : d # c => peer'[d] = peer[d]
      /\ c \notin unseen
  BY <1>1 DEF CoreInv, TypeOK, UnseenInv
<1>4. Announced' \in {Announced, Announced \cup {c}}
  <2>1. CASE unseen' = unseen
    <3>1. Announced' = Announced \cup {c}
      BY <1>1, <1>3, <2>1 DEF Announced
    <3> QED BY <3>1
  <2>2. CASE unseen' = unseen \cup {c}
    <3>1. Announced' = Announced
      BY <1>1, <1>3, <2>2 DEF Announced
    <3> QED BY <3>1
  <2> QED BY <1>1, <2>1, <2>2
<1> QED BY <1>1, <1>2, <1>4 DEF MonitorStep, Monitor!Next, Monitor!Lose

\* The steps of the peers.
LEMMA PeersStep ==
  ASSUME CoreInv, CoreInv', Peers
  PROVE  MonitorStep
<1>1. ASSUME NEW c \in Conns, GiveUp(c) \/ AnyCall(c) PROVE MonitorStep
  <2>1. UNCHANGED <<m_MapServiceInfo, enroller, peer, unseen>>
    BY <1>1 DEF GiveUp, AnyCall, Send, maps
  <2> QED BY <2>1, SameMapsSteps
<1> QED BY <1>1, ConnectSteps, LeaveSteps DEF Peers

-----------------------------------------------------------------------------
(* The dispatch thread.                                                    *)

\* onRegisterService is the moment of the enrolment.
LEMMA registerCallbackSteps ==
  ASSUME CoreInv, CoreInv', registerCallback
  PROVE  MonitorStep
<1> DEFINE s == serviceName
           c == uniqueBusName
<1>1. pc = "callback" /\ inbox # <<>> /\ Msg.type = "register" /\ IsCall(Msg)
  BY DEF registerCallback, CoreInv, HandlerInv, IsCall
<1>2. /\ s \in Names /\ c \in Conns /\ peer[c] # "absent"
      /\ Msg.args.actions \in Seq(RecoveryState)
  BY <1>1, HandledCall
<1>3. m_MapServiceInfo' = Registered(m_MapServiceInfo, s, Msg.args.actions) /\ UNCHANGED <<peer, unseen>>
  BY DEF registerCallback, peers
<1>4. /\ Accepts(m_MapServiceInfo, s) =>
           /\ s \in ServiceNames
           /\ DOMAIN m_MapServiceInfo' = DOMAIN m_MapServiceInfo \cup {s}
           /\ OnlineIn(m_MapServiceInfo') = OnlineIn(m_MapServiceInfo) \cup {s}
      /\ ~ Accepts(m_MapServiceInfo, s) => m_MapServiceInfo' = m_MapServiceInfo
  BY <1>2, <1>3, RegisteredKeeps DEF CoreInv, TypeOK
<1>5. CASE Accepts(m_MapServiceInfo, s)
  <2>1. enroller' = [enroller EXCEPT ![s] = c]
    BY <1>5 DEF registerCallback, Accepts
  <2>2. enroller'[s] = c /\ \A x \in Names : x # s => enroller'[x] = enroller[x]
    BY <1>2, <2>1 DEF CoreInv, TypeOK
  <2>3. View'[s] = Monitor!Online(c)
    BY <1>4, <1>5, <2>2 DEF View, Monitor!Online, OnlineIn
  <2>4. \A x \in ServiceNames \ {s} : View'[x] = View[x]
    BY <1>4, <1>5, <2>2, SameView, ServiceAssumption
  <2>5. Monitor!Enrol(s, c)
    BY <1>2, <1>3, <1>4, <1>5, <2>3, <2>4, SeeOne DEF Monitor!Enrol
  <2> QED BY <1>2, <1>4, <1>5, <2>5 DEF MonitorStep, Monitor!Next
<1>6. CASE ~ Accepts(m_MapServiceInfo, s)
  <2>1. enroller' = enroller
    <3>1. Accepts(m_MapServiceInfo, s) = FALSE
      BY <1>6 DEF Accepts
    <3>2. isOk' = Accepts(m_MapServiceInfo, s)
      BY DEF registerCallback
    <3> QED BY <3>1, <3>2 DEF registerCallback
  <2> QED BY <1>3, <1>4, <1>6, <2>1, SameMapsSteps
<1> QED BY <1>5, <1>6

\* onUnregisterService is the moment of the withdrawal.
LEMMA unregisterServiceSteps ==
  ASSUME CoreInv, CoreInv', unregisterService
  PROVE  MonitorStep
<1> DEFINE s == serviceName
<1>1. /\ inbox # <<>> /\ Msg.type = "unregister" /\ IsCall(Msg)
      /\ m_MapServiceInfo' = Erase(m_MapServiceInfo, s)
      /\ UNCHANGED <<peer, unseen>>
  BY DEF unregisterService, Handling, peers, IsCall
<1>2. s \in Names
  BY <1>1, HandledCall
<1>3. /\ DOMAIN m_MapServiceInfo' = DOMAIN m_MapServiceInfo \ {s}
      /\ OnlineIn(m_MapServiceInfo') = OnlineIn(m_MapServiceInfo) \ {s}
  BY <1>1, EraseKeeps DEF CoreInv, TypeOK
<1>4. \A x \in Names : x # s => enroller'[x] = enroller[x]
  BY <1>2 DEF unregisterService, CoreInv, TypeOK
<1>5. \A x \in ServiceNames \ {s} : View'[x] = View[x]
  BY <1>3, <1>4, SameView, ServiceAssumption
<1>6. CASE s \in ServiceNames
  <2>1. View'[s] = Monitor!Untracked
    BY <1>3, <1>6 DEF View, Monitor!Untracked
  <2>2. Monitor!Withdraw(s)
    BY <1>1, <1>5, <1>6, <2>1, SeeOne DEF Monitor!Withdraw
  <2> QED BY <1>6, <2>2 DEF MonitorStep, Monitor!Next
<1>7. CASE s \notin ServiceNames
  BY <1>1, <1>5, <1>7, NobodySees
<1> QED BY <1>6, <1>7

\* onReportServiceState changes no view.
LEMMA reportServiceStateSteps ==
  ASSUME CoreInv, CoreInv', reportServiceState
  PROVE  MonitorStep
<1>1. /\ DOMAIN m_MapServiceInfo' = DOMAIN m_MapServiceInfo
      /\ OnlineIn(m_MapServiceInfo') = OnlineIn(m_MapServiceInfo)
  BY ReportChangesNobody
<1>2. UNCHANGED <<peer, unseen, enroller>>
  BY DEF reportServiceState, peers
<1>3. \A x \in ServiceNames : View'[x] = View[x]
  BY <1>1, <1>2, SameView
<1> QED BY <1>2, <1>3, NobodySees

\* onServiceFailure is the moment the loss is noted: of a service that is online
\* through the connection that was announced, or of one that is not online.
LEMMA failureCallbackSteps ==
  ASSUME CoreInv, CoreInv', failureCallback
  PROVE  MonitorStep
<1> DEFINE s == lStrAffectedService
<1>1. /\ pc = "failure" /\ inbox # <<>> /\ ~ IsCall(Msg) /\ ~ Msg.owned
      /\ m_MapServiceInfo' \in AfterFailure(m_MapServiceInfo, s)
      /\ UNCHANGED <<peer, unseen, enroller>>
  BY DEF failureCallback, peers, CoreInv, HandlerInv, IsCall
<1>2. Msg.name \in Announced
  BY <1>1, HandledSignal
<1>3. /\ DOMAIN m_MapServiceInfo' = DOMAIN m_MapServiceInfo
      /\ OnlineIn(m_MapServiceInfo') = OnlineIn(m_MapServiceInfo) \ {s}
  BY <1>1, AfterFailureKeeps DEF CoreInv, TypeOK
<1>4. \A x \in ServiceNames \ {s} : View'[x] = View[x]
  BY <1>1, <1>3, SameView
<1>5. CASE s \in OnlineIn(m_MapServiceInfo)
  <2>1. enroller[s] = Msg.name
    BY <1>1, <1>5 DEF CoreInv, WatchInv, GapInv
  <2>2. s \in DOMAIN m_MapServiceInfo /\ s \in ServiceNames
    BY <1>5 DEF CoreInv, TypeOK, IsRegistry, OnlineIn
  <2>3. View[s] = Monitor!Online(Msg.name)
    BY <1>5, <2>1, <2>2, ViewOf
  <2>4. View'[s] = Monitor!Offline(Msg.name)
    <3>1. s \in DOMAIN m_MapServiceInfo' /\ s \notin OnlineIn(m_MapServiceInfo') /\ enroller'[s] = Msg.name
      BY <1>1, <1>3, <2>1, <2>2
    <3> QED BY <2>2, <3>1 DEF View, Monitor!Offline, OnlineIn
  <2>5. Monitor!See(s, Monitor!Offline(Msg.name))
    BY <1>1, <1>4, <2>2, <2>4, SeeOne
  <2>6. Monitor!NoteLoss(s)
    BY <1>2, <2>3, <2>5 DEF Monitor!NoteLoss
  <2> QED BY <2>2, <2>6 DEF MonitorStep, Monitor!Next
<1>6. CASE s \notin OnlineIn(m_MapServiceInfo)
  <2>1. \A x \in ServiceNames : View'[x] = View[x]
    BY <1>1, <1>3, <1>6, SameView
  <2> QED BY <1>1, <2>1, NobodySees
<1> QED BY <1>5, <1>6

\* The other steps of the handlers concern the watch map, the queue and the reply.
LEMMA DispatchStep ==
  ASSUME CoreInv, CoreInv', Dispatch
  PROVE  MonitorStep
<1>1. CASE \/ queryUnixPidForBusName \/ watchPeer \/ unwatchPeer \/ replyToCaller
           \/ ignoreNameOwnerChanged \/ handleNameOwnerChanged
  <2>1. UNCHANGED <<m_MapServiceInfo, enroller, peer, unseen>>
    BY <1>1 DEF queryUnixPidForBusName, watchPeer, unwatchPeer, replyToCaller,
                ignoreNameOwnerChanged, handleNameOwnerChanged, maps, peers
  <2> QED BY <2>1, SameMapsSteps
<1> QED BY <1>1, registerCallbackSteps, unregisterServiceSteps, reportServiceStateSteps,
           failureCallbackSteps DEF Dispatch, registerService

\* The main thread changes no view.
LEMMA MainStep ==
  ASSUME CoreInv, CoreInv', Main
  PROVE  MonitorStep
<1>1. UNCHANGED <<m_MapServiceInfo, enroller, peer, unseen>>
  BY DEF Main, setCallbacks, runFails, publish, runUnsubscribed, subscribe, Startup, maps, peers
<1> QED BY <1>1, SameMapsSteps

\* Nothing is tracked and nobody is there.
LEMMA MonitorStart == Init => Monitor!Init
<1> SUFFICES ASSUME Init PROVE Monitor!Init
  OBVIOUS
<1>1. m_MapServiceInfo = <<>> /\ peer = [c \in Conns |-> "absent"] /\ unseen = {}
  BY DEF Init
<1>2. DOMAIN m_MapServiceInfo = {}
  BY <1>1
<1>3. View = [s \in ServiceNames |-> Monitor!Untracked]
  BY <1>2 DEF View, Monitor!Untracked
<1>4. Announced = {}
  BY <1>1 DEF Announced
<1> QED BY <1>1, <1>3, <1>4 DEF Monitor!Init

\* The stub, the two maps, the queue and the start-up implement ServiceMonitor: a
\* service changes its state only by a registration, a withdrawal, or the announced
\* loss of the very connection it is enrolled over, for any number of peers and
\* whatever is in flight.
THEOREM MonitorImplemented == Spec => ImplementsMonitor
<1>1. CoreInv /\ CoreInv' /\ [Next]_vars => [Monitor!Next]_(Monitor!vars)
  <2> SUFFICES ASSUME CoreInv, CoreInv', [Next]_vars PROVE MonitorStep
    BY DEF MonitorStep
  <2>1. CASE UNCHANGED vars
    BY <2>1, SameMapsSteps DEF vars
  <2>2. CASE Next
    BY <2>2, MainStep, PeersStep, DispatchStep DEF Next
  <2> QED BY <2>1, <2>2
<1> QED BY <1>1, MonitorStart, CoreInvariant, PTL DEF Spec, ImplementsMonitor, Monitor!Spec
=============================================================================
