---------------------------- MODULE DaemonProofs -----------------------------
(***************************************************************************)
(* Proofs about Daemon: what RecoveryServiceProofs and MonitorProofs show  *)
(* of the service holds of the deployed system too, through crashes,       *)
(* restarts, a registry that is destroyed while the dispatch thread goes   *)
(* on, and samples that call while there is no daemon.                     *)
(***************************************************************************)
EXTENDS Daemon, MonitorProofs, LossProofs

\* The i-th message is the last call of c in the inbox.
LastCall(c, i) ==
  /\ i \in DOMAIN inbox /\ IsCall(inbox[i]) /\ inbox[i].conn = c
  /\ \A j \in DOMAIN inbox : j > i => ~ (IsCall(inbox[j]) /\ inbox[j].conn = c)

\* What a peer is waiting for is the answer to its last call.
AwaitedInv ==
  \A c \in Conns : \A i \in DOMAIN inbox :
    Pending(c) /\ LastCall(c, i) => /\ inbox[i].type = call[c].op
                                    /\ inbox[i].args.service = call[c].service

\* A push is about to be refused because the service is not tracked.
RefusalInv ==
  pc = "reply" /\ Msg.type = "report" /\ ~ isOk => serviceName \notin DOMAIN m_MapServiceInfo

\* PushFollowsRegistration, of every peer.
PushInv ==
  \A c \in Conns :
    call[c].op = "report" /\ call[c].answer = "REFUSED" => c \notin accepted[call[c].service]

\* The peer enrolled last is one of the accepted ones, and who is not enrolled is
\* forgotten.
AcceptedInv ==
  /\ accepted \in [Names -> SUBSET Conns]
  /\ \A s \in Names : IF enroller[s] = NoConn THEN accepted[s] = {} ELSE enroller[s] \in accepted[s]

OrderInv == AwaitedInv /\ RefusalInv /\ PushInv

-----------------------------------------------------------------------------
(* The process and the samples.                                            *)

\* The process ends with all it held; the peers it leaves behind are told.
LEMMA ProcessEndsKeeps ==
  ASSUME CoreInv, NEW status, ProcessEnds(status)
  PROVE  CoreInv'
<1>1. /\ m_MapServiceInfo' = <<>> /\ m_ServiceToBusName' = <<>> /\ inbox' = <<>>
      /\ phase' = "down" /\ pc' = "idle" /\ isOk' = FALSE /\ lStrAffectedService' = ""
      /\ enroller' = [s \in Names |-> NoConn]
      /\ UNCHANGED <<peer, calls, unseen>>
  BY DEF ProcessEnds
<1>2. /\ IsRegistry(m_MapServiceInfo') /\ OnlineIn(m_MapServiceInfo') = {}
      /\ DOMAIN m_MapServiceInfo' = {} /\ DOMAIN m_ServiceToBusName' = {} /\ Range(inbox') = {}
  <2>1. DOMAIN m_MapServiceInfo' = {} /\ DOMAIN m_ServiceToBusName' = {} /\ DOMAIN inbox' = {}
    BY <1>1, EmptyMap
  <2>2. IsRegistry(m_MapServiceInfo') /\ OnlineIn(m_MapServiceInfo') = {}
    BY <1>1, EmptyRegistry
  <2> QED BY <2>1, <2>2 DEF Range
<1>3. \A c \in Conns : /\ call'[c] \in CallStates
                       /\ peer[c] # "up" => call'[c] = NoCall
  <2> SUFFICES ASSUME NEW c \in Conns
               PROVE  call'[c] \in CallStates /\ (peer[c] # "up" => call'[c] = NoCall)
    OBVIOUS
  <2>1. call[c] \in CallStates /\ (peer[c] # "up" => call[c] = NoCall)
    BY DEF CoreInv, TypeOK, AnswerInv
  <2>2. CASE Pending(c)
    <3>1. call'[c] = [call[c] EXCEPT !.answer = "ERROR"]
      BY <2>2 DEF ProcessEnds
    <3>2. call[c].answer = "none"
      BY <2>2 DEF Pending
    <3>3. peer[c] = "up"
      BY <2>1, <3>2 DEF NoCall
    <3> QED BY <2>1, <3>1, <3>2, <3>3 DEF CallStates
  <2>3. CASE ~ Pending(c)
    BY <2>1, <2>3 DEF ProcessEnds
  <2> QED BY <2>2, <2>3
<1>4. TypeOK'
  <2>1. call' \in [Conns -> CallStates]
    BY <1>3 DEF ProcessEnds
  <2>2. inbox' \in Seq(Messages) /\ m_ServiceToBusName' \in [DOMAIN m_ServiceToBusName' -> Conns]
    BY <1>1, EmptyMap
  <2> QED BY <1>1, <1>2, <2>1, <2>2 DEF CoreInv, TypeOK
<1>5. HandlerInv' /\ GapInv' /\ InboxInv' /\ WatchInv' /\ GoneInv'
  BY <1>1, <1>2 DEF HandlerInv, GapInv, InboxInv, WatchInv, GoneInv
<1>6. EnrolledInv'
  BY <1>1, <1>2, ServiceAssumption DEF EnrolledInv
<1>7. UnseenInv' /\ AnswerInv'
  BY <1>1, <1>2, <1>3 DEF CoreInv, UnseenInv, AnswerInv
<1> QED BY <1>4, <1>5, <1>6, <1>7 DEF CoreInv

\* The registry is destroyed under the dispatch thread: wherever its handler is, it
\* finds the old entries or none.
LEMMA leaveConsoleKeeps ==
  ASSUME CoreInv, leaveConsole
  PROVE  CoreInv'
<1>1. UNCHANGED <<phase, m_ServiceToBusName, inbox, pc, isOk, lStrAffectedService, peer, call,
                  calls, unseen>>
  BY DEF leaveConsole, handler, peers
<1>2. CASE UNCHANGED <<m_MapServiceInfo, enroller>>
  BY <1>1, <1>2, CoreStutters DEF vars
<1>3. CASE m_MapServiceInfo' = <<>> /\ enroller' = [s \in Names |-> NoConn]
  <2>1. /\ IsRegistry(m_MapServiceInfo') /\ OnlineIn(m_MapServiceInfo') = {}
        /\ DOMAIN m_MapServiceInfo' = {}
    BY <1>3, EmptyRegistry
  <2>2. /\ InboxInv' /\ UnseenInv' /\ AnswerInv'
        /\ Msg' = Msg /\ serviceName' = serviceName /\ uniqueBusName' = uniqueBusName
    BY <1>1, WithinHandler
  <2>3. TypeOK'
    BY <1>1, <1>3, <2>1 DEF CoreInv, TypeOK
  <2>4. HandlerInv' /\ GapInv'
    BY <1>1, <2>1, <2>2 DEF CoreInv, HandlerInv, GapInv
  <2>5. EnrolledInv' /\ WatchInv' /\ GoneInv'
    BY <1>3, <2>1, ServiceAssumption DEF EnrolledInv, WatchInv, GoneInv
  <2> QED BY <2>2, <2>3, <2>4, <2>5 DEF CoreInv
<1> QED BY <1>2, <1>3 DEF leaveConsole

\* A new process starts with nothing.
LEMMA RestartKeeps ==
  ASSUME CoreInv, Restart
  PROVE  CoreInv'
<1>1. /\ phase' = "constructed"
      /\ UNCHANGED <<m_MapServiceInfo, m_ServiceToBusName, inbox, pc, isOk, lStrAffectedService,
                     peer, call, calls, unseen, enroller>>
  BY DEF Restart, maps, handler, peers
<1> QED BY <1>1 DEF CoreInv, TypeOK, HandlerInv, InboxInv, Sent, Announced, EnrolledInv, WatchInv,
           GapInv, GoneInv, UnseenInv, AnswerInv, Msg, serviceName, uniqueBusName

\* What a step of a sample is to the service: a call, or a change of what the sample
\* itself knows that leaves it waiting for nothing.
SampleCalls(c) == \E request \in Requests(c) : Send(c, request) /\ UNCHANGED calls

SampleGoesOn(c) ==
  \E state \in CallStates :
    /\ peer[c] = "up"
    /\ state.answer = "ERROR" \/ (state.op # "report" /\ call[c].answer = "OK" /\ state.answer = "OK")
    /\ call' = [call EXCEPT ![c] = state]
    /\ UNCHANGED <<phase, maps, inbox, handler, peer, calls, unseen, enroller>>

\* The steps of the samples are of these two kinds.
LEMMA SampleSteps ==
  ASSUME CoreInv, NEW c \in Conns, Sample(c)
  PROVE  SampleCalls(c) \/ SampleGoesOn(c)
<1>1. CASE awaitScheduler(c)
  <2> DEFINE state == [NoCall EXCEPT !.op = "available"]
  <2>1. call[c] = NoCall /\ call' = [call EXCEPT ![c] = state]
    BY <1>1 DEF awaitScheduler
  <2>2. state \in CallStates /\ state.op = "available" /\ state.answer = "OK" /\ call[c].answer = "OK"
    BY <2>1 DEF NoCall, CallStates
  <2> HIDE DEF state
  <2> QED BY <1>1, <2>1, <2>2 DEF awaitScheduler, SampleGoesOn
<1>2. ASSUME NEW request \in Requests(c), proxyCall(c, request)
      PROVE  SampleCalls(c) \/ SampleGoesOn(c)
  <2> DEFINE state == [op |-> request.type, service |-> request.service, answer |-> "ERROR"]
  <2>1. state \in CallStates /\ state.answer = "ERROR"
    BY CallMessage DEF CallStates
  <2>2. CASE Send(c, request) /\ UNCHANGED calls
    BY <2>2 DEF SampleCalls
  <2>3. CASE ~ (Send(c, request) /\ UNCHANGED calls)
    <3>1. /\ peer[c] = "up" /\ call' = [call EXCEPT ![c] = state]
          /\ UNCHANGED <<phase, maps, inbox, handler, peer, calls, unseen, enroller>>
      BY <1>2, <2>3 DEF proxyCall
    <3> HIDE DEF state
    <3> QED BY <2>1, <3>1 DEF SampleGoesOn
  <2> QED BY <2>2, <2>3
<1>3. CASE registerApp(c)
  BY <1>2, <1>3 DEF registerApp, Requests
<1>4. CASE pushState(c)
  BY <1>2, <1>4 DEF pushState, Requests
<1> QED BY <1>1, <1>3, <1>4 DEF Sample

\* They keep the invariant.
LEMMA SampleKeeps ==
  ASSUME CoreInv, NEW c \in Conns, Sample(c)
  PROVE  CoreInv'
<1>1. CASE SampleCalls(c)
  <2>1. calls' \in 0 .. MaxCalls
    BY <1>1 DEF SampleCalls, CoreInv, TypeOK
  <2> QED BY <1>1, <2>1, SendKeeps DEF SampleCalls
<1>2. CASE SampleGoesOn(c)
  BY <1>2, CallStateKeeps DEF SampleGoesOn
<1> QED BY <1>1, <1>2, SampleSteps

\* A call of a peer that calls as it likes.
LEMMA AnyCallKeeps ==
  ASSUME CoreInv, NEW c \in Conns, AnyCall(c)
  PROVE  CoreInv'
<1>1. Peers
  BY DEF Peers
<1> QED BY <1>1, PeersKeep

\* Every step of the deployed system keeps the invariant.
LEMMA DaemonKeeps == CoreInv /\ [DaemonNext]_daemonVars => CoreInv'
<1> SUFFICES ASSUME CoreInv, [DaemonNext]_daemonVars PROVE CoreInv'
  OBVIOUS
<1>1. CASE UNCHANGED daemonVars
  BY <1>1, CoreStutters DEF daemonVars
<1>2. CASE MainThread \/ DispatchThread
  BY <1>2, MainKeeps, DispatchKeeps DEF MainThread, DispatchThread
<1>3. CASE \E c \in Conns : Client(c)
  BY <1>3, SampleKeeps DEF Client
<1>4. CASE \E c \in Conns : Connect(c) \/ Leave(c) \/ GiveUp(c) \/ OtherPeer(c)
  BY <1>4, ConnectKeeps, LeaveKeeps, GiveUpKeeps, AnyCallKeeps DEF OtherPeer
<1>5. CASE returnAfterFailedRun \/ finishExit \/ Crash \/ Terminate
  BY <1>5, ProcessEndsKeeps DEF returnAfterFailedRun, finishExit, Crash, Terminate
<1> QED BY <1>1, <1>2, <1>3, <1>4, <1>5, leaveConsoleKeeps, RestartKeeps DEF DaemonNext

\* The safety part of the specification.
LEMMA DaemonSafety == DaemonSpec => DaemonInit /\ [][DaemonNext]_daemonVars
  BY PTL DEF DaemonSpec

\* The inductive invariant of the service holds of the deployed system.
LEMMA DaemonCore == DaemonSpec => []CoreInv
<1>1. DaemonInit => CoreInv
  BY CoreStart DEF DaemonInit
<1> QED BY <1>1, DaemonKeeps, DaemonSafety, PTL

\* Through crashes and restarts too, a service is offline only when the peer that
\* registered it last has gone, and a peer that was told OK is watched, unless it was
\* replaced or the process that told it has lost its registry since.
THEOREM DaemonKeepsPromises == DaemonSpec => [](OfflineMeansGone /\ AcknowledgedIsWatched)
  BY DaemonCore, CoreOffline, CoreAcknowledged, PTL

-----------------------------------------------------------------------------
(* The refinement of ServiceMonitor.                                       *)

\* Everything is forgotten at once.
LEMMA WipeSteps ==
  ASSUME CoreInv, m_MapServiceInfo' = <<>>, UNCHANGED <<peer, unseen>>
  PROVE  MonitorStep
<1>1. DOMAIN m_MapServiceInfo' = {}
  BY EmptyMap
<1>2. View' = [s \in ServiceNames |-> Monitor!Untracked]
  BY <1>1 DEF View, Monitor!Untracked
<1>3. Announced' = Announced
  BY DEF Announced
<1> QED BY <1>2, <1>3 DEF MonitorStep, Monitor!Next, Monitor!Forget

\* Every step of the deployed system is one that ServiceMonitor allows.
LEMMA DaemonSteps ==
  ASSUME CoreInv, CoreInv', [DaemonNext]_daemonVars
  PROVE  MonitorStep
<1>1. CASE UNCHANGED daemonVars
  BY <1>1, SameMapsSteps DEF daemonVars, vars
<1>2. CASE MainThread \/ DispatchThread
  BY <1>2, MainStep, DispatchStep DEF MainThread, DispatchThread
<1>3. CASE \E c \in Conns : Client(c)
  <2>1. UNCHANGED <<m_MapServiceInfo, enroller, peer, unseen>>
    BY <1>3, SampleSteps DEF Client, SampleCalls, SampleGoesOn, Send, maps
  <2> QED BY <2>1, SameMapsSteps
<1>4. CASE \E c \in Conns : Connect(c) \/ Leave(c) \/ GiveUp(c) \/ OtherPeer(c)
  BY <1>4, PeersStep DEF OtherPeer, Peers
<1>5. CASE returnAfterFailedRun \/ finishExit \/ Crash \/ Terminate
  BY <1>5, WipeSteps DEF returnAfterFailedRun, finishExit, Crash, Terminate, ProcessEnds
<1>6. CASE leaveConsole
  BY <1>6, WipeSteps, SameMapsSteps DEF leaveConsole, peers
<1>7. CASE Restart
  BY <1>7, SameMapsSteps DEF Restart, maps, peers
<1> QED BY <1>1, <1>2, <1>3, <1>4, <1>5, <1>6, <1>7 DEF DaemonNext

\* The deployed system implements ServiceMonitor: also a crash, a restart and the
\* destruction of the registry under the dispatch thread only ever forget the view as
\* a whole, and no service goes offline except by the announced loss of its connection.
THEOREM DaemonImplementsMonitor == DaemonSpec => ImplementsMonitor
<1>1. CoreInv /\ CoreInv' /\ [DaemonNext]_daemonVars => [Monitor!Next]_(Monitor!vars)
  BY DaemonSteps DEF MonitorStep
<1>2. DaemonInit => Monitor!Init
  BY MonitorStart DEF DaemonInit
<1> QED BY <1>1, <1>2, DaemonCore, DaemonSafety, PTL DEF ImplementsMonitor, Monitor!Spec

-----------------------------------------------------------------------------
(* Announced losses.                                                       *)

\* Nobody is online any more, so nobody's loss is outstanding.
LEMMA WipeKeepsLoss ==
  ASSUME CoreInv, LossInv, m_MapServiceInfo' = <<>>, enroller' = [s \in Names |-> NoConn],
         UNCHANGED <<peer, unseen>>, inbox' \in {<<>>, inbox}
  PROVE  LossInv'
<1>1. OnlineIn(m_MapServiceInfo') = {}
  BY EmptyRegistry
<1>2. Announced' = Announced
  BY DEF Announced
<1>3. EnrollersCame'
  BY ServiceAssumption DEF EnrollersCame
<1>4. \A c \in Announced : LossComes(c)'
  BY <1>1 DEF LossComes
<1>5. \A c \in Announced : CallsFirst(c)'
  BY EmptyMap DEF LossInv, CallsFirst, LostAfter
<1> QED BY <1>2, <1>3, <1>4, <1>5 DEF LossInv

\* Every step of the deployed system keeps what LossProofs shows of the service.
LEMMA DaemonLoss ==
  ASSUME OneServicePerPeer, CoreInv, WatchedInv, LossInv, [DaemonNext]_daemonVars
  PROVE  WatchedInv' /\ LossInv'
<1>1. CASE UNCHANGED daemonVars \/ Restart
  BY <1>1, StillKeepsLoss, WatchedFrame DEF daemonVars, vars, Restart, maps, handler, peers
<1>2. CASE MainThread
  BY <1>2, LossMain, WatchedFrame DEF MainThread, Main, setCallbacks, runFails, publish,
     runUnsubscribed, subscribe, Startup, maps
<1>3. CASE DispatchThread
  BY <1>3, LossDispatch, WatchedDispatch DEF DispatchThread
<1>4. CASE \E c \in Conns : Client(c)
  <2>1. PICK c \in Conns : SampleCalls(c) \/ SampleGoesOn(c)
    BY <1>4, SampleSteps DEF Client
  <2>2. UNCHANGED m_ServiceToBusName
    BY <2>1 DEF SampleCalls, SampleGoesOn, Send, maps
  <2>3. LossInv'
    BY <2>1, SendKeepsLoss, StillKeepsLoss DEF SampleCalls, SampleGoesOn, maps, handler
  <2> QED BY <2>2, <2>3, WatchedFrame
<1>5. CASE \E c \in Conns : Connect(c) \/ Leave(c) \/ GiveUp(c) \/ OtherPeer(c)
  <2>1. UNCHANGED m_ServiceToBusName
    BY <1>5 DEF Connect, Leave, GiveUp, OtherPeer, AnyCall, Send, maps
  <2> QED BY <1>5, <2>1, LossPeer, WatchedFrame DEF OtherPeer
<1>6. CASE returnAfterFailedRun \/ finishExit \/ Crash \/ Terminate
  <2>1. /\ m_MapServiceInfo' = <<>> /\ m_ServiceToBusName' = <<>> /\ inbox' = <<>>
        /\ enroller' = [s \in Names |-> NoConn] /\ UNCHANGED <<peer, unseen>>
    BY <1>6 DEF returnAfterFailedRun, finishExit, Crash, Terminate, ProcessEnds
  <2>2. WatchedInv'
    BY <2>1, EmptyMap DEF WatchedInv
  <2> QED BY <2>1, <2>2, WipeKeepsLoss
<1>7. CASE leaveConsole
  <2>1. UNCHANGED <<m_ServiceToBusName, inbox, pc, lStrAffectedService, peer, unseen>>
    BY <1>7 DEF leaveConsole, handler, peers
  <2>2. LossInv'
    BY <1>7, <2>1, WipeKeepsLoss, StillKeepsLoss DEF leaveConsole
  <2> QED BY <2>1, <2>2, WatchedFrame
<1> QED BY <1>1, <1>2, <1>3, <1>4, <1>5, <1>6, <1>7 DEF DaemonNext

\* No announced loss is forgotten by the deployed system: a crash forgets the service
\* together with the signal, a new process starts with neither, and a registry that is
\* destroyed leaves nobody online.
THEOREM DaemonHandlesLosses == OneServicePerPeer /\ DaemonSpec => []AnnouncedLossIsHandled
<1> SUFFICES ASSUME OneServicePerPeer PROVE DaemonSpec => []AnnouncedLossIsHandled
  OBVIOUS
<1>1. CoreInv /\ WatchedInv /\ LossInv /\ [DaemonNext]_daemonVars => WatchedInv' /\ LossInv'
  BY DaemonLoss
<1>2. DaemonInit => WatchedInv /\ LossInv
  BY LossStart DEF DaemonInit
<1>3. DaemonSpec => [](WatchedInv /\ LossInv)
  BY <1>1, <1>2, DaemonCore, DaemonSafety, PTL
<1> QED BY <1>3, LossHandled, DaemonCore, PTL

-----------------------------------------------------------------------------
(* The order of a peer's calls.                                            *)

\* A message that is not a call of c arrives: its last call stays the last.
LEMMA LastCallStays ==
  ASSUME TypeOK, NEW e \in Messages, inbox' = Append(inbox, e),
         NEW c, ~ (IsCall(e) /\ e.conn = c), NEW i, LastCall(c, i)'
  PROVE  LastCall(c, i) /\ inbox'[i] = inbox[i]
<1>1. i \in DOMAIN inbox' /\ IsCall(inbox'[i]) /\ inbox'[i].conn = c
  BY DEF LastCall
<1>2. i \in DOMAIN inbox /\ inbox'[i] = inbox[i]
  BY <1>1, ArrivalPositions
<1>3. \A j \in DOMAIN inbox : j \in DOMAIN inbox' /\ inbox'[j] = inbox[j]
  BY ArrivalPositions
<1> QED BY <1>1, <1>2, <1>3 DEF LastCall

\* A call of c arrives: it is the last.
LEMMA LastCallComes ==
  ASSUME TypeOK, NEW e \in Messages, inbox' = Append(inbox, e),
         IsCall(e), NEW i, LastCall(e.conn, i)'
  PROVE  inbox'[i] = e
<1>1. /\ DOMAIN inbox' = DOMAIN inbox \cup {Len(inbox) + 1}
      /\ \A j \in DOMAIN inbox : j < Len(inbox) + 1
      /\ inbox'[Len(inbox) + 1] = e
      /\ Len(inbox) \in Nat /\ DOMAIN inbox \subseteq Nat
  BY ArrivalPositions
<1>2. i \in DOMAIN inbox' /\ ~ (Len(inbox) + 1 > i)
  BY <1>1 DEF LastCall
<1>3. i = Len(inbox) + 1
  BY <1>1, <1>2
<1> QED BY <1>1, <1>3

\* The head is done with: the last call was the last before.
LEMMA LastCallMovesUp ==
  ASSUME TypeOK, inbox # <<>>, inbox' = Tail(inbox), NEW c, NEW i, LastCall(c, i)'
  PROVE  LastCall(c, i + 1) /\ inbox'[i] = inbox[i + 1]
<1>1. i \in DOMAIN inbox' /\ IsCall(inbox'[i]) /\ inbox'[i].conn = c
  BY DEF LastCall
<1>2. i + 1 \in DOMAIN inbox /\ inbox'[i] = inbox[i + 1] /\ i \in Nat
  BY <1>1, DeparturePositions
<1>3. ASSUME NEW j \in DOMAIN inbox, j > i + 1
      PROVE  ~ (IsCall(inbox[j]) /\ inbox[j].conn = c)
  <2>1. j \in Nat /\ j > 1
    BY <1>2, <1>3, DeparturePositions
  <2>2. j - 1 \in DOMAIN inbox' /\ inbox'[j - 1] = inbox[j]
    BY <2>1, DeparturePositions
  <2>3. j - 1 > i
    BY <1>2, <1>3, <2>1
  <2> QED BY <2>2, <2>3 DEF LastCall
<1> QED BY <1>1, <1>2, <1>3 DEF LastCall

-----------------------------------------------------------------------------
(* The accepted registrations.                                             *)

\* A step that enrols nobody and forgets nobody accepts nobody.
LEMMA NobodyAccepted ==
  ASSUME AcceptedInv, Remember, UNCHANGED enroller
  PROVE  UNCHANGED accepted
<1>1. \A s \in Names : accepted'[s] = accepted[s]
  BY DEF Remember, AcceptedInv
<1> QED BY <1>1 DEF Remember, AcceptedInv

\* Who was not accepted and is not enrolled by this step is not accepted by it.
LEMMA OnlyEnrolledAccepted ==
  ASSUME Remember, NEW s \in Names, NEW c, c \notin accepted[s], enroller'[s] # c
  PROVE  c \notin accepted'[s]
  BY DEF Remember

\* What follows enroller keeps the invariant.
LEMMA RememberKeeps ==
  ASSUME CoreInv', AcceptedInv, Remember
  PROVE  AcceptedInv'
<1>1. \A s \in Names : enroller'[s] \in Conns \cup {NoConn}
  BY DEF CoreInv, TypeOK
<1> QED BY <1>1, ServiceAssumption DEF AcceptedInv, Remember

\* Every step of the deployed system keeps the invariant.
LEMMA AcceptedStep ==
  ASSUME CoreInv, CoreInv', AcceptedInv, [DaemonNext]_daemonVars
  PROVE  AcceptedInv'
<1>1. ASSUME UNCHANGED <<enroller, accepted>> PROVE AcceptedInv'
  BY <1>1 DEF AcceptedInv
<1>2. CASE UNCHANGED daemonVars \/ MainThread \/ Restart
  BY <1>1, <1>2 DEF daemonVars, vars, MainThread, Main, setCallbacks, runFails, publish,
                    runUnsubscribed, subscribe, Startup, Restart
<1>3. CASE DispatchThread \/ leaveConsole
  BY <1>3, RememberKeeps DEF DispatchThread, leaveConsole
<1>4. CASE \E c \in Conns : Client(c)
  <2>1. UNCHANGED enroller
    BY <1>4, SampleSteps DEF Client, SampleCalls, SampleGoesOn, Send
  <2> QED BY <1>1, <1>4, <2>1 DEF Client
<1>5. CASE \E c \in Conns : /\ Connect(c) \/ Leave(c) \/ GiveUp(c) \/ OtherPeer(c)
                           /\ UNCHANGED <<life, accepted>>
  BY <1>1, <1>5 DEF Connect, Leave, GiveUp, OtherPeer, AnyCall, Send
<1>6. CASE returnAfterFailedRun \/ finishExit \/ Crash \/ Terminate
  <2>1. enroller' = [s \in Names |-> NoConn] /\ accepted' = [s \in Names |-> {}]
    BY <1>6 DEF returnAfterFailedRun, finishExit, Crash, Terminate, ProcessEnds
  <2> QED BY <2>1 DEF AcceptedInv
<1> QED BY <1>2, <1>3, <1>4, <1>5, <1>6 DEF DaemonNext

-----------------------------------------------------------------------------
(* The peers.                                                              *)

\* The call of c is as it was, or c goes on: it waits for nothing and no push of it
\* was refused just now.
GoesOn(c) ==
  \/ call'[c] = call[c]
  \/ call'[c].answer # "none" /\ ~ (call'[c].op = "report" /\ call'[c].answer = "REFUSED")

\* A handler that is under way keeps its message and finds what it found.
LEMMA RefusalFrame ==
  ASSUME CoreInv, RefusalInv, UNCHANGED <<m_MapServiceInfo, pc, isOk>>, inbox # <<>> => Msg' = Msg
  PROVE  RefusalInv'
  BY DEF RefusalInv, serviceName, CoreInv, HandlerInv

\* Peers that go on have no push refused.
LEMMA PushFrame ==
  ASSUME PushInv, UNCHANGED accepted, \A c \in Conns : GoesOn(c)
  PROVE  PushInv'
  BY DEF PushInv, GoesOn

\* Peers go on; no message comes or goes.
LEMMA OrderFrame ==
  ASSUME CoreInv, OrderInv, \A c \in Conns : GoesOn(c),
         UNCHANGED <<m_MapServiceInfo, pc, isOk, inbox, accepted>>
  PROVE  OrderInv'
<1>1. AwaitedInv'
  BY DEF OrderInv, AwaitedInv, GoesOn, LastCall, Pending
<1>2. RefusalInv'
  BY RefusalFrame DEF OrderInv, Msg
<1> QED BY <1>1, <1>2, PushFrame DEF OrderInv

\* Peers go on, and a signal arrives.
LEMMA OrderSignal ==
  ASSUME CoreInv, OrderInv, \A c \in Conns : GoesOn(c),
         NEW e \in Messages, ~ IsCall(e), inbox' = Append(inbox, e),
         UNCHANGED <<m_MapServiceInfo, pc, isOk, accepted>>
  PROVE  OrderInv'
<1>1. AwaitedInv'
  <2> SUFFICES ASSUME NEW c \in Conns, NEW i \in DOMAIN inbox', Pending(c)', LastCall(c, i)'
               PROVE  /\ inbox'[i].type = call'[c].op
                      /\ inbox'[i].args.service = call'[c].service
    BY DEF AwaitedInv
  <2>1. call'[c] = call[c] /\ Pending(c)
    BY DEF GoesOn, Pending
  <2>2. LastCall(c, i) /\ inbox'[i] = inbox[i]
    BY LastCallStays DEF CoreInv
  <2>3. i \in DOMAIN inbox
    BY <2>2 DEF LastCall
  <2> QED BY <2>1, <2>2, <2>3 DEF OrderInv, AwaitedInv
<1>2. RefusalInv'
  BY RefusalFrame, Arrival DEF OrderInv, CoreInv
<1> QED BY <1>1, <1>2, PushFrame DEF OrderInv

\* A peer calls: that call is its last and the one it waits for.
LEMMA OrderSend ==
  ASSUME CoreInv, OrderInv, NEW c \in Conns, NEW request \in Requests(c), Send(c, request),
         UNCHANGED accepted
  PROVE  OrderInv'
<1> DEFINE e == CallOf(c, request)
<1>1. /\ call' = [call EXCEPT ![c] = [op |-> request.type, service |-> request.service, answer |-> "none"]]
      /\ inbox' = Append(inbox, e)
      /\ UNCHANGED <<m_MapServiceInfo, pc, isOk>>
  BY DEF Send, CallOf, maps, handler
<1>2. /\ e \in Messages /\ IsCall(e) /\ e.conn = c
      /\ e.type = request.type /\ e.args.service = request.service
  BY CallMessage DEF CallOf
<1> HIDE DEF e
<1>3. /\ call'[c].op = request.type /\ call'[c].service = request.service /\ call'[c].answer = "none"
      /\ \A d \in Conns : d # c => call'[d] = call[d]
  BY <1>1 DEF CoreInv, TypeOK
<1>4. AwaitedInv'
  <2> SUFFICES ASSUME NEW d \in Conns, NEW i \in DOMAIN inbox', Pending(d)', LastCall(d, i)'
               PROVE  /\ inbox'[i].type = call'[d].op
                      /\ inbox'[i].args.service = call'[d].service
    BY DEF AwaitedInv
  <2>1. CASE d = c
    BY <1>1, <1>2, <1>3, <2>1, LastCallComes DEF CoreInv
  <2>2. CASE d # c
    <3>1. LastCall(d, i) /\ inbox'[i] = inbox[i]
      BY <1>1, <1>2, <2>2, LastCallStays DEF CoreInv
    <3>2. i \in DOMAIN inbox
      BY <3>1 DEF LastCall
    <3>3. call'[d] = call[d] /\ Pending(d)
      BY <1>3, <2>2 DEF Pending
    <3> QED BY <3>1, <3>2, <3>3 DEF OrderInv, AwaitedInv
  <2> QED BY <2>1, <2>2
<1>5. RefusalInv'
  BY <1>1, <1>2, RefusalFrame, Arrival DEF OrderInv, CoreInv
<1>6. PushInv'
  BY <1>3 DEF OrderInv, PushInv
<1> QED BY <1>4, <1>5, <1>6 DEF OrderInv

\* The steps of the peers and the samples.
LEMMA OrderPeers ==
  ASSUME CoreInv, OrderInv, NEW c \in Conns,
         Connect(c) \/ Leave(c) \/ GiveUp(c) \/ AnyCall(c) \/ Sample(c), UNCHANGED accepted
  PROVE  OrderInv'
<1>1. ASSUME NEW state, call' = [call EXCEPT ![c] = state], state.answer # "none",
             ~ (state.op = "report" /\ state.answer = "REFUSED")
      PROVE  \A d \in Conns : GoesOn(d)
  <2>1. call'[c] = state /\ \A d \in Conns : d # c => call'[d] = call[d]
    BY <1>1 DEF CoreInv, TypeOK
  <2> QED BY <1>1, <2>1 DEF GoesOn
<1>2. ASSUME NEW owned \in BOOLEAN, Signal(c, owned), \A d \in Conns : GoesOn(d),
             UNCHANGED <<m_MapServiceInfo, pc, isOk>>
      PROVE  OrderInv'
  <2>1. NameOwnerChanged(c, owned) \in Messages /\ ~ IsCall(NameOwnerChanged(c, owned))
    BY SignalMessage
  <2> QED BY <1>2, <2>1, OrderSignal, OrderFrame DEF Signal
<1>3. CASE Connect(c)
  <2>1. call' = call /\ UNCHANGED <<m_MapServiceInfo, pc, isOk>> /\ Signal(c, TRUE)
    BY <1>3 DEF Connect, maps, handler
  <2> QED BY <1>2, <2>1 DEF GoesOn
<1>4. CASE Leave(c)
  <2>1. /\ call' = [call EXCEPT ![c] = NoCall] /\ Signal(c, FALSE)
        /\ UNCHANGED <<m_MapServiceInfo, pc, isOk>>
    BY <1>4 DEF Leave, maps, handler
  <2>2. NoCall.answer # "none" /\ NoCall.op # "report"
    BY DEF NoCall
  <2>3. \A d \in Conns : GoesOn(d)
    BY <1>1, <2>1, <2>2
  <2> QED BY <1>2, <2>1, <2>3
<1>5. CASE GiveUp(c)
  <2> DEFINE state == [call[c] EXCEPT !.answer = "ERROR"]
  <2>1. /\ call' = [call EXCEPT ![c] = state]
        /\ UNCHANGED <<m_MapServiceInfo, pc, isOk, inbox>>
    BY <1>5 DEF GiveUp, maps, handler
  <2>2. state.answer = "ERROR"
    <3>1. call[c] \in CallStates
      BY DEF CoreInv, TypeOK
    <3> QED BY <3>1 DEF CallStates
  <2> HIDE DEF state
  <2>3. \A d \in Conns : GoesOn(d)
    BY <1>1, <2>1, <2>2
  <2> QED BY <2>1, <2>3, OrderFrame
<1>6. CASE AnyCall(c)
  BY <1>6, OrderSend DEF AnyCall, Requests
<1>7. CASE SampleCalls(c)
  BY <1>7, OrderSend DEF SampleCalls
<1>8. CASE SampleGoesOn(c)
  <2>1. PICK state \in CallStates :
          /\ state.answer = "ERROR" \/ (state.op # "report" /\ state.answer = "OK")
          /\ call' = [call EXCEPT ![c] = state]
    BY <1>8 DEF SampleGoesOn
  <2>2. UNCHANGED <<m_MapServiceInfo, pc, isOk, inbox>>
    BY <1>8 DEF SampleGoesOn, maps, handler
  <2>3. state.answer # "none" /\ ~ (state.op = "report" /\ state.answer = "REFUSED")
    BY <2>1
  <2>4. \A d \in Conns : GoesOn(d)
    BY <1>1, <2>1, <2>3
  <2> QED BY <2>2, <2>4, OrderFrame
<1> QED BY <1>3, <1>4, <1>5, <1>6, <1>7, <1>8, SampleSteps

-----------------------------------------------------------------------------
(* The dispatch thread and the process.                                    *)

\* A step of a handler before its end: what is left to show is about the locals and
\* the enrollers.
LEMMA OrderWithin ==
  ASSUME CoreInv, OrderInv, UNCHANGED <<inbox, call>>, RefusalInv', PushInv'
  PROVE  OrderInv'
<1>1. AwaitedInv'
  BY DEF OrderInv, AwaitedInv, LastCall, Pending
<1> QED BY <1>1 DEF OrderInv

\* registerService: a peer whose push was refused has no call left, so it is not the
\* caller.
LEMMA registerCallbackOrder ==
  ASSUME CoreInv, OrderInv, AcceptedInv, registerCallback, Remember
  PROVE  OrderInv'
<1>1. /\ pc = "callback" /\ inbox # <<>> /\ Msg.type = "register" /\ IsCall(Msg)
      /\ UNCHANGED <<inbox, call, peer>>
  BY DEF registerCallback, peers, CoreInv, HandlerInv, IsCall
<1>2. Msg' = Msg
  BY <1>1 DEF Msg
<1>3. RefusalInv'
  BY <1>1, <1>2 DEF RefusalInv
<1>4. Msg \in Range(inbox) /\ serviceName \in Names
  BY <1>1, HeadMessage, HandledCall DEF CoreInv
<1>5. PushInv'
  <2> SUFFICES ASSUME NEW c \in Conns, call[c].op = "report", call[c].answer = "REFUSED"
               PROVE  c \notin accepted'[call[c].service]
    BY <1>1 DEF PushInv
  <2>1. peer[c] = "up"
    BY DEF CoreInv, AnswerInv, NoCall
  <2>2. uniqueBusName # c
    BY <1>1, <1>4, <2>1 DEF CoreInv, AnswerInv, uniqueBusName
  <2>3. call[c].service \in Names
    <3>1. call[c] \in CallStates
      BY DEF CoreInv, TypeOK
    <3> QED BY <3>1 DEF CallStates
  <2>4. enroller' \in {enroller, [enroller EXCEPT ![serviceName] = uniqueBusName]}
    BY DEF registerCallback
  <2>5. c \notin accepted[call[c].service]
    BY DEF OrderInv, PushInv
  <2>6. CASE enroller' = enroller
    BY <2>5, <2>6, NobodyAccepted
  <2>7. CASE enroller' = [enroller EXCEPT ![serviceName] = uniqueBusName] /\ enroller' # enroller
    <3>1. CASE call[c].service = serviceName
      <4>1. enroller'[serviceName] = uniqueBusName
        BY <1>4, <2>7 DEF CoreInv, TypeOK
      <4> QED BY <2>2, <2>3, <2>5, <3>1, <4>1, OnlyEnrolledAccepted
    <3>2. CASE call[c].service # serviceName
      <4>1. enroller'[call[c].service] = enroller[call[c].service]
        BY <1>4, <2>3, <2>7, <3>2 DEF CoreInv, TypeOK
      <4>2. enroller[call[c].service] # c
        BY <2>3, <2>5, ServiceAssumption DEF AcceptedInv
      <4> QED BY <2>3, <2>5, <4>1, <4>2, OnlyEnrolledAccepted
    <3> QED BY <3>1, <3>2
  <2> QED BY <2>4, <2>6, <2>7
<1> QED BY <1>1, <1>3, <1>5, OrderWithin

\* unregisterService: nobody is enrolled by it.
LEMMA unregisterServiceOrder ==
  ASSUME CoreInv, OrderInv, AcceptedInv, unregisterService, Remember
  PROVE  OrderInv'
<1>1. /\ inbox # <<>> /\ Msg.type = "unregister" /\ IsCall(Msg) /\ UNCHANGED <<inbox, call>>
      /\ enroller' \in {enroller, [enroller EXCEPT ![serviceName] = NoConn]}
  BY DEF unregisterService, Handling, peers, IsCall
<1>2. Msg' = Msg
  BY <1>1 DEF Msg
<1>3. RefusalInv'
  BY <1>1, <1>2 DEF RefusalInv
<1>4. PushInv'
  <2> SUFFICES ASSUME NEW c \in Conns, call[c].op = "report", call[c].answer = "REFUSED"
               PROVE  c \notin accepted'[call[c].service]
    BY <1>1 DEF PushInv
  <2>1. serviceName \in Names
    BY <1>1, HandledCall
  <2>2. call[c].service \in Names
    <3>1. call[c] \in CallStates
      BY DEF CoreInv, TypeOK
    <3> QED BY <3>1 DEF CallStates
  <2>3. c \notin accepted[call[c].service]
    BY DEF OrderInv, PushInv
  <2>4. enroller[call[c].service] # c
    BY <2>2, <2>3, ServiceAssumption DEF AcceptedInv
  <2>5. enroller'[call[c].service] # c
    BY <1>1, <2>1, <2>2, <2>4, ServiceAssumption DEF CoreInv, TypeOK
  <2> QED BY <2>2, <2>3, <2>5, OnlyEnrolledAccepted
<1> QED BY <1>1, <1>3, <1>4, OrderWithin

\* reportServiceState refuses what is not tracked.
LEMMA reportServiceStateOrder ==
  ASSUME CoreInv, OrderInv, AcceptedInv, reportServiceState, Remember
  PROVE  OrderInv'
<1>1. /\ isOk' = (serviceName \in DOMAIN m_MapServiceInfo)
      /\ UNCHANGED <<inbox, call, enroller>>
  BY DEF reportServiceState, peers
<1>2. DOMAIN m_MapServiceInfo' = DOMAIN m_MapServiceInfo
  BY ReportChangesNobody
<1>3. serviceName' = serviceName
  BY <1>1 DEF serviceName, Msg
<1>4. RefusalInv'
  BY <1>1, <1>2, <1>3 DEF RefusalInv
<1>5. PushInv'
  BY <1>1, NobodyAccepted DEF OrderInv, PushInv
<1> QED BY <1>1, <1>4, <1>5, OrderWithin

\* The other steps of the handlers before their end.
LEMMA QuietStepsOrder ==
  ASSUME CoreInv, OrderInv, AcceptedInv, Remember,
         queryUnixPidForBusName \/ watchPeer \/ unwatchPeer \/ handleNameOwnerChanged
  PROVE  OrderInv'
<1>1. UNCHANGED <<inbox, call, enroller>>
  BY DEF queryUnixPidForBusName, watchPeer, unwatchPeer, handleNameOwnerChanged, peers
<1>2. Msg' = Msg
  BY <1>1 DEF Msg
<1>3. RefusalInv'
  BY <1>2 DEF RefusalInv, queryUnixPidForBusName, watchPeer, unwatchPeer, handleNameOwnerChanged,
              CoreInv, HandlerInv
<1>4. PushInv'
  BY <1>1, NobodyAccepted DEF OrderInv, PushInv
<1> QED BY <1>1, <1>3, <1>4, OrderWithin

\* A handler ends: what is left to show is about the answer.
LEMMA OrderHandled ==
  ASSUME CoreInv, OrderInv, inbox # <<>>, inbox' = Tail(inbox), pc' = "idle",
         \A c \in Conns : call'[c] = call[c] \/ call'[c].answer # "none",
         PushInv'
  PROVE  OrderInv'
<1>1. AwaitedInv'
  <2> SUFFICES ASSUME NEW c \in Conns, NEW i \in DOMAIN inbox', Pending(c)', LastCall(c, i)'
               PROVE  /\ inbox'[i].type = call'[c].op
                      /\ inbox'[i].args.service = call'[c].service
    BY DEF AwaitedInv
  <2>1. call'[c] = call[c] /\ Pending(c)
    BY DEF Pending
  <2>2. LastCall(c, i + 1) /\ inbox'[i] = inbox[i + 1]
    BY LastCallMovesUp DEF CoreInv
  <2>3. i + 1 \in DOMAIN inbox
    BY <2>2 DEF LastCall
  <2> QED BY <2>1, <2>2, <2>3 DEF OrderInv, AwaitedInv
<1>2. RefusalInv'
  BY DEF RefusalInv
<1> QED BY <1>1, <1>2 DEF OrderInv

\* reply(): the answer that is awaited is the one to this very message.
LEMMA replyToCallerOrder ==
  ASSUME CoreInv, OrderInv, AcceptedInv, replyToCaller, Remember
  PROVE  OrderInv'
<1> DEFINE c == uniqueBusName
<1>1. /\ pc = "reply" /\ pc' = "idle" /\ inbox # <<>> /\ IsCall(Msg) /\ inbox' = Tail(inbox)
      /\ UNCHANGED <<enroller, accepted>>
  BY NobodyAccepted DEF replyToCaller, CoreInv, HandlerInv
<1>2. c \in Conns /\ serviceName \in Names
  BY <1>1, HandledCall
<1>3. CASE ~ Awaited
  <2>1. call' = call
    BY <1>3 DEF replyToCaller
  <2>2. PushInv'
    BY <1>1, <2>1 DEF OrderInv, PushInv
  <2> QED BY <1>1, <2>1, <2>2, OrderHandled
<1>4. CASE Awaited
  <2> DEFINE state == [call[c] EXCEPT !.answer = IF isOk THEN "OK" ELSE "REFUSED"]
  <2>1. call' = [call EXCEPT ![c] = state]
    BY <1>4 DEF replyToCaller
  <2>2. /\ state.answer = IF isOk THEN "OK" ELSE "REFUSED"
        /\ state.op = call[c].op /\ state.service = call[c].service
    <3>1. call[c] \in CallStates
      BY <1>2 DEF CoreInv, TypeOK
    <3> QED BY <3>1 DEF CallStates
  <2> HIDE DEF state
  <2>3. call'[c] = state /\ \A d \in Conns : d # c => call'[d] = call[d]
    BY <1>2, <2>1 DEF CoreInv, TypeOK
  <2>4. 1 \in DOMAIN inbox /\ inbox[1] = Msg /\ LastCall(c, 1)
    <3>1. inbox \in Seq(Messages)
      BY DEF CoreInv, TypeOK
    <3>2. 1 \in DOMAIN inbox /\ inbox[1] = Msg
      BY <1>1, <3>1 DEF Msg
    <3>3. \A j \in DOMAIN inbox : j > 1 => j \in 2 .. Len(inbox)
      BY <3>1
    <3> QED BY <1>1, <1>4, <3>2, <3>3 DEF LastCall, Awaited, Superseded, IsCall, uniqueBusName
  <2>5. Msg.type = call[c].op /\ serviceName = call[c].service
    BY <1>2, <1>4, <2>4 DEF OrderInv, AwaitedInv, Awaited, serviceName
  <2>6. PushInv'
    <3> SUFFICES ASSUME NEW d \in Conns, call'[d].op = "report", call'[d].answer = "REFUSED"
                 PROVE  d \notin accepted[call'[d].service]
      BY <1>1 DEF PushInv
    <3>1. CASE d # c
      BY <2>3, <3>1 DEF OrderInv, PushInv
    <3>2. CASE d = c
      <4>1. ~ isOk /\ Msg.type = "report"
        BY <2>2, <2>3, <2>5, <3>2
      <4>2. enroller[serviceName] \notin Conns
        BY <1>1, <1>2, <4>1 DEF OrderInv, RefusalInv, CoreInv, EnrolledInv
      <4>3. accepted[serviceName] = {}
        BY <1>2, <4>2 DEF AcceptedInv, CoreInv, TypeOK
      <4> QED BY <2>2, <2>3, <2>5, <3>2, <4>3
    <3> QED BY <3>1, <3>2
  <2>7. \A d \in Conns : call'[d] = call[d] \/ call'[d].answer # "none"
    BY <2>2, <2>3
  <2> QED BY <1>1, <2>6, <2>7, OrderHandled
<1> QED BY <1>3, <1>4

\* The steps of the dispatch thread.
LEMMA OrderDispatch ==
  ASSUME CoreInv, OrderInv, AcceptedInv, Dispatch, Remember
  PROVE  OrderInv'
<1>1. CASE ignoreNameOwnerChanged \/ failureCallback
  <2>1. /\ inbox # <<>> /\ inbox' = Tail(inbox) /\ pc' = "idle"
        /\ UNCHANGED <<call, enroller>>
    BY <1>1 DEF ignoreNameOwnerChanged, Handling, failureCallback, handler, peers, CoreInv, HandlerInv
  <2>2. PushInv'
    BY <2>1, NobodyAccepted DEF OrderInv, PushInv
  <2> QED BY <2>1, <2>2, OrderHandled
<1> QED BY <1>1, registerCallbackOrder, unregisterServiceOrder, reportServiceStateOrder,
           QuietStepsOrder, replyToCallerOrder DEF Dispatch, registerService

\* The process ends: nothing is queued and nobody is accepted.
LEMMA ProcessEndsOrder ==
  ASSUME CoreInv, NEW status, ProcessEnds(status)
  PROVE  OrderInv'
<1>1. inbox' = <<>> /\ pc' = "idle" /\ accepted' = [s \in Names |-> {}]
  BY DEF ProcessEnds
<1>2. DOMAIN inbox' = {}
  BY <1>1, EmptyMap
<1>3. CoreInv'
  BY ProcessEndsKeeps
<1>4. \A c \in Conns : call'[c].op = "report" => call'[c].service \in Names
  <2> SUFFICES ASSUME NEW c \in Conns, call'[c].op = "report" PROVE call'[c].service \in Names
    OBVIOUS
  <2>1. call'[c] \in CallStates
    BY <1>3 DEF CoreInv, TypeOK
  <2> QED BY <2>1 DEF CallStates
<1>5. AwaitedInv' /\ RefusalInv'
  BY <1>1, <1>2 DEF AwaitedInv, RefusalInv
<1>6. PushInv'
  BY <1>1, <1>4 DEF PushInv
<1> QED BY <1>5, <1>6 DEF OrderInv

\* The registry is destroyed under the dispatch thread.
LEMMA leaveConsoleOrder ==
  ASSUME CoreInv, OrderInv, AcceptedInv, leaveConsole
  PROVE  OrderInv'
<1>1. UNCHANGED <<inbox, call, pc, isOk>>
  BY DEF leaveConsole, handler, peers
<1>2. CASE UNCHANGED <<m_MapServiceInfo, enroller>>
  BY <1>1, <1>2, NobodyAccepted, OrderFrame DEF leaveConsole, GoesOn
<1>3. CASE m_MapServiceInfo' = <<>> /\ enroller' = [s \in Names |-> NoConn]
  <2>1. DOMAIN m_MapServiceInfo' = {}
    BY <1>3, EmptyMap
  <2>2. RefusalInv'
    BY <2>1 DEF RefusalInv
  <2>3. PushInv'
    <3> SUFFICES ASSUME NEW c \in Conns, call[c].op = "report"
                 PROVE  c \notin accepted'[call[c].service]
      BY <1>1 DEF PushInv
    <3>1. call[c] \in CallStates
      BY DEF CoreInv, TypeOK
    <3>2. call[c].service \in Names
      BY <3>1 DEF CallStates
    <3> QED BY <1>3, <3>2 DEF leaveConsole, Remember
  <2> QED BY <1>1, <2>2, <2>3, OrderWithin
<1> QED BY <1>2, <1>3 DEF leaveConsole

\* Every step of the deployed system keeps the order.
LEMMA OrderStep ==
  CoreInv /\ CoreInv' /\ OrderInv /\ AcceptedInv /\ [DaemonNext]_daemonVars
    => OrderInv' /\ AcceptedInv'
<1> SUFFICES ASSUME CoreInv, CoreInv', OrderInv, AcceptedInv, [DaemonNext]_daemonVars PROVE OrderInv'
  BY AcceptedStep
<1>1. CASE UNCHANGED daemonVars \/ MainThread \/ Restart
  <2>1. UNCHANGED <<m_MapServiceInfo, pc, isOk, inbox, accepted, call>>
    BY <1>1 DEF daemonVars, vars, MainThread, Main, setCallbacks, runFails, publish,
                runUnsubscribed, subscribe, Startup, Restart, maps, handler, peers
  <2> QED BY <2>1, OrderFrame DEF GoesOn
<1>2. CASE DispatchThread
  BY <1>2, OrderDispatch DEF DispatchThread
<1>3. CASE \E c \in Conns : Client(c)
  BY <1>3, OrderPeers DEF Client
<1>4. CASE \E c \in Conns : /\ Connect(c) \/ Leave(c) \/ GiveUp(c) \/ OtherPeer(c)
                           /\ UNCHANGED <<life, accepted>>
  BY <1>4, OrderPeers DEF OtherPeer
<1>5. CASE returnAfterFailedRun \/ finishExit \/ Crash \/ Terminate
  BY <1>5, ProcessEndsOrder DEF returnAfterFailedRun, finishExit, Crash, Terminate
<1> QED BY <1>1, <1>2, <1>3, <1>4, <1>5, leaveConsoleOrder DEF DaemonNext

\* A push is refused only when this process never accepted a registration of that
\* service from that peer, or when some peer withdrew the service or the registry was
\* lost since.  Timeouts, take-overs, losses and restarts do not change that: a peer's
\* calls are handled in their order, an answer is taken for the call it belongs to, and
\* a registry entry goes with no event but these two.
THEOREM PushesFollowRegistrations == DaemonSpec => []PushFollowsRegistration
<1>1. DaemonInit => OrderInv /\ AcceptedInv
  <2> SUFFICES ASSUME DaemonInit PROVE OrderInv /\ AcceptedInv
    OBVIOUS
  <2>1. DOMAIN inbox = {}
    BY EmptyMap DEF DaemonInit, Init
  <2>2. pc = "idle" /\ \A c \in Conns : call[c].op = "none"
    BY DEF DaemonInit, Init, NoCall
  <2>3. AcceptedInv
    BY DEF DaemonInit, Init, AcceptedInv
  <2> QED BY <2>1, <2>2, <2>3 DEF OrderInv, AwaitedInv, RefusalInv, PushInv
<1>2. OrderInv => PushFollowsRegistration
  BY DaemonAssumption DEF OrderInv, PushInv, PushFollowsRegistration
<1> QED BY <1>1, <1>2, OrderStep, DaemonCore, DaemonSafety, PTL
=============================================================================
