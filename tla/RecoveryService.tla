--------------------------- MODULE RecoveryService ---------------------------
(***************************************************************************)
(* The daemon as the bus sees it: CRecoverySchedulerStubImpl in front of   *)
(* the registry of CRecoveryScheduler, the start-up that main() drives,    *)
(* and the D-Bus peers that call it, die and come back.                    *)
(*                                                                         *)
(* Threads.  The main thread runs init() and run().  CommonAPI handles     *)
(* what arrives on the service's connection (external code) on one         *)
(* dispatch thread, in the order of arrival: method calls and              *)
(* NameOwnerChanged signals go through one inbox, and the message at its   *)
(* head is the one being handled.  A handler is cut where it takes or      *)
(* releases a lock and where it calls out, so that peers, the bus and the  *)
(* main thread may act in between.                                         *)
(*                                                                         *)
(* Peers.  A connection has a unique bus name that is never used again; a  *)
(* restarted application is another connection.  Calls are synchronous,    *)
(* one at a time per connection, and may be given up on a timeout.         *)
(***************************************************************************)
EXTENDS ServiceInfo

CONSTANTS
  Conns,      \* unique bus names of the peers
  Names,      \* the strings peers may pass as service name
  Enrols,     \* connection -> the names it makes calls about
  Policies,   \* the action lists peers may register
  Reports,    \* the states peers may push
  Impatient,  \* bound: the connections whose calls may time out
  MaxCalls    \* bound: calls of the peers that call as they like

NoConn == "none"

ASSUME ServiceAssumption ==
  /\ NoConn \notin Conns
  /\ ServiceNames \subseteq Names
  /\ Enrols \in [Conns -> SUBSET Names]
  /\ Policies \subseteq Seq(RecoveryState)
  /\ Reports \subseteq RecoveryState
  /\ Impatient \subseteq Conns
  /\ MaxCalls \in Nat

VARIABLES
  phase,               \* how far the main thread is with the start-up
  m_MapServiceInfo,    \* the registry, guarded by m_MutxServiceInfo
  m_ServiceToBusName,  \* service name -> watched peer, guarded by m_NameMutex
  inbox,               \* messages received by the connection, oldest first
  pc,                  \* where the dispatch thread is in the handler of Head(inbox)
  isOk,                \* local of the handlers: what the callback returned
  lStrAffectedService, \* local of handleNameOwnerChanged
  peer,                \* connection -> "absent", "up" or "gone"
  call,                \* connection -> its last method call and the answer to it
  calls,               \* calls made by such peers
  unseen,              \* history: connections that left while nobody was subscribed
  enroller             \* history: service -> connection of the registration accepted last,
                       \* NoConn once it is withdrawn or forgotten

maps == <<m_MapServiceInfo, m_ServiceToBusName>>
handler == <<pc, isOk, lStrAffectedService>>
peers == <<peer, call, calls, unseen>>
vars == <<phase, m_MapServiceInfo, m_ServiceToBusName, inbox, pc, isOk,
          lStrAffectedService, peer, call, calls, unseen, enroller>>

NoCall == [op |-> "none", service |-> "none", answer |-> "OK"]

Init ==
  /\ phase = "constructed"
  /\ m_MapServiceInfo = <<>> /\ m_ServiceToBusName = <<>>
  /\ inbox = <<>>
  /\ pc = "idle" /\ isOk = FALSE /\ lStrAffectedService = ""
  /\ enroller = [s \in Names |-> NoConn]
  /\ peer = [c \in Conns |-> "absent"]
  /\ call = [c \in Conns |-> NoCall]
  /\ calls = 0
  /\ unseen = {}

-----------------------------------------------------------------------------
(* The main thread: init() and run().                                      *)

Startup(from, to) ==
  /\ phase = from
  /\ phase' = to
  /\ UNCHANGED <<maps, inbox, handler, peers, enroller>>

\* init(): the callbacks are set before anything can arrive.
setCallbacks == Startup("constructed", "wired")

\* run(): no runtime, or the name cannot be registered on the bus.
runFails == Startup("wired", "failed")

\* run(): Runtime::registerService.  From here on peers can call.
publish == Startup("wired", "published")

\* run(): the adapter has no D-Bus connection to subscribe on; run() still
\* returns true.
runUnsubscribed == Startup("published", "unsubscribed")

\* run(): addSignalMemberHandler.  From here on NameOwnerChanged is received.
subscribe == Startup("published", "subscribed")

Main == setCallbacks \/ runFails \/ publish \/ runUnsubscribed \/ subscribe

-----------------------------------------------------------------------------
(* The bus and the peers (external, as src/ and the sample clients use     *)
(* them).                                                                  *)

Available == phase \in {"published", "unsubscribed", "subscribed"}

NameOwnerChanged(c, owned) == [type |-> "NameOwnerChanged", name |-> c, owned |-> owned]

\* The signal reaches the daemon only if it has subscribed to it.
Signal(c, owned) ==
  inbox' = IF phase = "subscribed" THEN Append(inbox, NameOwnerChanged(c, owned)) ELSE inbox

\* A peer connects; the bus announces its unique name with a new owner.
Connect(c) ==
  /\ peer[c] = "absent"
  /\ peer' = [peer EXCEPT ![c] = "up"]
  /\ Signal(c, TRUE)
  /\ UNCHANGED <<phase, maps, handler, call, calls, unseen, enroller>>

\* A peer's connection closes: it crashed or exited.  The bus announces its
\* unique name without an owner, after everything the peer sent; nobody waits for
\* the answers any more.
Leave(c) ==
  /\ peer[c] = "up"
  /\ peer' = [peer EXCEPT ![c] = "gone"]
  /\ Signal(c, FALSE)
  /\ call' = [call EXCEPT ![c] = NoCall]
  /\ unseen' = IF phase = "subscribed" THEN unseen ELSE unseen \cup {c}
  /\ UNCHANGED <<phase, maps, handler, calls, enroller>>

Pending(c) == call[c].answer = "none"

Register(names) == [type : {"register"}, service : names, actions : Policies]
Unregister(names) == [type : {"unregister"}, service : names]
Report(names) == [type : {"report"}, service : names, current : Reports, last : Reports]

\* A synchronous method call of a live peer, once the service is available.
Send(c, request) ==
  /\ Available
  /\ peer[c] = "up" /\ ~ Pending(c)
  /\ call' = [call EXCEPT ![c] = [op |-> request.type, service |-> request.service,
                                  answer |-> "none"]]
  /\ inbox' = Append(inbox, [type |-> request.type, conn |-> c, args |-> request])
  /\ UNCHANGED <<phase, maps, handler, peer, unseen, enroller>>

\* The call times out on the peer's side: it goes on with an error status, and
\* the message stays where it is.
GiveUp(c) ==
  /\ c \in Impatient
  /\ peer[c] = "up" /\ Pending(c)
  /\ call' = [call EXCEPT ![c].answer = "ERROR"]
  /\ UNCHANGED <<phase, maps, inbox, handler, peer, calls, unseen, enroller>>

\* A peer makes whatever call it likes.
AnyCall(c) ==
  /\ calls < MaxCalls
  /\ calls' = calls + 1
  /\ \E request \in Register(Enrols[c]) \cup Unregister(Enrols[c]) \cup Report(Enrols[c]) :
       Send(c, request)

Peers == \E c \in Conns : Connect(c) \/ Leave(c) \/ GiveUp(c) \/ AnyCall(c)

-----------------------------------------------------------------------------
(* The dispatch thread: the handlers of the stub.                          *)

Msg == Head(inbox)
serviceName == Msg.args.service

\* The caller's unique bus name, as CommonAPI hands it to the handlers.
uniqueBusName == Msg.conn

\* The handler of a message of this type starts.
Handling(type) == inbox # <<>> /\ pc = "idle" /\ Msg.type = type

\* registerService translates the policy and asks the bus for the caller's pid.
\* The lookup blocks until the bus answers, fails or the call times out; this is
\* its end, and whatever pid it gives is only logged.
queryUnixPidForBusName ==
  /\ Handling("register")
  /\ pc' = "callback"
  /\ UNCHANGED <<phase, maps, inbox, isOk, lStrAffectedService, peers, enroller>>

AfterRegisterAlwaysMutant(ok) == "watch"
AfterRegisterNeverMutant(ok) == "reply"
AfterRegister(ok) == IF ok THEN "watch" ELSE "reply"

\* It then calls onRegisterService, which updates the registry under its lock.
registerCallback ==
  /\ pc = "callback"
  /\ isOk' = Accepts(m_MapServiceInfo, serviceName)
  /\ m_MapServiceInfo' = Registered(m_MapServiceInfo, serviceName, Msg.args.actions)
  /\ enroller' = IF isOk' THEN [enroller EXCEPT ![serviceName] = uniqueBusName] ELSE enroller
  /\ pc' = AfterRegister(isOk')
  /\ UNCHANGED <<phase, m_ServiceToBusName, inbox, lStrAffectedService, peers>>

\* m_ServiceToBusName[s] = PeerInfo{c, ...}, in place of any earlier peer.
WatchKeepMutant(map, s, c) == Emplace(map, s, c)
Watch(map, s, c) == [x \in DOMAIN map \cup {s} |-> IF x = s THEN c ELSE map[x]]

\* And, under m_NameMutex, points the service at the caller's bus name.
watchPeer ==
  /\ pc = "watch"
  /\ m_ServiceToBusName' = Watch(m_ServiceToBusName, serviceName, uniqueBusName)
  /\ pc' = "reply"
  /\ UNCHANGED <<phase, m_MapServiceInfo, inbox, isOk, lStrAffectedService, peers, enroller>>

registerService == queryUnixPidForBusName \/ registerCallback \/ watchPeer

\* unregisterService calls onUnregisterService first.
unregisterService ==
  /\ Handling("unregister")
  /\ isOk' = (serviceName \in DOMAIN m_MapServiceInfo)
  /\ m_MapServiceInfo' = Erase(m_MapServiceInfo, serviceName)
  /\ enroller' = IF isOk' THEN [enroller EXCEPT ![serviceName] = NoConn] ELSE enroller
  /\ pc' = IF isOk' THEN "unwatch" ELSE "reply"
  /\ UNCHANGED <<phase, m_ServiceToBusName, inbox, lStrAffectedService, peers>>

\* m_ServiceToBusName.erase
UnwatchKeepMutant(map, s) == map
Unwatch(map, s) == Erase(map, s)

\* And then drops the mapping, under m_NameMutex.
unwatchPeer ==
  /\ pc = "unwatch"
  /\ m_ServiceToBusName' = Unwatch(m_ServiceToBusName, serviceName)
  /\ pc' = "reply"
  /\ UNCHANGED <<phase, m_MapServiceInfo, inbox, isOk, lStrAffectedService, peers, enroller>>

reportServiceState ==
  /\ Handling("report")
  /\ isOk' = (serviceName \in DOMAIN m_MapServiceInfo)
  /\ m_MapServiceInfo' =
       AfterReport(m_MapServiceInfo, serviceName, Msg.args.current, Msg.args.last)
  /\ pc' = "reply"
  /\ UNCHANGED <<phase, m_ServiceToBusName, inbox, lStrAffectedService, peers, enroller>>

\* A later call of the same connection is queued: CommonAPI tells the answers of
\* a connection's calls apart by their serials, so this one is not awaited.
Superseded ==
  \E i \in 2 .. Len(inbox) : inbox[i].type # "NameOwnerChanged" /\ inbox[i].conn = uniqueBusName

\* The caller is still waiting for the answer to this message: a call that it
\* gave up, or did not live to see, is answered in vain.
AwaitedAcceptedMutant == peer[uniqueBusName] = "up" /\ isOk /\ Pending(uniqueBusName) /\ ~ Superseded
Awaited == peer[uniqueBusName] = "up" /\ Pending(uniqueBusName) /\ ~ Superseded

\* reply(): every handler ends with it, and its locals with the handler.
replyToCaller ==
  /\ pc = "reply"
  /\ call' = IF Awaited
             THEN [call EXCEPT ![uniqueBusName].answer = IF isOk THEN "OK" ELSE "REFUSED"]
             ELSE call
  /\ inbox' = Tail(inbox)
  /\ pc' = "idle" /\ isOk' = FALSE
  /\ UNCHANGED <<phase, maps, lStrAffectedService, peer, calls, unseen, enroller>>

\* The services whose watched peer has this bus name.
BackedAnyMutant(name) == DOMAIN m_ServiceToBusName
Backed(name) == {s \in DOMAIN m_ServiceToBusName : m_ServiceToBusName[s] = name}

\* The name has a new owner or backs no service.
IrrelevantMutant == TRUE
Irrelevant == Msg.owned \/ Backed(Msg.name) = {}

\* handleNameOwnerChanged, nothing to do.
ignoreNameOwnerChanged ==
  /\ Handling("NameOwnerChanged") /\ Irrelevant
  /\ inbox' = Tail(inbox)
  /\ UNCHANGED <<phase, maps, handler, peers, enroller>>

\* handleNameOwnerChanged, peer lost: under m_NameMutex one service that the
\* name backs is picked (m_ServiceToBusName is an unordered_map) and unmapped.
handleNameOwnerChanged ==
  /\ Handling("NameOwnerChanged") /\ ~ Irrelevant
  /\ \E s \in Backed(Msg.name) :
       /\ lStrAffectedService' = s
       /\ m_ServiceToBusName' = Unwatch(m_ServiceToBusName, s)
  /\ pc' = "failure"
  /\ UNCHANGED <<phase, m_MapServiceInfo, inbox, isOk, peers, enroller>>

\* And then, without that lock, onServiceFailure for it.
failureCallback ==
  /\ pc = "failure"
  /\ m_MapServiceInfo' \in AfterFailure(m_MapServiceInfo, lStrAffectedService)
  /\ inbox' = Tail(inbox)
  /\ pc' = "idle" /\ lStrAffectedService' = ""
  /\ UNCHANGED <<phase, m_ServiceToBusName, isOk, peers, enroller>>

Dispatch ==
  \/ registerService
  \/ unregisterService \/ unwatchPeer
  \/ reportServiceState
  \/ replyToCaller
  \/ ignoreNameOwnerChanged \/ handleNameOwnerChanged \/ failureCallback

Next == Main \/ Peers \/ Dispatch

Spec == Init /\ [][Next]_vars

-----------------------------------------------------------------------------
(* Properties.                                                             *)

Calls ==
  [type : {"register"}, conn : Conns, args : Register(Names)]
  \cup [type : {"unregister"}, conn : Conns, args : Unregister(Names)]
  \cup [type : {"report"}, conn : Conns, args : Report(Names)]
Signals == [type : {"NameOwnerChanged"}, name : Conns, owned : BOOLEAN]
Messages == Calls \cup Signals

\* A peer that has made no call yet may have seen that the service is available.
CallStates ==
  [op : {"none", "available"}, service : {"none"}, answer : {"OK"}]
  \cup [op : {"register", "unregister", "report"}, service : Names,
        answer : {"none", "OK", "REFUSED", "ERROR"}]

\* Type correctness: in particular only services of the catalogue are watched,
\* and only through connections of peers.
TypeOK ==
  /\ phase \in {"down", "constructed", "wired", "failed", "published", "unsubscribed",
               "subscribed"}
  /\ IsRegistry(m_MapServiceInfo)
  /\ DOMAIN m_ServiceToBusName \subseteq ServiceNames
  /\ m_ServiceToBusName \in [DOMAIN m_ServiceToBusName -> Conns]
  /\ inbox \in Seq(Messages)
  /\ pc \in {"idle", "callback", "watch", "unwatch", "reply", "failure"}
  /\ isOk \in BOOLEAN
  /\ lStrAffectedService \in Names \cup {""}
  /\ peer \in [Conns -> {"absent", "up", "gone"}]
  /\ call \in [Conns -> CallStates]
  /\ calls \in 0 .. MaxCalls
  /\ unseen \subseteq Conns
  /\ enroller \in [Names -> Conns \cup {NoConn}]

Online(s) == s \in DOMAIN m_MapServiceInfo /\ m_MapServiceInfo[s].isOnline

\* No handler is between the two locks it takes one after the other.
Settled == pc \in {"idle", "callback", "reply"}

\* The registry and the watch map, guarded by different locks and updated one
\* after the other, agree whenever no handler is in between: the online services
\* are the watched ones, each through the peer that registered it last.
OnlineIsWatched ==
  Settled =>
    /\ DOMAIN m_ServiceToBusName = {s \in Names : Online(s)}
    /\ \A s \in DOMAIN m_ServiceToBusName : m_ServiceToBusName[s] = enroller[s]

\* A service is taken offline only when the peer that registered it last has
\* gone: the late signal about an earlier connection of a service that has come
\* back on another one must not count as a crash.
OfflineMeansGone ==
  \A s \in DOMAIN m_MapServiceInfo : ~ Online(s) => peer[enroller[s]] = "gone"

\* A peer that was told OK, and that nobody has replaced since, is being watched
\* for as long as it lives: the mapping is in place before reply(), and a late
\* reply to a call the peer gave up is not taken for the answer to its next one.
AcknowledgedIsWatched ==
  \A c \in Conns :
    LET s == call[c].service
    IN  /\ peer[c] = "up"
        /\ call[c].op = "register"
        /\ call[c].answer = "OK"
        /\ enroller[s] = c
        => s \in DOMAIN m_ServiceToBusName /\ m_ServiceToBusName[s] = c

\* Nothing has arrived that is not dealt with.
Quiescent == inbox = <<>>

\* "If newOwner is empty the owning peer has disconnected: we look up which
\* registered service that unique name was backing and fire the crash callback":
\* once all signals are handled, no service is online through a peer whose
\* disconnection was announced to the daemon.
AnnouncedLossIsHandled ==
  Quiescent => \A s \in Names : Online(s) => \/ peer[enroller[s]] = "up"
                                            \/ enroller[s] \in unseen

\* Every method call of a peer that stays ends, whatever the other peers and the
\* start-up do: by the handler's reply() or, if the process dies, by an error.
EveryCallIsAnswered == \A c \in Conns : Pending(c) ~> ~ Pending(c)

\* The view of ServiceMonitor: a service's entry, with the connection its last
\* accepted registration came over.
View ==
  [s \in ServiceNames |->
     IF s \notin DOMAIN m_MapServiceInfo THEN [state |-> "untracked"]
     ELSE [state |-> IF m_MapServiceInfo[s].isOnline THEN "online" ELSE "offline",
           conn |-> enroller[s]]]

\* A loss is announced when it happens under the subscription.
Announced == {c \in Conns : peer[c] = "gone"} \ unseen

Monitor == INSTANCE ServiceMonitor WITH announced <- Announced, view <- View

\* The stub, the two maps, the queue and the start-up implement ServiceMonitor:
\* whatever is in flight, a service changes its state only by a registration, a
\* withdrawal, or the announced loss of the connection it is enrolled over.
ImplementsMonitor == Monitor!Spec

\* The loss of a peer that happened under the subscription is noticed: its
\* service goes offline, unless it is withdrawn or another peer takes it over.
LossIsNoticed == Monitor!EveryLossIsNoted

-----------------------------------------------------------------------------
(* What the documentation says and the code does not do.                   *)

\* isOnline, "whether the D-Bus peer is currently connected": once everything
\* that arrived is handled and the start-up is over, an online service has a
\* live peer.
OnlineIsConnected ==
  Quiescent /\ phase = "subscribed" => \A s \in Names : Online(s) => peer[enroller[s]] = "up"
=============================================================================
