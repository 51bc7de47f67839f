----------------------------- MODULE LossProofs ------------------------------
(***************************************************************************)
(* No announced loss is forgotten, for peers that register one service     *)
(* each, as the sample clients do.  handleNameOwnerChanged takes only one  *)
(* of the services a lost peer was backing offline, so it does not hold of *)
(* peers that register several.                                            *)
(***************************************************************************)
EXTENDS RecoveryServiceProofs

\* The condition: a peer makes calls about one service of the catalogue at most.
OneServicePerPeer == \A c \in Conns : \A s, t \in Enrols[c] \cap ServiceNames : s = t

Lost(c) == NameOwnerChanged(c, FALSE)

\* The disconnection of c is still to be handled, behind the first i messages.
LostAfter(c, i) == \E j \in DOMAIN inbox : j > i /\ inbox[j] = Lost(c)

\* The signal comes after every call of the peer: a call handled late, maybe a
\* registration, has the signal behind it.
CallsFirst(c) ==
  \A i \in DOMAIN inbox : IsCall(inbox[i]) /\ inbox[i].conn = c => LostAfter(c, i)

\* For every service that is online through c there is a signal left that will
\* take it offline: the one being handled only if it is about that service.
LossComes(c) ==
  \A s \in OnlineIn(m_MapServiceInfo) :
    enroller[s] = c => LostAfter(c, IF pc = "failure" /\ s # lStrAffectedService THEN 1 ELSE 0)

\* Who has enrolled a service was there.
EnrollersCame == \A s \in Names : enroller[s] \in Conns => peer[enroller[s]] # "absent"

\* A service is watched through a connection that makes calls about it.
WatchedInv ==
  \A s \in DOMAIN m_ServiceToBusName : s \in Enrols[m_ServiceToBusName[s]]

\* The inductive invariant.
LossInv == EnrollersCame /\ \A c \in Announced : CallsFirst(c) /\ LossComes(c)

-----------------------------------------------------------------------------
(* Positions in the inbox.                                                 *)

\* What is to be handled stays to be handled when a message arrives.
LEMMA LostStays ==
  ASSUME TypeOK, NEW e \in Messages, inbox' = Append(inbox, e), NEW c, NEW i, LostAfter(c, i)
  PROVE  LostAfter(c, i)'
<1>1. PICK j \in DOMAIN inbox : j > i /\ inbox[j] = Lost(c)
  BY DEF LostAfter
<1>2. j \in DOMAIN inbox' /\ inbox'[j] = inbox[j]
  BY ArrivalPositions
<1> QED BY <1>1, <1>2 DEF LostAfter

\* And moves up when the head is done with.
LEMMA LostMovesUp ==
  ASSUME TypeOK, inbox # <<>>, inbox' = Tail(inbox), NEW c, NEW i \in Nat, LostAfter(c, i + 1)
  PROVE  LostAfter(c, i)'
<1>1. PICK j \in DOMAIN inbox : j > i + 1 /\ inbox[j] = Lost(c)
  BY DEF LostAfter
<1>2. j \in Nat /\ j > 1
  BY <1>1, DeparturePositions
<1>3. j - 1 \in DOMAIN inbox' /\ inbox'[j - 1] = Lost(c)
  BY <1>1, <1>2, DeparturePositions
<1>4. j - 1 > i
  BY <1>1, <1>2
<1> QED BY <1>3, <1>4 DEF LostAfter

\* A signal that is not the head is behind it.
LEMMA LostBehindHead ==
  ASSUME TypeOK, inbox # <<>>, NEW c, LostAfter(c, 0), Msg # Lost(c)
  PROVE  LostAfter(c, 1)
<1>1. PICK j \in DOMAIN inbox : j > 0 /\ inbox[j] = Lost(c)
  BY DEF LostAfter
<1>2. inbox \in Seq(Messages)
  BY DEF TypeOK
<1>3. DOMAIN inbox \subseteq Nat /\ Msg = inbox[1]
  BY <1>2 DEF Msg
<1>4. j > 1
  BY <1>1, <1>3
<1> QED BY <1>1, <1>4 DEF LostAfter

\* Behind more is behind less.
LEMMA LostWeaken ==
  ASSUME TypeOK, NEW c, LostAfter(c, 1)
  PROVE  LostAfter(c, 0)
<1>1. DOMAIN inbox \subseteq Nat
  <2>1. inbox \in Seq(Messages)
    BY DEF TypeOK
  <2> QED BY <2>1
<1> QED BY <1>1 DEF LostAfter

\* When the head has been done with, the calls of c still come first.
LEMMA CallsStayFirst ==
  ASSUME TypeOK, inbox # <<>>, inbox' = Tail(inbox), NEW c, CallsFirst(c)
  PROVE  CallsFirst(c)'
<1> SUFFICES ASSUME NEW i \in DOMAIN inbox', IsCall(inbox'[i]), inbox'[i].conn = c
             PROVE  LostAfter(c, i)'
  BY DEF CallsFirst
<1>1. i + 1 \in DOMAIN inbox /\ inbox'[i] = inbox[i + 1] /\ i \in Nat
  BY DeparturePositions
<1>2. LostAfter(c, i + 1)
  BY <1>1 DEF CallsFirst
<1> QED BY <1>1, <1>2, LostMovesUp

-----------------------------------------------------------------------------
(* The peers and the bus.                                                  *)

\* A message that is not a call of c arrives.
LEMMA ArrivalKeepsLoss ==
  ASSUME TypeOK, NEW c, CallsFirst(c), LossComes(c),
         NEW e \in Messages, inbox' = Append(inbox, e), ~ (IsCall(e) /\ e.conn = c),
         UNCHANGED <<m_MapServiceInfo, enroller, pc, lStrAffectedService>>
  PROVE  CallsFirst(c)' /\ LossComes(c)'
<1>1. CallsFirst(c)'
  <2> SUFFICES ASSUME NEW i \in DOMAIN inbox', IsCall(inbox'[i]), inbox'[i].conn = c
               PROVE  LostAfter(c, i)'
    BY DEF CallsFirst
  <2>1. i \in DOMAIN inbox /\ inbox'[i] = inbox[i]
    BY ArrivalPositions
  <2>2. LostAfter(c, i)
    BY <2>1 DEF CallsFirst
  <2> QED BY <2>2, LostStays
<1>2. LossComes(c)'
  <2> SUFFICES ASSUME NEW s \in OnlineIn(m_MapServiceInfo), enroller[s] = c
               PROVE  LostAfter(c, IF pc = "failure" /\ s # lStrAffectedService THEN 1 ELSE 0)'
    BY DEF LossComes
  <2>1. LostAfter(c, IF pc = "failure" /\ s # lStrAffectedService THEN 1 ELSE 0)
    BY DEF LossComes
  <2>2. CASE pc = "failure" /\ s # lStrAffectedService
    BY <2>1, <2>2, LostStays
  <2>3. CASE ~ (pc = "failure" /\ s # lStrAffectedService)
    BY <2>1, <2>3, LostStays
  <2> QED BY <2>2, <2>3
<1> QED BY <1>1, <1>2

\* The disconnection of c is announced: the signal is behind everything.
LEMMA AnnouncementComes ==
  ASSUME TypeOK, HandlerInv, NEW c \in Conns, inbox' = Append(inbox, Lost(c)),
         UNCHANGED <<m_MapServiceInfo, enroller, pc, lStrAffectedService>>
  PROVE  CallsFirst(c)' /\ LossComes(c)'
<1> DEFINE last == Len(inbox) + 1
<1>1. Lost(c) \in Messages /\ ~ IsCall(Lost(c))
  BY SignalMessage DEF Lost
<1>2. /\ DOMAIN inbox' = DOMAIN inbox \cup {last}
      /\ \A i \in DOMAIN inbox : i < last
      /\ inbox'[last] = Lost(c)
      /\ last > 0
      /\ inbox # <<>> => last > 1
  BY <1>1, ArrivalPositions
<1> HIDE DEF last
<1>3. CallsFirst(c)'
  BY <1>1, <1>2 DEF CallsFirst, LostAfter
<1>4. LostAfter(c, 0)' /\ (pc = "failure" => LostAfter(c, 1)')
  BY <1>2 DEF LostAfter, HandlerInv
<1>5. LossComes(c)'
  BY <1>4 DEF LossComes
<1> QED BY <1>3, <1>5

\* Steps that leave the maps, the handler and the inbox alone.
LEMMA LossFrame ==
  ASSUME NEW c, CallsFirst(c), LossComes(c),
         UNCHANGED <<m_MapServiceInfo, enroller, pc, lStrAffectedService, inbox>>
  PROVE  CallsFirst(c)' /\ LossComes(c)'
  BY DEF CallsFirst, LossComes, LostAfter

\* A peer that has come never counts as absent again.
LEMMA EnrollersStay ==
  ASSUME CoreInv, EnrollersCame, UNCHANGED enroller,
         \A c \in Conns : peer[c] # "absent" => peer'[c] # "absent"
  PROVE  EnrollersCame'
  BY DEF EnrollersCame

\* A peer connects: nobody's loss is concerned.
LEMMA ConnectKeepsLoss ==
  ASSUME CoreInv, LossInv, NEW c \in Conns, Connect(c)
  PROVE  LossInv'
<1>1. /\ peer[c] = "absent" /\ peer' = [peer EXCEPT ![c] = "up"]
      /\ UNCHANGED <<m_MapServiceInfo, enroller, pc, lStrAffectedService, unseen>>
      /\ inbox' \in {inbox, Append(inbox, NameOwnerChanged(c, TRUE))}
  BY DEF Connect, Signal, maps, handler
<1>2. Announced' = Announced
  BY <1>1 DEF Announced, CoreInv, TypeOK
<1>3. EnrollersCame'
  BY <1>1, EnrollersStay DEF LossInv, CoreInv, TypeOK
<1>4. NameOwnerChanged(c, TRUE) \in Messages /\ ~ IsCall(NameOwnerChanged(c, TRUE))
  BY SignalMessage
<1>5. \A d \in Announced : CallsFirst(d)' /\ LossComes(d)'
  BY <1>1, <1>4, ArrivalKeepsLoss, LossFrame DEF LossInv, CoreInv
<1> QED BY <1>2, <1>3, <1>5 DEF LossInv

\* A peer leaves: under the subscription its signal is behind its calls, otherwise
\* nothing is announced.
LEMMA LeaveKeepsLoss ==
  ASSUME CoreInv, LossInv, NEW c \in Conns, Leave(c)
  PROVE  LossInv'
<1>1. /\ peer[c] = "up" /\ peer' = [peer EXCEPT ![c] = "gone"]
      /\ UNCHANGED <<m_MapServiceInfo, enroller, pc, lStrAffectedService>>
  BY DEF Leave, maps, handler
<1>2. /\ peer'[c] = "gone" /\ c \notin unseen /\ c \notin Announced
      /\ \A d \in Conns : d # c => peer'[d] = peer[d]
  BY <1>1 DEF CoreInv, TypeOK, UnseenInv, Announced
<1>3. EnrollersCame'
  BY <1>1, <1>2, EnrollersStay DEF LossInv
<1>4. CASE inbox' = inbox /\ unseen' = unseen \cup {c}
  <2>1. Announced' = Announced
    BY <1>1, <1>2, <1>4 DEF Announced
  <2>2. \A d \in Announced : CallsFirst(d)' /\ LossComes(d)'
    BY <1>1, <1>4, LossFrame DEF LossInv
  <2> QED BY <1>3, <2>1, <2>2 DEF LossInv
<1>5. CASE inbox' = Append(inbox, Lost(c)) /\ unseen' = unseen
  <2>1. Announced' = Announced \cup {c}
    BY <1>1, <1>2, <1>5 DEF Announced
  <2>2. Lost(c) \in Messages /\ ~ IsCall(Lost(c))
    BY SignalMessage DEF Lost
  <2>3. \A d \in Announced : CallsFirst(d)' /\ LossComes(d)'
    BY <1>1, <1>5, <2>2, ArrivalKeepsLoss DEF LossInv, CoreInv
  <2>4. CallsFirst(c)' /\ LossComes(c)'
    BY <1>1, <1>5, AnnouncementComes DEF CoreInv
  <2> QED BY <1>3, <2>1, <2>3, <2>4 DEF LossInv
<1> QED BY <1>4, <1>5 DEF Leave, Signal, Lost

\* A peer calls: it is there, so its loss has not been announced.
LEMMA SendKeepsLoss ==
  ASSUME CoreInv, LossInv, NEW c \in Conns, NEW request \in Requests(c), Send(c, request)
  PROVE  LossInv'
<1>1. /\ peer[c] = "up" /\ inbox' = Append(inbox, CallOf(c, request))
      /\ UNCHANGED <<m_MapServiceInfo, enroller, pc, lStrAffectedService, peer, unseen>>
  BY DEF Send, CallOf, maps, handler
<1>2. CallOf(c, request) \in Messages /\ CallOf(c, request).conn = c
  BY CallMessage
<1>3. Announced' = Announced /\ c \notin Announced
  BY <1>1 DEF Announced
<1>4. EnrollersCame'
  BY <1>1, EnrollersStay DEF LossInv
<1>5. \A d \in Announced : CallsFirst(d)' /\ LossComes(d)'
  BY <1>1, <1>2, <1>3, ArrivalKeepsLoss DEF LossInv, CoreInv
<1> QED BY <1>3, <1>4, <1>5 DEF LossInv

\* Steps that concern neither the registry, nor the handling, nor a peer's life.
LEMMA StillKeepsLoss ==
  ASSUME CoreInv, LossInv,
         UNCHANGED <<m_MapServiceInfo, enroller, pc, lStrAffectedService, inbox, peer, unseen>>
  PROVE  LossInv'
<1>1. Announced' = Announced
  BY DEF Announced
<1>2. EnrollersCame'
  BY EnrollersStay DEF LossInv
<1>3. \A d \in Announced : CallsFirst(d)' /\ LossComes(d)'
  BY LossFrame DEF LossInv
<1> QED BY <1>1, <1>2, <1>3 DEF LossInv

-----------------------------------------------------------------------------
(* The dispatch thread.                                                    *)

\* A step of the handler of a call after which nobody is online who was not.
LEMMA NobodyNewKeepsLoss ==
  ASSUME CoreInv, LossInv, UNCHANGED <<inbox, peer, unseen>>, pc # "failure", pc' # "failure",
         EnrollersCame',
         \A s \in OnlineIn(m_MapServiceInfo') : /\ s \in OnlineIn(m_MapServiceInfo)
                                                /\ enroller'[s] = enroller[s]
  PROVE  LossInv'
<1>1. Announced' = Announced
  BY DEF Announced
<1>2. \A d \in Announced : CallsFirst(d)'
  BY DEF LossInv, CallsFirst, LostAfter
<1>3. \A d \in Announced : LossComes(d)'
  BY DEF LossInv, LossComes, LostAfter
<1> QED BY <1>1, <1>2, <1>3 DEF LossInv

\* registerService: the caller may be known to be lost by now, but then the signal
\* is behind its call, and takes the service offline again.
LEMMA registerCallbackKeepsLoss ==
  ASSUME CoreInv, LossInv, registerCallback
  PROVE  LossInv'
<1> DEFINE s == serviceName
           c == uniqueBusName
<1>1. /\ pc = "callback" /\ inbox # <<>> /\ Msg.type = "register" /\ IsCall(Msg)
      /\ pc' # "failure" /\ UNCHANGED <<inbox, peer, unseen>>
  BY DEF registerCallback, AfterRegister, peers, CoreInv, HandlerInv, IsCall
<1>2. /\ s \in Names /\ c \in Conns /\ peer[c] # "absent"
      /\ Msg.args.actions \in Seq(RecoveryState)
  BY <1>1, HandledCall
<1>3. /\ Accepts(m_MapServiceInfo, s) => OnlineIn(m_MapServiceInfo') = OnlineIn(m_MapServiceInfo) \cup {s}
      /\ ~ Accepts(m_MapServiceInfo, s) => m_MapServiceInfo' = m_MapServiceInfo
  BY <1>2, RegisteredKeeps DEF registerCallback, CoreInv, TypeOK
<1>4. CASE Accepts(m_MapServiceInfo, s)
  <2>1. enroller' = [enroller EXCEPT ![s] = c]
    BY <1>4 DEF registerCallback, Accepts
  <2>2. enroller'[s] = c /\ \A x \in Names : x # s => enroller'[x] = enroller[x]
    BY <1>2, <2>1 DEF CoreInv, TypeOK
  <2>3. EnrollersCame'
    BY <1>1, <1>2, <2>2 DEF LossInv, EnrollersCame
  <2>4. Announced' = Announced
    BY <1>1 DEF Announced
  <2>5. \A d \in Announced : CallsFirst(d)'
    BY <1>1 DEF LossInv, CallsFirst, LostAfter
  <2>6. c \in Announced => LostAfter(c, 0)
    <3> SUFFICES ASSUME c \in Announced PROVE LostAfter(c, 0)
      OBVIOUS
    <3>1. inbox \in Seq(Messages)
      BY DEF CoreInv, TypeOK
    <3>2. 1 \in DOMAIN inbox /\ inbox[1] = Msg
      BY <1>1, <3>1 DEF Msg
    <3>3. LostAfter(c, 1)
      BY <1>1, <3>2 DEF LossInv, CallsFirst, uniqueBusName
    <3> QED BY <3>3, LostWeaken DEF CoreInv
  <2>7. \A d \in Announced : LossComes(d)'
    <3> SUFFICES ASSUME NEW d \in Announced, NEW x \in OnlineIn(m_MapServiceInfo'), enroller'[x] = d
                 PROVE  LostAfter(d, 0)'
      BY <1>1 DEF LossComes
    <3>1. LostAfter(d, 0)' <=> LostAfter(d, 0)
      BY <1>1 DEF LostAfter
    <3>2. CASE x = s
      BY <2>2, <2>6, <3>1, <3>2
    <3>3. CASE x # s
      <4>1. x \in OnlineIn(m_MapServiceInfo)
        BY <1>3, <1>4, <3>3
      <4>2. x \in Names
        BY <4>1, ServiceAssumption DEF CoreInv, TypeOK, IsRegistry, OnlineIn
      <4> QED BY <1>1, <2>2, <3>1, <3>3, <4>1, <4>2 DEF LossInv, LossComes
    <3> QED BY <3>2, <3>3
  <2> QED BY <2>3, <2>4, <2>5, <2>7 DEF LossInv
<1>5. CASE ~ Accepts(m_MapServiceInfo, s)
  <2>1. enroller' = enroller
    <3>1. Accepts(m_MapServiceInfo, s) = FALSE
      BY <1>5 DEF Accepts
    <3>2. isOk' = Accepts(m_MapServiceInfo, s)
      BY DEF registerCallback
    <3> QED BY <3>1, <3>2 DEF registerCallback
  <2>2. EnrollersCame'
    BY <1>1, <2>1 DEF LossInv, EnrollersCame
  <2> QED BY <1>1, <1>3, <1>5, <2>1, <2>2, NobodyNewKeepsLoss
<1> QED BY <1>4, <1>5

\* unregisterService: one service less.
LEMMA unregisterServiceKeepsLoss ==
  ASSUME CoreInv, LossInv, unregisterService
  PROVE  LossInv'
<1> DEFINE s == serviceName
<1>1. /\ pc = "idle" /\ pc' # "failure" /\ inbox # <<>> /\ Msg.type = "unregister" /\ IsCall(Msg)
      /\ m_MapServiceInfo' = Erase(m_MapServiceInfo, s)
      /\ UNCHANGED <<inbox, peer, unseen>>
  BY DEF unregisterService, Handling, peers, IsCall
<1>2. s \in Names
  BY <1>1, HandledCall
<1>3. OnlineIn(m_MapServiceInfo') = OnlineIn(m_MapServiceInfo) \ {s}
  BY <1>1, EraseKeeps DEF CoreInv, TypeOK
<1>4. enroller' \in {enroller, [enroller EXCEPT ![s] = NoConn]}
  BY DEF unregisterService
<1>5. EnrollersCame'
  BY <1>1, <1>2, <1>4, ServiceAssumption DEF LossInv, EnrollersCame, CoreInv, TypeOK
<1>6. \A x \in OnlineIn(m_MapServiceInfo) : x \in Names
  BY ServiceAssumption DEF CoreInv, TypeOK, IsRegistry, OnlineIn
<1>7. \A x \in Names : x # s => enroller'[x] = enroller[x]
  BY <1>2, <1>4 DEF CoreInv, TypeOK
<1> QED BY <1>1, <1>3, <1>5, <1>6, <1>7, NobodyNewKeepsLoss

\* The other steps of the calls' handlers before the reply.
LEMMA QuietStepsKeepLoss ==
  ASSUME CoreInv, LossInv,
         queryUnixPidForBusName \/ watchPeer \/ unwatchPeer \/ reportServiceState
  PROVE  LossInv'
<1>1. pc # "failure" /\ pc' # "failure" /\ UNCHANGED <<inbox, peer, unseen, enroller>>
  BY DEF queryUnixPidForBusName, watchPeer, unwatchPeer, reportServiceState, Handling, peers
<1>2. OnlineIn(m_MapServiceInfo') = OnlineIn(m_MapServiceInfo)
  BY ReportChangesNobody DEF queryUnixPidForBusName, watchPeer, unwatchPeer, maps
<1>3. EnrollersCame'
  BY <1>1, EnrollersStay DEF LossInv
<1> QED BY <1>1, <1>2, <1>3, NobodyNewKeepsLoss

\* A handler ends: it is enough that the services still online through a lost peer
\* have their signal behind the head.
LEMMA HandledKeepsLoss ==
  ASSUME CoreInv, LossInv, inbox # <<>>, inbox' = Tail(inbox), pc' = "idle",
         UNCHANGED <<peer, unseen, enroller>>,
         \A c \in Announced : \A s \in OnlineIn(m_MapServiceInfo') : enroller[s] = c => LostAfter(c, 1)
  PROVE  LossInv'
<1>1. Announced' = Announced
  BY DEF Announced
<1>2. EnrollersCame'
  BY EnrollersStay DEF LossInv
<1>3. \A c \in Announced : CallsFirst(c)'
  BY CallsStayFirst DEF LossInv, CoreInv
<1>4. \A c \in Announced : LossComes(c)'
  <2> SUFFICES ASSUME NEW c \in Announced, NEW s \in OnlineIn(m_MapServiceInfo'), enroller[s] = c
               PROVE  LostAfter(c, 0)'
    BY DEF LossComes
  <2>1. LostAfter(c, 1)
    OBVIOUS
  <2>2. LostAfter(c, 0 + 1)
    BY <2>1
  <2> QED BY <2>2, LostMovesUp DEF CoreInv
<1> QED BY <1>1, <1>2, <1>3, <1>4 DEF LossInv

\* The head is not the signal that a service online through c is waiting for.
LEMMA NotTheSignal ==
  ASSUME CoreInv, LossInv, inbox # <<>>, pc # "failure", NEW c \in Announced,
         NEW s \in OnlineIn(m_MapServiceInfo), enroller[s] = c, Msg # Lost(c)
  PROVE  LostAfter(c, 1)
<1>1. LostAfter(c, 0)
  BY DEF LossInv, LossComes
<1> QED BY <1>1, LostBehindHead DEF CoreInv

\* reply(): the message was a call.
LEMMA replyToCallerKeepsLoss ==
  ASSUME CoreInv, LossInv, replyToCaller
  PROVE  LossInv'
<1>1. /\ pc = "reply" /\ pc' = "idle" /\ inbox # <<>> /\ IsCall(Msg) /\ inbox' = Tail(inbox)
      /\ UNCHANGED <<m_MapServiceInfo, peer, unseen, enroller>>
  BY DEF replyToCaller, maps, CoreInv, HandlerInv
<1>2. \A c \in Conns : Msg # Lost(c)
  BY <1>1, SignalMessage DEF Lost
<1>3. Announced \subseteq Conns
  BY DEF Announced
<1> QED BY <1>1, <1>2, <1>3, NotTheSignal, HandledKeepsLoss

\* handleNameOwnerChanged, nothing to do: the signal is about a new owner, or nobody
\* is online through the peer it is about.
LEMMA ignoreKeepsLoss ==
  ASSUME CoreInv, LossInv, ignoreNameOwnerChanged
  PROVE  LossInv'
<1>1. /\ pc = "idle" /\ pc' = "idle" /\ inbox # <<>> /\ inbox' = Tail(inbox)
      /\ UNCHANGED <<m_MapServiceInfo, peer, unseen, enroller>>
      /\ Msg.owned \/ Backed(Msg.name) = {}
  BY DEF ignoreNameOwnerChanged, Handling, Irrelevant, maps, handler, peers
<1>2. ASSUME NEW c \in Announced, NEW s \in OnlineIn(m_MapServiceInfo), enroller[s] = c, Msg = Lost(c)
      PROVE  FALSE
  <2>1. Msg.owned = FALSE /\ Msg.name = c
    BY <1>2 DEF Lost, NameOwnerChanged
  <2>2. s \in DOMAIN m_ServiceToBusName /\ m_ServiceToBusName[s] = c
    BY <1>1, <1>2 DEF CoreInv, WatchInv
  <2> QED BY <1>1, <2>1, <2>2 DEF Backed
<1> QED BY <1>1, <1>2, NotTheSignal, HandledKeepsLoss

\* handleNameOwnerChanged: the service that is picked is the only one the lost peer
\* makes calls about, so nobody is left behind.
LEMMA handleKeepsLoss ==
  ASSUME OneServicePerPeer, CoreInv, WatchedInv, LossInv, handleNameOwnerChanged
  PROVE  LossInv'
<1>1. /\ pc = "idle" /\ pc' = "failure" /\ inbox # <<>>
      /\ UNCHANGED <<m_MapServiceInfo, inbox, peer, unseen, enroller>>
  BY DEF handleNameOwnerChanged, Handling, peers
<1>2. PICK t \in Backed(Msg.name) : lStrAffectedService' = t
  BY DEF handleNameOwnerChanged
<1>3. t \in ServiceNames /\ Msg.name \in Conns /\ t \in Enrols[Msg.name]
  BY <1>2 DEF Backed, WatchedInv, CoreInv, TypeOK
<1>4. \A x \in OnlineIn(m_MapServiceInfo) : /\ x \in ServiceNames /\ x \in Names
                                            /\ enroller[x] \in Conns /\ x \in Enrols[enroller[x]]
  BY ServiceAssumption DEF CoreInv, TypeOK, IsRegistry, OnlineIn, EnrolledInv
<1>5. Announced' = Announced
  BY <1>1 DEF Announced
<1>6. EnrollersCame'
  BY <1>1, EnrollersStay DEF LossInv
<1>7. \A c \in Announced : CallsFirst(c)'
  BY <1>1 DEF LossInv, CallsFirst, LostAfter
<1>8. ASSUME NEW c \in Announced, NEW s \in OnlineIn(m_MapServiceInfo), enroller[s] = c, s # t
      PROVE  LostAfter(c, 1)
  <2>1. c # Msg.name
    BY <1>3, <1>4, <1>8 DEF OneServicePerPeer
  <2>2. Msg # Lost(c)
    BY <2>1 DEF Lost, NameOwnerChanged
  <2> QED BY <1>1, <1>8, <2>2, NotTheSignal
<1>9. \A c \in Announced : LossComes(c)'
  <2> SUFFICES ASSUME NEW c \in Announced, NEW s \in OnlineIn(m_MapServiceInfo), enroller[s] = c
               PROVE  LostAfter(c, IF s # t THEN 1 ELSE 0)'
    BY <1>1, <1>2 DEF LossComes
  <2>1. LostAfter(c, 0)
    BY <1>1 DEF LossInv, LossComes
  <2> QED BY <1>1, <1>8, <2>1 DEF LostAfter
<1> QED BY <1>5, <1>6, <1>7, <1>9 DEF LossInv

\* onServiceFailure: the service the signal was kept for is offline now.
LEMMA failureCallbackKeepsLoss ==
  ASSUME CoreInv, LossInv, failureCallback
  PROVE  LossInv'
<1>1. /\ pc = "failure" /\ pc' = "idle" /\ inbox # <<>> /\ inbox' = Tail(inbox)
      /\ m_MapServiceInfo' \in AfterFailure(m_MapServiceInfo, lStrAffectedService)
      /\ UNCHANGED <<peer, unseen, enroller>>
  BY DEF failureCallback, peers, CoreInv, HandlerInv
<1>2. OnlineIn(m_MapServiceInfo') = OnlineIn(m_MapServiceInfo) \ {lStrAffectedService}
  BY <1>1, AfterFailureKeeps DEF CoreInv, TypeOK
<1>3. \A c \in Announced : \A s \in OnlineIn(m_MapServiceInfo') : enroller[s] = c => LostAfter(c, 1)
  BY <1>1, <1>2 DEF LossInv, LossComes
<1> QED BY <1>1, <1>3, HandledKeepsLoss

-----------------------------------------------------------------------------

\* Steps that leave the watch map alone.
LEMMA WatchedFrame == WatchedInv /\ UNCHANGED m_ServiceToBusName => WatchedInv'
  BY DEF WatchedInv

\* The dispatch thread watches a service through a caller that makes calls about it.
LEMMA WatchedDispatch ==
  ASSUME CoreInv, WatchedInv, Dispatch
  PROVE  WatchedInv'
<1>1. CASE watchPeer
  <2>1. pc = "watch" /\ inbox # <<>> /\ IsCall(Msg)
    BY <1>1 DEF watchPeer, CoreInv, HandlerInv, IsCall
  <2>2. serviceName \in Enrols[uniqueBusName]
    BY <2>1, HandledCall
  <2> QED BY <1>1, <2>2 DEF watchPeer, Watch, WatchedInv
<1>2. ASSUME NEW s, m_ServiceToBusName' = Unwatch(m_ServiceToBusName, s)
      PROVE  WatchedInv'
  BY <1>2, UnwatchKeeps DEF CoreInv, WatchedInv
<1>3. CASE unwatchPeer \/ handleNameOwnerChanged
  BY <1>2, <1>3 DEF unwatchPeer, handleNameOwnerChanged
<1>4. CASE \/ queryUnixPidForBusName \/ registerCallback \/ unregisterService \/ reportServiceState
           \/ replyToCaller \/ ignoreNameOwnerChanged \/ failureCallback
  BY <1>4, WatchedFrame DEF queryUnixPidForBusName, registerCallback, unregisterService,
     reportServiceState, replyToCaller, ignoreNameOwnerChanged, failureCallback, maps
<1> QED BY <1>1, <1>3, <1>4 DEF Dispatch, registerService

\* The steps of the dispatch thread.
LEMMA LossDispatch ==
  ASSUME OneServicePerPeer, CoreInv, WatchedInv, LossInv, Dispatch
  PROVE  LossInv'
  BY registerCallbackKeepsLoss, unregisterServiceKeepsLoss, QuietStepsKeepLoss,
     replyToCallerKeepsLoss, ignoreKeepsLoss, handleKeepsLoss, failureCallbackKeepsLoss
     DEF Dispatch, registerService

\* The steps of a peer.
LEMMA LossPeer ==
  ASSUME CoreInv, LossInv, NEW c \in Conns, Connect(c) \/ Leave(c) \/ GiveUp(c) \/ AnyCall(c)
  PROVE  LossInv'
<1>1. CASE GiveUp(c)
  BY <1>1, StillKeepsLoss DEF GiveUp, maps, handler
<1>2. CASE AnyCall(c)
  BY <1>2, SendKeepsLoss DEF AnyCall, Requests
<1> QED BY <1>1, <1>2, ConnectKeepsLoss, LeaveKeepsLoss

\* The steps of the main thread.
LEMMA LossMain ==
  ASSUME CoreInv, LossInv, Main
  PROVE  LossInv'
  BY StillKeepsLoss DEF Main, setCallbacks, runFails, publish, runUnsubscribed, subscribe,
     Startup, maps, handler, peers

\* Every step keeps the invariant.
LEMMA LossStep ==
  ASSUME OneServicePerPeer, CoreInv, WatchedInv, LossInv, [Next]_vars
  PROVE  WatchedInv' /\ LossInv'
<1>1. CASE UNCHANGED vars
  BY <1>1, StillKeepsLoss, WatchedFrame DEF vars
<1>2. CASE Main
  BY <1>2, LossMain, WatchedFrame DEF Main, setCallbacks, runFails, publish, runUnsubscribed,
     subscribe, Startup, maps
<1>3. CASE Peers
  <2>1. UNCHANGED m_ServiceToBusName
    BY <1>3 DEF Peers, Connect, Leave, GiveUp, AnyCall, Send, maps
  <2> QED BY <1>3, <2>1, LossPeer, WatchedFrame DEF Peers
<1>4. CASE Dispatch
  BY <1>4, LossDispatch, WatchedDispatch
<1> QED BY <1>1, <1>2, <1>3, <1>4 DEF Next

\* Nobody has come yet.
LEMMA LossStart == Init => WatchedInv /\ LossInv
<1> SUFFICES ASSUME Init PROVE WatchedInv /\ LossInv
  OBVIOUS
<1>1. /\ \A c \in Conns : peer[c] = "absent"
      /\ \A s \in Names : enroller[s] = NoConn
  BY DEF Init
<1>2. Announced = {}
  BY <1>1 DEF Announced
<1>3. EnrollersCame
  BY <1>1, ServiceAssumption DEF EnrollersCame
<1>4. WatchedInv
  BY EmptyMap DEF Init, WatchedInv
<1> QED BY <1>2, <1>3, <1>4 DEF LossInv

\* When nothing is left to handle, nothing is left to come.
LEMMA LossHandled == CoreInv /\ LossInv => AnnouncedLossIsHandled
<1> SUFFICES ASSUME CoreInv, LossInv, inbox = <<>>, NEW s \in Names, Online(s)
             PROVE  peer[enroller[s]] = "up" \/ enroller[s] \in unseen
  BY DEF AnnouncedLossIsHandled, Quiescent
<1>1. s \in OnlineIn(m_MapServiceInfo) /\ s \in DOMAIN m_MapServiceInfo
  BY DEF Online, OnlineIn
<1>2. enroller[s] \in Conns /\ peer[enroller[s]] \in {"up", "gone"}
  BY <1>1 DEF CoreInv, TypeOK, EnrolledInv, LossInv, EnrollersCame
<1>3. DOMAIN inbox = {}
  OBVIOUS
<1>4. enroller[s] \notin Announced
  BY <1>1, <1>3 DEF LossInv, LossComes, LostAfter
<1> QED BY <1>2, <1>4 DEF Announced

\* No announced loss is forgotten: when nothing is left to handle, a service is online
\* only through a peer that is there, or one that left before the subscription; with
\* any number of peers, calls and signals in flight, and also when a peer leaves while
\* its own registration is queued or being handled.
THEOREM AnnouncedLossStaysHandled == OneServicePerPeer /\ Spec => []AnnouncedLossIsHandled
<1> SUFFICES ASSUME OneServicePerPeer PROVE Spec => []AnnouncedLossIsHandled
  OBVIOUS
<1>1. CoreInv /\ WatchedInv /\ LossInv /\ [Next]_vars => WatchedInv' /\ LossInv'
  BY LossStep
<1>2. Spec => [](WatchedInv /\ LossInv)
  BY <1>1, LossStart, CoreInvariant, PTL DEF Spec
<1> QED BY <1>2, LossHandled, CoreInvariant, PTL
=============================================================================
