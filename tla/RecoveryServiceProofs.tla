------------------------ MODULE RecoveryServiceProofs ------------------------
(***************************************************************************)
(* Proofs about RecoveryService, for any number of peers, services, calls  *)
(* and messages in flight.                                                 *)
(*                                                                         *)
(* CoreInv is the inductive invariant.  It ties the program counter of the *)
(* dispatch thread to the message at the head of the inbox, the messages   *)
(* to the peers that caused them, the history variable enroller to the     *)
(* registry, and the two maps to each other with the gaps the handlers     *)
(* leave between their locks.  It survives the destruction of the registry *)
(* as well, so DaemonProofs rests on it too.                               *)
(***************************************************************************)
EXTENDS RecoveryService, ServiceInfoProofs, SequenceTheorems, TLAPS

IsCall(msg) == msg.type # "NameOwnerChanged"

\* The handler that is under way is one of the message at the head.
HandlerInv ==
  /\ pc # "idle" => inbox # <<>>
  /\ pc \in {"callback", "watch"} => Msg.type = "register"
  /\ pc = "unwatch" => Msg.type = "unregister"
  /\ pc = "reply" => IsCall(Msg)
  /\ pc = "failure" => Msg.type = "NameOwnerChanged" /\ ~ Msg.owned

\* A call comes from a peer that was there, about a name of that peer; a
\* disconnection was announced because it happened under the subscription.
Sent(msg) ==
  /\ IsCall(msg) => peer[msg.conn] # "absent" /\ msg.args.service \in Enrols[msg.conn]
  /\ ~ IsCall(msg) /\ ~ msg.owned => msg.name \in Announced

InboxInv == \A msg \in Range(inbox) : Sent(msg)

\* The registry tracks the services somebody has enrolled, each over a connection
\* that makes calls about it.
EnrolledInv ==
  \A s \in Names :
    /\ enroller[s] \in Conns <=> s \in DOMAIN m_MapServiceInfo
    /\ enroller[s] \in Conns => s \in Enrols[enroller[s]]

\* An online service is watched through its enroller, except in the two gaps: a
\* registration has been accepted and the mapping is yet to be written, or a loss
\* has been looked up and the service is yet to be taken offline.
WatchInv ==
  \A s \in OnlineIn(m_MapServiceInfo) :
    \/ s \in DOMAIN m_ServiceToBusName /\ m_ServiceToBusName[s] = enroller[s]
    \/ pc = "watch" /\ s = serviceName /\ enroller[s] = uniqueBusName
    \/ pc = "failure" /\ s = lStrAffectedService /\ enroller[s] = Msg.name

\* What is known in the gaps of the handlers: a service to be watched is enrolled by
\* the caller, unless it was forgotten; one to be unwatched is not tracked; one to be
\* taken offline is no longer watched.
GapInv ==
  /\ pc = "watch" =>
       /\ serviceName \in ServiceNames
       /\ serviceName \in OnlineIn(m_MapServiceInfo) => enroller[serviceName] = uniqueBusName
  /\ pc = "unwatch" => serviceName \notin DOMAIN m_MapServiceInfo
  /\ pc = "failure" => lStrAffectedService \notin DOMAIN m_ServiceToBusName

\* OfflineMeansGone in terms of OnlineIn.
GoneInv ==
  \A s \in DOMAIN m_MapServiceInfo \ OnlineIn(m_MapServiceInfo) : peer[enroller[s]] = "gone"

\* Who left unseen has left.
UnseenInv == \A c \in unseen : peer[c] = "gone"

\* A peer that is not there waits for nothing; one whose last call was answered
\* has no call left in the inbox.
AnswerInv ==
  \A c \in Conns :
    /\ peer[c] # "up" => call[c] = NoCall
    /\ peer[c] = "up" /\ call[c].answer \in {"OK", "REFUSED"}
         => \A msg \in Range(inbox) : IsCall(msg) => msg.conn # c

CoreInv ==
  /\ TypeOK /\ HandlerInv /\ InboxInv /\ EnrolledInv
  /\ WatchInv /\ GapInv /\ GoneInv /\ UnseenInv /\ AnswerInv

\* The two maps agree exactly but for the service a handler is working on.
ExactInv ==
  /\ Settled => DOMAIN m_ServiceToBusName = OnlineIn(m_MapServiceInfo)
  /\ pc = "watch" => DOMAIN m_ServiceToBusName \cup {serviceName} = OnlineIn(m_MapServiceInfo)
  /\ pc = "unwatch" => DOMAIN m_ServiceToBusName \ {serviceName} = OnlineIn(m_MapServiceInfo)
  /\ pc = "failure" =>
       DOMAIN m_ServiceToBusName \cup {lStrAffectedService} = OnlineIn(m_MapServiceInfo)

-----------------------------------------------------------------------------
(* The inbox.                                                              *)

\* A message arrives.
LEMMA AppendRange ==
  ASSUME NEW S, NEW q \in Seq(S), NEW e \in S
  PROVE  /\ Append(q, e) \in Seq(S)
         /\ Append(q, e) # <<>>
         /\ Range(Append(q, e)) = Range(q) \cup {e}
         /\ q # <<>> => Head(Append(q, e)) = Head(q)
<1>1. /\ Append(q, e) \in Seq(S)
      /\ Len(Append(q, e)) = Len(q) + 1
      /\ Len(q) \in Nat
      /\ DOMAIN q = 1 .. Len(q)
      /\ DOMAIN Append(q, e) = 1 .. Len(q) + 1
      /\ \A i \in 1 .. Len(q) : Append(q, e)[i] = q[i]
      /\ Append(q, e)[Len(q) + 1] = e
  OBVIOUS
<1>2. Range(Append(q, e)) = Range(q) \cup {e}
  BY <1>1 DEF Range
<1>3. q # <<>> => 1 \in 1 .. Len(q)
  OBVIOUS
<1>4. Append(q, e) # <<>>
  BY <1>1
<1>5. q # <<>> => Head(Append(q, e)) = Head(q)
  BY <1>1, <1>3
<1> QED BY <1>1, <1>2, <1>4, <1>5

\* The message at the head is done with.
LEMMA TailRange ==
  ASSUME NEW S, NEW q \in Seq(S), q # <<>>
  PROVE  /\ Tail(q) \in Seq(S)
         /\ Head(q) \in Range(q)
         /\ Range(q) \subseteq S
         /\ Range(Tail(q)) \subseteq Range(q)
         /\ \A e \in Range(Tail(q)) : \E i \in 2 .. Len(q) : q[i] = e
<1>1. /\ Tail(q) \in Seq(S)
      /\ Len(q) \in Nat \ {0}
      /\ DOMAIN q = 1 .. Len(q)
      /\ DOMAIN Tail(q) = 1 .. Len(q) - 1
      /\ \A i \in 1 .. Len(q) - 1 : Tail(q)[i] = q[i + 1]
      /\ Head(q) = q[1]
      /\ \A i \in 1 .. Len(q) : q[i] \in S
  OBVIOUS
<1>2. \A e \in Range(Tail(q)) : \E i \in 2 .. Len(q) : q[i] = e
  <2> TAKE e \in Range(Tail(q))
  <2>1. PICK k \in 1 .. Len(q) - 1 : e = q[k + 1]
    BY <1>1 DEF Range
  <2>2. k + 1 \in 2 .. Len(q)
    BY <1>1
  <2> QED BY <2>1, <2>2
<1>3. Range(Tail(q)) \subseteq Range(q)
  <2>1. \A i \in 2 .. Len(q) : q[i] \in Range(q)
    BY <1>1 DEF Range
  <2> QED BY <1>2, <2>1
<1>4. Head(q) \in Range(q) /\ Range(q) \subseteq S
  BY <1>1 DEF Range
<1> QED BY <1>1, <1>2, <1>3, <1>4

\* A message arrives in the inbox.
LEMMA Arrival ==
  ASSUME TypeOK, NEW e \in Messages, inbox' = Append(inbox, e)
  PROVE  /\ inbox' \in Seq(Messages)
         /\ inbox' # <<>>
         /\ Range(inbox') = Range(inbox) \cup {e}
         /\ inbox # <<>> => Msg' = Msg
<1>1. inbox \in Seq(Messages)
  BY DEF TypeOK
<1>2. /\ Append(inbox, e) \in Seq(Messages)
      /\ Append(inbox, e) # <<>>
      /\ Range(Append(inbox, e)) = Range(inbox) \cup {e}
      /\ inbox # <<>> => Head(Append(inbox, e)) = Head(inbox)
  BY <1>1, AppendRange
<1>3. inbox # <<>> => Head(inbox') = Head(inbox)
  BY <1>2
<1> QED BY <1>2, <1>3 DEF Msg

\* The head of the inbox is done with.
LEMMA Departure ==
  ASSUME TypeOK, inbox # <<>>, inbox' = Tail(inbox)
  PROVE  /\ inbox' \in Seq(Messages)
         /\ Range(inbox') \subseteq Range(inbox)
         /\ \A msg \in Range(inbox') : \E i \in 2 .. Len(inbox) : inbox[i] = msg
<1>1. inbox \in Seq(Messages)
  BY DEF TypeOK
<1> QED BY <1>1, TailRange

\* A message arrives behind all others.
LEMMA ArrivalPositions ==
  ASSUME TypeOK, NEW e \in Messages, inbox' = Append(inbox, e)
  PROVE  /\ DOMAIN inbox' = DOMAIN inbox \cup {Len(inbox) + 1}
         /\ Len(inbox) + 1 \notin DOMAIN inbox
         /\ \A i \in DOMAIN inbox : inbox'[i] = inbox[i] /\ i < Len(inbox) + 1
         /\ inbox'[Len(inbox) + 1] = e
         /\ Len(inbox) \in Nat
         /\ DOMAIN inbox \subseteq Nat
         /\ inbox # <<>> => Len(inbox) + 1 > 1
<1>1. inbox \in Seq(Messages)
  BY DEF TypeOK
<1>2. DOMAIN inbox = 1 .. Len(inbox) /\ Len(inbox) \in Nat
  BY <1>1
<1>3. /\ DOMAIN Append(inbox, e) = 1 .. Len(inbox) + 1
      /\ \A i \in 1 .. Len(inbox) : Append(inbox, e)[i] = inbox[i]
      /\ Append(inbox, e)[Len(inbox) + 1] = e
  BY <1>1
<1>4. inbox # <<>> => Len(inbox) > 0
  BY <1>1
<1> QED BY <1>2, <1>3, <1>4

\* The others move up.
LEMMA DeparturePositions ==
  ASSUME TypeOK, inbox # <<>>, inbox' = Tail(inbox)
  PROVE  /\ \A i \in DOMAIN inbox' : i + 1 \in DOMAIN inbox /\ inbox'[i] = inbox[i + 1] /\ i \in Nat
         /\ \A i \in DOMAIN inbox : i > 1 => i - 1 \in DOMAIN inbox' /\ inbox'[i - 1] = inbox[i]
         /\ DOMAIN inbox \subseteq Nat \ {0}
         /\ 1 \in DOMAIN inbox /\ Msg = inbox[1]
<1>1. inbox \in Seq(Messages)
  BY DEF TypeOK
<1>2. DOMAIN inbox = 1 .. Len(inbox) /\ Len(inbox) \in Nat /\ Len(inbox) > 0 /\ Head(inbox) = inbox[1]
  BY <1>1
<1>3. /\ DOMAIN Tail(inbox) = 1 .. Len(inbox) - 1
      /\ \A i \in 1 .. Len(inbox) - 1 : Tail(inbox)[i] = inbox[i + 1]
  BY <1>1, <1>2
<1> QED BY <1>2, <1>3 DEF Msg

\* The message being handled.
LEMMA HeadMessage ==
  ASSUME TypeOK, inbox # <<>>
  PROVE  Msg \in Messages /\ Msg \in Range(inbox)
<1>1. inbox \in Seq(Messages)
  BY DEF TypeOK
<1>2. Head(inbox) \in Range(inbox) /\ Range(inbox) \subseteq Messages
  BY <1>1, TailRange
<1> QED BY <1>2 DEF Msg

\* What the messages carry.
LEMMA MessageFields ==
  ASSUME NEW msg \in Messages
  PROVE  /\ msg.type \in {"register", "unregister", "report", "NameOwnerChanged"}
         /\ IsCall(msg) => msg.conn \in Conns /\ msg.args.service \in Names
         /\ msg.type = "register" => msg.args.actions \in Seq(RecoveryState)
         /\ msg.type = "report" => /\ msg.args.current \in RecoveryState
                                   /\ msg.args.last \in RecoveryState
         /\ ~ IsCall(msg) => /\ msg.name \in Conns
                             /\ msg.owned \in BOOLEAN
                             /\ msg = NameOwnerChanged(msg.name, msg.owned)
<1>1. Policies \subseteq Seq(RecoveryState) /\ Reports \subseteq RecoveryState
  BY ServiceAssumption
<1>2. CASE msg \in Calls
  BY <1>1, <1>2 DEF Calls, IsCall, Register, Unregister, Report
<1>3. CASE msg \in Signals
  BY <1>3 DEF Signals, IsCall, NameOwnerChanged
<1> QED BY <1>2, <1>3 DEF Messages

\* The signals the bus may send.
LEMMA SignalMessage ==
  ASSUME NEW c \in Conns, NEW owned \in BOOLEAN
  PROVE  /\ NameOwnerChanged(c, owned) \in Messages
         /\ ~ IsCall(NameOwnerChanged(c, owned))
         /\ NameOwnerChanged(c, owned).name = c
         /\ NameOwnerChanged(c, owned).owned = owned
  BY DEF Messages, Signals, NameOwnerChanged, IsCall

\* The calls a peer may make.
Requests(c) == Register(Enrols[c]) \cup Unregister(Enrols[c]) \cup Report(Enrols[c])

CallOf(c, request) == [type |-> request.type, conn |-> c, args |-> request]

\* A call is a message with its caller and a name of that caller.
LEMMA CallMessage ==
  ASSUME NEW c \in Conns, NEW request \in Requests(c)
  PROVE  /\ CallOf(c, request) \in Messages
         /\ IsCall(CallOf(c, request))
         /\ CallOf(c, request).conn = c
         /\ CallOf(c, request).args.service \in Enrols[c]
         /\ request.service \in Names
         /\ request.type \in {"register", "unregister", "report"}
<1>1. Enrols[c] \subseteq Names
  BY ServiceAssumption
<1> DEFINE m == CallOf(c, request)
<1>2. m.type = request.type /\ m.conn = c /\ m.args = request
  BY DEF CallOf
<1>3. CASE request \in Register(Enrols[c])
  <2>1. request \in Register(Names) /\ request.type = "register" /\ request.service \in Enrols[c]
    BY <1>1, <1>3 DEF Register
  <2> QED BY <1>1, <1>2, <2>1 DEF CallOf, Messages, Calls, IsCall
<1>4. CASE request \in Unregister(Enrols[c])
  <2>1. request \in Unregister(Names) /\ request.type = "unregister" /\ request.service \in Enrols[c]
    BY <1>1, <1>4 DEF Unregister
  <2> QED BY <1>1, <1>2, <2>1 DEF CallOf, Messages, Calls, IsCall
<1>5. CASE request \in Report(Enrols[c])
  <2>1. request \in Report(Names) /\ request.type = "report" /\ request.service \in Enrols[c]
    BY <1>1, <1>5 DEF Report
  <2> QED BY <1>1, <1>2, <2>1 DEF CallOf, Messages, Calls, IsCall
<1> QED BY <1>3, <1>4, <1>5 DEF Requests
-----------------------------------------------------------------------------
(* The peers, the bus and the main thread.                                 *)

\* At most one message arrives; a peer that was there stays or leaves, and an
\* announced loss stays announced.
PeersMove ==
  /\ UNCHANGED <<phase, maps, handler, enroller>>
  /\ inbox' = inbox \/ \E e \in Messages : inbox' = Append(inbox, e) /\ Sent(e)'
  /\ peer' \in [Conns -> {"absent", "up", "gone"}]
  /\ \A c \in Conns : /\ peer[c] # "absent" => peer'[c] # "absent"
                      /\ peer[c] = "gone" => peer'[c] = "gone"
  /\ call' \in [Conns -> CallStates]
  /\ calls' \in 0 .. MaxCalls
  /\ unseen' \subseteq Conns
  /\ UnseenInv'
  /\ Announced \subseteq Announced'

\* Whatever the peers do keeps the invariant, up to AnswerInv, which is about them.
LEMMA PeersMoveKeeps ==
  ASSUME CoreInv, PeersMove, AnswerInv'
  PROVE  CoreInv'
<1>1. /\ UNCHANGED <<phase, m_MapServiceInfo, m_ServiceToBusName, pc, isOk, lStrAffectedService, enroller>>
      /\ inbox \in Seq(Messages)
  BY DEF PeersMove, maps, handler, CoreInv, TypeOK
<1>2. /\ inbox' \in Seq(Messages)
      /\ inbox # <<>> => inbox' # <<>> /\ Msg' = Msg
      /\ \A msg \in Range(inbox') : msg \in Range(inbox) \/ Sent(msg)'
  <2>1. CASE inbox' = inbox
    BY <1>1, <2>1 DEF Msg
  <2>2. CASE \E e \in Messages : inbox' = Append(inbox, e) /\ Sent(e)'
    <3>1. PICK e \in Messages : inbox' = Append(inbox, e) /\ Sent(e)'
      BY <2>2
    <3> QED BY <3>1, Arrival DEF CoreInv
  <2> QED BY <2>1, <2>2 DEF PeersMove
<1>3. TypeOK'
  BY <1>1, <1>2 DEF CoreInv, TypeOK, PeersMove
<1>4. HandlerInv'
  BY <1>1, <1>2 DEF CoreInv, HandlerInv
<1>5. InboxInv'
  <2> SUFFICES ASSUME NEW msg \in Range(inbox') PROVE Sent(msg)'
    BY DEF InboxInv
  <2>1. CASE Sent(msg)'
    BY <2>1
  <2>2. CASE msg \in Range(inbox)
    <3>1. Sent(msg)
      BY <2>2 DEF CoreInv, InboxInv
    <3>2. msg \in Messages
      BY <1>1, <2>2 DEF Range
    <3> QED BY <3>1, <3>2, MessageFields DEF Sent, PeersMove
  <2> QED BY <1>2, <2>1, <2>2
<1>6. EnrolledInv'
  BY <1>1 DEF CoreInv, EnrolledInv
<1>7. WatchInv' /\ GapInv'
  <2>1. pc # "idle" => Msg' = Msg /\ serviceName' = serviceName /\ uniqueBusName' = uniqueBusName
    BY <1>2 DEF CoreInv, HandlerInv, serviceName, uniqueBusName
  <2>2. WatchInv'
    BY <1>1, <2>1 DEF CoreInv, WatchInv
  <2> QED BY <1>1, <2>1, <2>2 DEF CoreInv, GapInv
<1>8. GoneInv'
  <2> SUFFICES ASSUME NEW s \in DOMAIN m_MapServiceInfo \ OnlineIn(m_MapServiceInfo)
               PROVE  peer'[enroller[s]] = "gone"
    BY <1>1 DEF GoneInv
  <2>1. s \in Names /\ enroller[s] \in Conns /\ peer[enroller[s]] = "gone"
    BY ServiceAssumption DEF CoreInv, TypeOK, IsRegistry, EnrolledInv, GoneInv
  <2> QED BY <2>1 DEF PeersMove
<1> QED BY <1>3, <1>4, <1>5, <1>6, <1>7, <1>8 DEF CoreInv, PeersMove

\* A peer connects.
LEMMA ConnectKeeps ==
  ASSUME CoreInv, NEW c \in Conns, Connect(c)
  PROVE  CoreInv'
<1> DEFINE e == NameOwnerChanged(c, TRUE)
<1>1. /\ peer[c] = "absent"
      /\ peer' = [peer EXCEPT ![c] = "up"]
      /\ UNCHANGED <<phase, maps, handler, call, calls, unseen, enroller>>
      /\ inbox' \in {inbox, Append(inbox, e)}
  BY DEF Connect, Signal
<1>2. e \in Messages /\ Sent(e)' /\ ~ IsCall(e)
  BY SignalMessage DEF Sent
<1>3. PeersMove
  <2>1. Announced \subseteq Announced'
    BY <1>1 DEF Announced, CoreInv, TypeOK
  <2>2. UnseenInv'
    BY <1>1 DEF CoreInv, TypeOK, UnseenInv
  <2> QED BY <1>1, <1>2, <2>1, <2>2 DEF PeersMove, CoreInv, TypeOK
<1>4. AnswerInv'
  <2>1. \A msg \in Range(inbox') : IsCall(msg) => msg \in Range(inbox)
    <3> HIDE DEF e
    <3>1. inbox' = inbox \/ Range(inbox') = Range(inbox) \cup {e}
      BY <1>1, <1>2, Arrival DEF CoreInv
    <3> QED BY <1>2, <3>1
  <2>2. \A msg \in Range(inbox) : IsCall(msg) => msg.conn # c
    BY <1>1 DEF CoreInv, InboxInv, Sent
  <2>3. \A d \in Conns : d # c => peer'[d] = peer[d]
    BY <1>1 DEF CoreInv, TypeOK
  <2>4. peer'[c] = "up"
    BY <1>1 DEF CoreInv, TypeOK
  <2> QED BY <1>1, <2>1, <2>2, <2>3, <2>4 DEF CoreInv, AnswerInv
<1> QED BY <1>3, <1>4, PeersMoveKeeps

\* A peer leaves; the signal, if it is received, tells of a loss under the
\* subscription.
LEMMA LeaveKeeps ==
  ASSUME CoreInv, NEW c \in Conns, Leave(c)
  PROVE  CoreInv'
<1> DEFINE e == NameOwnerChanged(c, FALSE)
<1>1. /\ peer[c] = "up"
      /\ peer' = [peer EXCEPT ![c] = "gone"]
      /\ call' = [call EXCEPT ![c] = NoCall]
      /\ UNCHANGED <<phase, maps, handler, calls, enroller>>
  BY DEF Leave
<1>2. \/ inbox' = inbox /\ unseen' = unseen \cup {c}
      \/ inbox' = Append(inbox, e) /\ unseen' = unseen
  BY DEF Leave, Signal
<1>3. /\ peer'[c] = "gone" /\ call'[c] = NoCall
      /\ \A d \in Conns : d # c => peer'[d] = peer[d] /\ call'[d] = call[d]
      /\ NoCall \in CallStates
  BY <1>1 DEF CoreInv, TypeOK, NoCall, CallStates
<1>4. inbox' = inbox \/ (inbox' = Append(inbox, e) /\ e \in Messages /\ Sent(e)')
  <2>1. CASE inbox' = Append(inbox, e) /\ unseen' = unseen
    <3>1. c \notin unseen
      BY <1>1 DEF CoreInv, UnseenInv
    <3> QED BY <2>1, <3>1, <1>3, SignalMessage DEF Sent, Announced
  <2> QED BY <1>2, <2>1
<1>5. PeersMove
  <2>1. UnseenInv'
    BY <1>2, <1>3 DEF CoreInv, TypeOK, UnseenInv
  <2>2. Announced \subseteq Announced'
    BY <1>1, <1>2, <1>3 DEF Announced
  <2>3. /\ peer' \in [Conns -> {"absent", "up", "gone"}]
        /\ call' \in [Conns -> CallStates]
        /\ unseen' \subseteq Conns
    BY <1>1, <1>2, <1>3 DEF CoreInv, TypeOK
  <2> QED BY <1>1, <1>3, <1>4, <2>1, <2>2, <2>3 DEF PeersMove, CoreInv, TypeOK
<1>6. AnswerInv'
  <2>1. \A msg \in Range(inbox') : IsCall(msg) => msg \in Range(inbox)
    <3>1. ~ IsCall(e)
      BY SignalMessage
    <3> HIDE DEF e
    <3>2. inbox' = inbox \/ Range(inbox') = Range(inbox) \cup {e}
      BY <1>4, Arrival DEF CoreInv
    <3> QED BY <3>1, <3>2
  <2> QED BY <1>3, <2>1 DEF CoreInv, AnswerInv
<1> QED BY <1>5, <1>6, PeersMoveKeeps

\* A peer makes a call, whoever bounds their number.
LEMMA SendKeeps ==
  ASSUME CoreInv, NEW c \in Conns, NEW request \in Requests(c), Send(c, request),
         calls' \in 0 .. MaxCalls
  PROVE  CoreInv'
<1> DEFINE e == CallOf(c, request)
           state == [op |-> request.type, service |-> request.service, answer |-> "none"]
<1>1. /\ peer[c] = "up"
      /\ call' = [call EXCEPT ![c] = state]
      /\ inbox' = Append(inbox, e)
      /\ UNCHANGED <<phase, maps, handler, peer, unseen, enroller>>
  BY DEF Send, CallOf
<1>2. /\ e \in Messages /\ IsCall(e) /\ e.conn = c /\ e.args.service \in Enrols[c]
      /\ state \in CallStates
  BY CallMessage DEF CallStates
<1>3. /\ call'[c] = state
      /\ \A d \in Conns : d # c => call'[d] = call[d]
      /\ call' \in [Conns -> CallStates]
  BY <1>1, <1>2 DEF CoreInv, TypeOK
<1>4. PeersMove
  <2>1. Sent(e)'
    BY <1>1, <1>2 DEF Sent
  <2>2. UnseenInv' /\ Announced' = Announced
    BY <1>1 DEF CoreInv, UnseenInv, Announced
  <2> QED BY <1>1, <1>2, <1>3, <2>1, <2>2 DEF PeersMove, CoreInv, TypeOK
<1>5. AnswerInv'
  <2>1. Range(inbox') = Range(inbox) \cup {e}
    <3> HIDE DEF e
    <3> QED BY <1>1, <1>2, Arrival DEF CoreInv
  <2> QED BY <1>1, <1>2, <1>3, <2>1 DEF CoreInv, AnswerInv
<1> QED BY <1>4, <1>5, PeersMoveKeeps

\* A peer's call state moves without a message: it gives up, or learns that the
\* service is available or has gone.
LEMMA CallStateKeeps ==
  ASSUME CoreInv, NEW c \in Conns, peer[c] = "up", NEW state \in CallStates,
         state.answer \in {"OK", "REFUSED"} => call[c].answer \in {"OK", "REFUSED"},
         call' = [call EXCEPT ![c] = state],
         UNCHANGED <<phase, maps, inbox, handler, peer, calls, unseen, enroller>>
  PROVE  CoreInv'
<1>1. /\ call'[c] = state
      /\ \A d \in Conns : d # c => call'[d] = call[d]
      /\ call' \in [Conns -> CallStates]
  BY DEF CoreInv, TypeOK
<1>2. PeersMove
  <2>1. UnseenInv' /\ Announced' = Announced
    BY DEF CoreInv, UnseenInv, Announced
  <2> QED BY <1>1, <2>1 DEF PeersMove, CoreInv, TypeOK
<1>3. AnswerInv'
  BY <1>1 DEF CoreInv, AnswerInv
<1> QED BY <1>2, <1>3, PeersMoveKeeps

\* A peer gives up its call; the message stays in the inbox.
LEMMA GiveUpKeeps ==
  ASSUME CoreInv, NEW c \in Conns, GiveUp(c)
  PROVE  CoreInv'
<1> DEFINE state == [call[c] EXCEPT !.answer = "ERROR"]
<1>1. call[c] \in CallStates /\ call[c].answer = "none"
  BY DEF GiveUp, Pending, CoreInv, TypeOK
<1>2. state \in CallStates /\ state.answer = "ERROR"
  BY <1>1 DEF CallStates
<1>3. call' = [call EXCEPT ![c] = state]
  BY DEF GiveUp
<1> HIDE DEF state
<1> QED BY <1>2, <1>3, CallStateKeeps DEF GiveUp

\* The steps of the peers.
LEMMA PeersKeep ==
  ASSUME CoreInv, Peers
  PROVE  CoreInv'
<1>1. ASSUME NEW c \in Conns, AnyCall(c) PROVE CoreInv'
  <2>1. PICK request \in Requests(c) : Send(c, request)
    BY <1>1 DEF AnyCall, Requests
  <2>2. calls' \in 0 .. MaxCalls
    <3>1. calls \in 0 .. MaxCalls /\ calls < MaxCalls /\ calls' = calls + 1 /\ MaxCalls \in Nat
      BY <1>1, ServiceAssumption DEF AnyCall, CoreInv, TypeOK
    <3> QED BY <3>1
  <2> QED BY <2>1, <2>2, SendKeeps
<1> QED BY <1>1, ConnectKeeps, LeaveKeeps, GiveUpKeeps DEF Peers

\* At most one message arrives with a step of the peers.
LEMMA PeersArrival ==
  ASSUME Peers
  PROVE  inbox' = inbox \/ \E e \in Messages : inbox' = Append(inbox, e)
<1>1. ASSUME NEW c \in Conns, NEW owned \in BOOLEAN, Signal(c, owned)
      PROVE  inbox' = inbox \/ \E e \in Messages : inbox' = Append(inbox, e)
  BY <1>1, SignalMessage DEF Signal
<1>2. ASSUME NEW c \in Conns, AnyCall(c)
      PROVE  \E e \in Messages : inbox' = Append(inbox, e)
  <2>1. PICK request \in Requests(c) : Send(c, request)
    BY <1>2 DEF AnyCall, Requests
  <2>2. CallOf(c, request) \in Messages /\ inbox' = Append(inbox, CallOf(c, request))
    BY <2>1, CallMessage DEF Send, CallOf
  <2> QED BY <2>2
<1> QED BY <1>1, <1>2 DEF Peers, Connect, Leave, GiveUp

\* The main thread touches nothing the invariant is about.
LEMMA MainKeeps ==
  ASSUME CoreInv, Main
  PROVE  CoreInv'
<1>1. /\ phase' \in {"wired", "failed", "published", "unsubscribed", "subscribed"}
      /\ UNCHANGED <<m_MapServiceInfo, m_ServiceToBusName, inbox, pc, isOk, lStrAffectedService,
                     peer, call, calls, unseen, enroller>>
  BY DEF Main, setCallbacks, runFails, publish, runUnsubscribed, subscribe, Startup,
         maps, handler, peers
<1> QED BY <1>1 DEF CoreInv, TypeOK, HandlerInv, InboxInv, Sent, Announced, EnrolledInv, WatchInv,
           GapInv, GoneInv, UnseenInv, AnswerInv, Msg, serviceName, uniqueBusName

-----------------------------------------------------------------------------
(* The dispatch thread.                                                    *)

\* The steps of a handler before its last one leave the inbox and the peers alone.
LEMMA WithinHandler ==
  ASSUME CoreInv, UNCHANGED <<inbox, peer, call, calls, unseen>>
  PROVE  /\ InboxInv' /\ UnseenInv' /\ AnswerInv'
         /\ Msg' = Msg /\ serviceName' = serviceName /\ uniqueBusName' = uniqueBusName
  BY DEF CoreInv, InboxInv, Sent, Announced, UnseenInv, AnswerInv, Msg, serviceName, uniqueBusName

\* The call being handled.
LEMMA HandledCall ==
  ASSUME CoreInv, inbox # <<>>, IsCall(Msg)
  PROVE  /\ Msg \in Messages
         /\ serviceName \in Names
         /\ serviceName \in Enrols[uniqueBusName]
         /\ uniqueBusName \in Conns
         /\ peer[uniqueBusName] # "absent"
         /\ Msg.type = "register" => Msg.args.actions \in Seq(RecoveryState)
         /\ Msg.type = "report" => Msg.args.current \in RecoveryState /\ Msg.args.last \in RecoveryState
<1>1. Msg \in Messages /\ Msg \in Range(inbox)
  BY HeadMessage DEF CoreInv
<1>2. Sent(Msg)
  BY <1>1 DEF CoreInv, InboxInv
<1> QED BY <1>1, <1>2, MessageFields DEF Sent, serviceName, uniqueBusName

\* The disconnection being handled.
LEMMA HandledSignal ==
  ASSUME CoreInv, inbox # <<>>, ~ IsCall(Msg)
  PROVE  /\ Msg \in Messages
         /\ Msg.name \in Conns
         /\ Msg.owned \in BOOLEAN
         /\ Msg = NameOwnerChanged(Msg.name, Msg.owned)
         /\ ~ Msg.owned => Msg.name \in Announced /\ peer[Msg.name] = "gone"
<1>1. Msg \in Messages /\ Msg \in Range(inbox)
  BY HeadMessage DEF CoreInv
<1>2. Sent(Msg)
  BY <1>1 DEF CoreInv, InboxInv
<1> QED BY <1>1, <1>2, MessageFields DEF Sent, Announced

\* registerService: the bus is asked for the pid.
LEMMA queryUnixPidKeeps ==
  ASSUME CoreInv, queryUnixPidForBusName
  PROVE  CoreInv'
<1>1. /\ inbox # <<>> /\ pc = "idle" /\ Msg.type = "register" /\ pc' = "callback"
      /\ UNCHANGED <<phase, m_MapServiceInfo, m_ServiceToBusName, inbox, isOk,
                     lStrAffectedService, peer, call, calls, unseen, enroller>>
  BY DEF queryUnixPidForBusName, Handling, maps, peers
<1>2. InboxInv' /\ UnseenInv' /\ AnswerInv' /\ Msg' = Msg
  BY <1>1, WithinHandler
<1>3. TypeOK' /\ HandlerInv'
  BY <1>1, <1>2 DEF CoreInv, TypeOK, HandlerInv
<1>4. EnrolledInv' /\ WatchInv' /\ GapInv' /\ GoneInv'
  BY <1>1 DEF CoreInv, EnrolledInv, WatchInv, GapInv, GoneInv
<1> QED BY <1>2, <1>3, <1>4 DEF CoreInv

\* registerService: an accepted service is tracked, online and enrolled by the
\* caller, and stays to be watched.
LEMMA registerCallbackKeeps ==
  ASSUME CoreInv, registerCallback
  PROVE  CoreInv'
<1> DEFINE s == serviceName
           c == uniqueBusName
<1>1. /\ pc = "callback" /\ inbox # <<>> /\ Msg.type = "register" /\ IsCall(Msg)
      /\ UNCHANGED <<phase, m_ServiceToBusName, inbox, lStrAffectedService, peer, call, calls, unseen>>
  BY DEF registerCallback, peers, CoreInv, HandlerInv, IsCall
<1>2. /\ s \in Names /\ s \in Enrols[c] /\ c \in Conns
      /\ Msg.args.actions \in Seq(RecoveryState)
  BY <1>1, HandledCall
<1>3. /\ InboxInv' /\ UnseenInv' /\ AnswerInv'
      /\ Msg' = Msg /\ serviceName' = s /\ uniqueBusName' = c
  BY <1>1, WithinHandler
<1>4. m_MapServiceInfo' = Registered(m_MapServiceInfo, s, Msg.args.actions)
  BY DEF registerCallback
<1>5. /\ IsRegistry(m_MapServiceInfo')
      /\ Accepts(m_MapServiceInfo, s) =>
           /\ s \in ServiceNames
           /\ DOMAIN m_MapServiceInfo' = DOMAIN m_MapServiceInfo \cup {s}
           /\ OnlineIn(m_MapServiceInfo') = OnlineIn(m_MapServiceInfo) \cup {s}
      /\ ~ Accepts(m_MapServiceInfo, s) => m_MapServiceInfo' = m_MapServiceInfo
  BY <1>2, <1>4, RegisteredKeeps DEF CoreInv, TypeOK
<1>6. CASE Accepts(m_MapServiceInfo, s)
  <2>1. isOk' = TRUE /\ pc' = "watch" /\ enroller' = [enroller EXCEPT ![s] = c]
    BY <1>6 DEF registerCallback, AfterRegister, Accepts
  <2>2. enroller'[s] = c /\ \A x \in Names : x # s => enroller'[x] = enroller[x]
    BY <1>2, <2>1 DEF CoreInv, TypeOK
  <2>3. TypeOK'
    BY <1>1, <1>2, <1>5, <2>1 DEF CoreInv, TypeOK
  <2>4. HandlerInv'
    BY <1>1, <1>3, <2>1 DEF HandlerInv
  <2>5. EnrolledInv'
    BY <1>2, <1>5, <1>6, <2>2 DEF CoreInv, EnrolledInv
  <2>6. WatchInv'
    <3> SUFFICES ASSUME NEW x \in OnlineIn(m_MapServiceInfo), x # s
                 PROVE  x \in DOMAIN m_ServiceToBusName /\ m_ServiceToBusName[x] = enroller'[x]
      BY <1>1, <1>3, <1>5, <1>6, <2>1, <2>2 DEF WatchInv
    <3>1. x \in Names
      BY ServiceAssumption DEF CoreInv, TypeOK, IsRegistry, OnlineIn
    <3> QED BY <1>1, <2>2, <3>1 DEF CoreInv, WatchInv
  <2>7. GapInv'
    BY <1>3, <1>5, <1>6, <2>1, <2>2 DEF GapInv
  <2>8. GoneInv'
    <3> SUFFICES ASSUME NEW x \in DOMAIN m_MapServiceInfo \ OnlineIn(m_MapServiceInfo), x # s
                 PROVE  peer[enroller'[x]] = "gone"
      BY <1>1, <1>5, <1>6 DEF GoneInv
    <3>1. x \in Names
      BY ServiceAssumption DEF CoreInv, TypeOK, IsRegistry
    <3> QED BY <2>2, <3>1 DEF CoreInv, GoneInv
  <2> QED BY <1>3, <2>3, <2>4, <2>5, <2>6, <2>7, <2>8 DEF CoreInv
<1>7. CASE ~ Accepts(m_MapServiceInfo, s)
  <2>1. isOk' = FALSE
    <3>1. Accepts(m_MapServiceInfo, s) = FALSE
      BY <1>7 DEF Accepts
    <3>2. isOk' = Accepts(m_MapServiceInfo, s)
      BY DEF registerCallback
    <3> QED BY <3>1, <3>2
  <2>4. pc' = "reply" /\ enroller' = enroller /\ m_MapServiceInfo' = m_MapServiceInfo
    BY <1>5, <1>7, <2>1 DEF registerCallback, AfterRegister
  <2>2. TypeOK' /\ HandlerInv'
    BY <1>1, <1>3, <2>1, <2>4 DEF CoreInv, TypeOK, HandlerInv
  <2>3. EnrolledInv' /\ WatchInv' /\ GapInv' /\ GoneInv'
    BY <1>1, <2>4 DEF CoreInv, EnrolledInv, WatchInv, GapInv, GoneInv
  <2> QED BY <1>3, <2>2, <2>3 DEF CoreInv
<1> QED BY <1>6, <1>7

\* registerService: the gap is closed.
LEMMA watchPeerKeeps ==
  ASSUME CoreInv, watchPeer
  PROVE  CoreInv'
<1> DEFINE s == serviceName
           c == uniqueBusName
<1>1. /\ pc = "watch" /\ inbox # <<>> /\ Msg.type = "register" /\ IsCall(Msg) /\ pc' = "reply"
      /\ UNCHANGED <<phase, m_MapServiceInfo, inbox, isOk, lStrAffectedService, peer, call,
                     calls, unseen, enroller>>
  BY DEF watchPeer, peers, CoreInv, HandlerInv, IsCall
<1>2. c \in Conns /\ s \in ServiceNames
  BY <1>1, HandledCall DEF CoreInv, GapInv
<1>3. InboxInv' /\ UnseenInv' /\ AnswerInv' /\ Msg' = Msg
  BY <1>1, WithinHandler
<1>4. /\ DOMAIN m_ServiceToBusName' = DOMAIN m_ServiceToBusName \cup {s}
      /\ m_ServiceToBusName'[s] = c
      /\ \A x \in DOMAIN m_ServiceToBusName : x # s => m_ServiceToBusName'[x] = m_ServiceToBusName[x]
      /\ m_ServiceToBusName' \in [DOMAIN m_ServiceToBusName' -> Conns]
  BY <1>2 DEF watchPeer, Watch, CoreInv, TypeOK
<1>5. TypeOK'
  BY <1>1, <1>2, <1>4 DEF CoreInv, TypeOK
<1>6. HandlerInv' /\ GapInv'
  BY <1>1, <1>3 DEF CoreInv, HandlerInv, GapInv
<1>7. EnrolledInv' /\ GoneInv'
  BY <1>1 DEF CoreInv, EnrolledInv, GoneInv
<1>8. WatchInv'
  <2> SUFFICES ASSUME NEW x \in OnlineIn(m_MapServiceInfo)
               PROVE  x \in DOMAIN m_ServiceToBusName' /\ m_ServiceToBusName'[x] = enroller[x]
    BY <1>1 DEF WatchInv
  <2>1. CASE x = s
    BY <1>1, <1>4, <2>1 DEF CoreInv, GapInv
  <2>2. CASE x # s
    BY <1>1, <1>4, <2>2 DEF CoreInv, WatchInv
  <2> QED BY <2>1, <2>2
<1> QED BY <1>3, <1>5, <1>6, <1>7, <1>8 DEF CoreInv

\* unregisterService: the service is forgotten, and who enrolled it.
LEMMA unregisterServiceKeeps ==
  ASSUME CoreInv, unregisterService
  PROVE  CoreInv'
<1> DEFINE s == serviceName
<1>1. /\ pc = "idle" /\ inbox # <<>> /\ Msg.type = "unregister" /\ IsCall(Msg)
      /\ m_MapServiceInfo' = Erase(m_MapServiceInfo, s)
      /\ isOk' = (s \in DOMAIN m_MapServiceInfo)
      /\ UNCHANGED <<phase, m_ServiceToBusName, inbox, lStrAffectedService, peer, call, calls, unseen>>
  BY DEF unregisterService, Handling, peers, IsCall
<1>2. /\ InboxInv' /\ UnseenInv' /\ AnswerInv'
      /\ Msg' = Msg /\ serviceName' = s /\ s \in Names
  BY <1>1, HandledCall, WithinHandler
<1>3. /\ IsRegistry(m_MapServiceInfo')
      /\ DOMAIN m_MapServiceInfo' = DOMAIN m_MapServiceInfo \ {s}
      /\ OnlineIn(m_MapServiceInfo') = OnlineIn(m_MapServiceInfo) \ {s}
  BY <1>1, EraseKeeps DEF CoreInv, TypeOK
<1>4. /\ pc' \in {"unwatch", "reply"}
      /\ enroller' \in [Names -> Conns \cup {NoConn}]
      /\ \A x \in Names : x # s => enroller'[x] = enroller[x]
      /\ enroller'[s] \notin Conns
  <2>1. CASE s \in DOMAIN m_MapServiceInfo
    <3>1. enroller' = [enroller EXCEPT ![s] = NoConn] /\ pc' = "unwatch"
      BY <2>1 DEF unregisterService
    <3> QED BY <1>2, <3>1, ServiceAssumption DEF CoreInv, TypeOK
  <2>2. CASE s \notin DOMAIN m_MapServiceInfo
    <3>1. enroller' = enroller /\ pc' = "reply"
      BY <2>2 DEF unregisterService
    <3> QED BY <1>2, <2>2, <3>1 DEF CoreInv, TypeOK, EnrolledInv
  <2> QED BY <2>1, <2>2
<1>5. TypeOK'
  <2>1. isOk' \in BOOLEAN
    BY <1>1
  <2> QED BY <1>1, <1>3, <1>4, <2>1 DEF CoreInv, TypeOK
<1>6. HandlerInv' /\ GapInv'
  BY <1>1, <1>2, <1>3, <1>4 DEF CoreInv, HandlerInv, GapInv
<1>7. \A x \in DOMAIN m_MapServiceInfo : x \in Names
  BY ServiceAssumption DEF CoreInv, TypeOK, IsRegistry
<1>8. EnrolledInv'
  BY <1>2, <1>3, <1>4 DEF CoreInv, EnrolledInv
<1>9. GoneInv'
  BY <1>1, <1>3, <1>4, <1>7 DEF CoreInv, GoneInv
<1>10. WatchInv'
  <2> SUFFICES ASSUME NEW x \in OnlineIn(m_MapServiceInfo), x # s
               PROVE  x \in DOMAIN m_ServiceToBusName /\ m_ServiceToBusName[x] = enroller'[x]
    BY <1>1, <1>3 DEF WatchInv
  <2>1. x \in Names
    BY <1>7 DEF OnlineIn
  <2> QED BY <1>1, <1>4, <2>1 DEF CoreInv, WatchInv
<1> QED BY <1>2, <1>5, <1>6, <1>8, <1>9, <1>10 DEF CoreInv

\* The mapping of one service is dropped.
LEMMA UnwatchKeeps ==
  ASSUME TypeOK, NEW s, m_ServiceToBusName' = Unwatch(m_ServiceToBusName, s)
  PROVE  /\ DOMAIN m_ServiceToBusName' = DOMAIN m_ServiceToBusName \ {s}
         /\ DOMAIN m_ServiceToBusName' \subseteq ServiceNames
         /\ m_ServiceToBusName' \in [DOMAIN m_ServiceToBusName' -> Conns]
         /\ \A x \in DOMAIN m_ServiceToBusName : x # s => m_ServiceToBusName'[x] = m_ServiceToBusName[x]
  BY DEF TypeOK, Unwatch, Erase, Restrict

\* unregisterService: nobody is online under the name whose mapping goes.
LEMMA unwatchPeerKeeps ==
  ASSUME CoreInv, unwatchPeer
  PROVE  CoreInv'
<1> DEFINE s == serviceName
<1>1. /\ pc = "unwatch" /\ inbox # <<>> /\ Msg.type = "unregister" /\ IsCall(Msg) /\ pc' = "reply"
      /\ m_ServiceToBusName' = Unwatch(m_ServiceToBusName, s)
      /\ UNCHANGED <<phase, m_MapServiceInfo, inbox, isOk, lStrAffectedService, peer, call,
                     calls, unseen, enroller>>
  BY DEF unwatchPeer, peers, CoreInv, HandlerInv, IsCall
<1>2. InboxInv' /\ UnseenInv' /\ AnswerInv' /\ Msg' = Msg
  BY <1>1, WithinHandler
<1>3. /\ DOMAIN m_ServiceToBusName' = DOMAIN m_ServiceToBusName \ {s}
      /\ DOMAIN m_ServiceToBusName' \subseteq ServiceNames
      /\ m_ServiceToBusName' \in [DOMAIN m_ServiceToBusName' -> Conns]
      /\ \A x \in DOMAIN m_ServiceToBusName : x # s => m_ServiceToBusName'[x] = m_ServiceToBusName[x]
  BY <1>1, UnwatchKeeps DEF CoreInv
<1>4. TypeOK'
  BY <1>1, <1>3 DEF CoreInv, TypeOK
<1>5. HandlerInv' /\ GapInv'
  BY <1>1, <1>2 DEF CoreInv, HandlerInv, GapInv
<1>6. EnrolledInv' /\ GoneInv'
  BY <1>1 DEF CoreInv, EnrolledInv, GoneInv
<1>7. WatchInv'
  <2>1. \A x \in OnlineIn(m_MapServiceInfo) : x # s
    BY <1>1 DEF CoreInv, GapInv, OnlineIn
  <2> QED BY <1>1, <1>3, <2>1 DEF CoreInv, WatchInv
<1> QED BY <1>2, <1>4, <1>5, <1>6, <1>7 DEF CoreInv

\* reportServiceState: a push leaves everybody online or offline as they were.
LEMMA ReportChangesNobody ==
  ASSUME CoreInv, reportServiceState
  PROVE  /\ IsRegistry(m_MapServiceInfo')
         /\ DOMAIN m_MapServiceInfo' = DOMAIN m_MapServiceInfo
         /\ OnlineIn(m_MapServiceInfo') = OnlineIn(m_MapServiceInfo)
<1> DEFINE new == AfterReport(m_MapServiceInfo, serviceName, Msg.args.current, Msg.args.last)
<1>1. inbox # <<>> /\ Msg.type = "report" /\ IsCall(Msg) /\ m_MapServiceInfo' = new
  BY DEF reportServiceState, Handling, IsCall
<1>2. Msg.args.current \in RecoveryState /\ Msg.args.last \in RecoveryState
  BY <1>1, HandledCall
<1>3. IsRegistry(m_MapServiceInfo)
  BY DEF CoreInv, TypeOK
<1>4. IsRegistry(new) /\ DOMAIN new = DOMAIN m_MapServiceInfo /\ OnlineIn(new) = OnlineIn(m_MapServiceInfo)
  BY <1>2, <1>3, AfterReportKeeps
<1> HIDE DEF new
<1> QED BY <1>1, <1>4

\* reportServiceState keeps the invariant.
LEMMA reportServiceStateKeeps ==
  ASSUME CoreInv, reportServiceState
  PROVE  CoreInv'
<1> DEFINE s == serviceName
<1>1. /\ pc = "idle" /\ inbox # <<>> /\ Msg.type = "report" /\ IsCall(Msg) /\ pc' = "reply"
      /\ m_MapServiceInfo' = AfterReport(m_MapServiceInfo, s, Msg.args.current, Msg.args.last)
      /\ isOk' = (s \in DOMAIN m_MapServiceInfo)
      /\ UNCHANGED <<phase, m_ServiceToBusName, inbox, lStrAffectedService, peer, call, calls,
                     unseen, enroller>>
  BY DEF reportServiceState, Handling, peers, IsCall
<1>2. InboxInv' /\ UnseenInv' /\ AnswerInv' /\ Msg' = Msg
  BY <1>1, WithinHandler
<1>3. /\ IsRegistry(m_MapServiceInfo')
      /\ DOMAIN m_MapServiceInfo' = DOMAIN m_MapServiceInfo
      /\ OnlineIn(m_MapServiceInfo') = OnlineIn(m_MapServiceInfo)
  BY ReportChangesNobody
<1>4. TypeOK'
  <2>1. isOk' \in BOOLEAN
    BY <1>1
  <2> QED BY <1>1, <1>3, <2>1 DEF CoreInv, TypeOK
<1>5. HandlerInv' /\ GapInv'
  BY <1>1, <1>2 DEF CoreInv, HandlerInv, GapInv
<1>6. EnrolledInv' /\ GoneInv' /\ WatchInv'
  BY <1>1, <1>3 DEF CoreInv, EnrolledInv, GoneInv, WatchInv
<1> QED BY <1>2, <1>4, <1>5, <1>6 DEF CoreInv

\* reply(): the caller is told, if it is waiting for the answer to this message,
\* which is then the last one it has in the inbox.
LEMMA replyToCallerKeeps ==
  ASSUME CoreInv, replyToCaller
  PROVE  CoreInv'
<1> DEFINE c == uniqueBusName
<1>1. /\ pc = "reply" /\ inbox # <<>> /\ IsCall(Msg) /\ pc' = "idle" /\ isOk' = FALSE
      /\ inbox' = Tail(inbox)
      /\ UNCHANGED <<phase, m_MapServiceInfo, m_ServiceToBusName, lStrAffectedService, peer,
                     calls, unseen, enroller>>
  BY DEF replyToCaller, maps, CoreInv, HandlerInv
<1>2. /\ inbox' \in Seq(Messages)
      /\ Range(inbox') \subseteq Range(inbox)
      /\ \A msg \in Range(inbox') : \E i \in 2 .. Len(inbox) : inbox[i] = msg
  BY <1>1, Departure DEF CoreInv
<1>3. c \in Conns
  BY <1>1, HandledCall
<1>4. /\ call' \in [Conns -> CallStates]
      /\ \A d \in Conns : peer[d] # "up" => call'[d] = call[d]
      /\ \A d \in Conns : call'[d] = call[d] \/ (d = c /\ Awaited)
  <2>1. CASE Awaited
    <3> DEFINE state == [call[c] EXCEPT !.answer = IF isOk THEN "OK" ELSE "REFUSED"]
    <3>1. call[c] \in CallStates /\ call[c].answer = "none" /\ peer[c] = "up"
      BY <1>3, <2>1 DEF Awaited, Pending, CoreInv, TypeOK
    <3>2. state \in CallStates
      BY <3>1 DEF CallStates
    <3>3. call' = [call EXCEPT ![c] = state]
      BY <2>1 DEF replyToCaller
    <3> HIDE DEF state
    <3> QED BY <1>3, <2>1, <3>1, <3>2, <3>3 DEF CoreInv, TypeOK
  <2>2. CASE ~ Awaited
    BY <2>2 DEF replyToCaller, CoreInv, TypeOK
  <2> QED BY <2>1, <2>2
<1>5. TypeOK'
  BY <1>1, <1>2, <1>4 DEF CoreInv, TypeOK
<1>6. HandlerInv' /\ GapInv' /\ UnseenInv'
  BY <1>1 DEF CoreInv, HandlerInv, GapInv, UnseenInv
<1>7. InboxInv'
  BY <1>1, <1>2 DEF CoreInv, InboxInv, Sent, Announced
<1>8. EnrolledInv' /\ GoneInv' /\ WatchInv'
  BY <1>1 DEF CoreInv, EnrolledInv, GoneInv, WatchInv
<1>9. AnswerInv'
  <2> SUFFICES ASSUME NEW d \in Conns
               PROVE  /\ peer[d] # "up" => call'[d] = NoCall
                      /\ peer[d] = "up" /\ call'[d].answer \in {"OK", "REFUSED"}
                           => \A msg \in Range(inbox') : IsCall(msg) => msg.conn # d
    BY <1>1 DEF AnswerInv
  <2>1. CASE call'[d] = call[d]
    BY <1>2, <2>1 DEF CoreInv, AnswerInv
  <2>2. CASE d = c /\ Awaited
    <3>1. \A msg \in Range(inbox') : IsCall(msg) => msg.conn # c
      BY <1>2, <2>2 DEF Awaited, Superseded, IsCall
    <3> QED BY <1>4, <2>2, <3>1 DEF CoreInv, AnswerInv
  <2> QED BY <1>4, <2>1, <2>2
<1> QED BY <1>5, <1>6, <1>7, <1>8, <1>9 DEF CoreInv

\* The end of the handler of a signal.
LEMMA SignalDone ==
  ASSUME CoreInv, inbox # <<>>, inbox' = Tail(inbox), UNCHANGED <<peer, call, unseen>>
  PROVE  inbox' \in Seq(Messages) /\ InboxInv' /\ UnseenInv' /\ AnswerInv'
<1>1. inbox' \in Seq(Messages) /\ Range(inbox') \subseteq Range(inbox)
  BY Departure DEF CoreInv
<1>2. InboxInv'
  BY <1>1 DEF CoreInv, InboxInv, Sent, Announced
<1>3. UnseenInv' /\ AnswerInv'
  BY <1>1 DEF CoreInv, UnseenInv, AnswerInv
<1> QED BY <1>1, <1>2, <1>3

\* handleNameOwnerChanged: nothing to do.
LEMMA ignoreNameOwnerChangedKeeps ==
  ASSUME CoreInv, ignoreNameOwnerChanged
  PROVE  CoreInv'
<1>1. /\ pc = "idle" /\ inbox # <<>> /\ inbox' = Tail(inbox)
      /\ UNCHANGED <<phase, m_MapServiceInfo, m_ServiceToBusName, pc, isOk, lStrAffectedService,
                     peer, call, calls, unseen, enroller>>
  BY DEF ignoreNameOwnerChanged, Handling, maps, handler, peers
<1>2. inbox' \in Seq(Messages) /\ InboxInv' /\ UnseenInv' /\ AnswerInv'
  BY <1>1, SignalDone
<1>3. TypeOK' /\ HandlerInv' /\ GapInv'
  BY <1>1, <1>2 DEF CoreInv, TypeOK, HandlerInv, GapInv
<1>4. EnrolledInv' /\ GoneInv' /\ WatchInv'
  BY <1>1 DEF CoreInv, EnrolledInv, GoneInv, WatchInv
<1> QED BY <1>2, <1>3, <1>4 DEF CoreInv

\* handleNameOwnerChanged: the service that is picked, if it is online, is enrolled
\* over the very connection the signal is about.
LEMMA handleNameOwnerChangedKeeps ==
  ASSUME CoreInv, handleNameOwnerChanged
  PROVE  CoreInv'
<1>1. /\ pc = "idle" /\ inbox # <<>> /\ Msg.type = "NameOwnerChanged" /\ ~ IsCall(Msg)
      /\ ~ Msg.owned /\ pc' = "failure"
      /\ UNCHANGED <<phase, m_MapServiceInfo, inbox, isOk, peer, call, calls, unseen, enroller>>
  BY DEF handleNameOwnerChanged, Handling, Irrelevant, peers, IsCall
<1>2. PICK s \in Backed(Msg.name) :
        /\ lStrAffectedService' = s
        /\ m_ServiceToBusName' = Unwatch(m_ServiceToBusName, s)
  BY DEF handleNameOwnerChanged
<1>3. s \in DOMAIN m_ServiceToBusName /\ m_ServiceToBusName[s] = Msg.name /\ s \in Names
  BY ServiceAssumption DEF Backed, CoreInv, TypeOK
<1>4. InboxInv' /\ UnseenInv' /\ AnswerInv' /\ Msg' = Msg
  BY <1>1, WithinHandler
<1>5. /\ DOMAIN m_ServiceToBusName' = DOMAIN m_ServiceToBusName \ {s}
      /\ DOMAIN m_ServiceToBusName' \subseteq ServiceNames
      /\ m_ServiceToBusName' \in [DOMAIN m_ServiceToBusName' -> Conns]
      /\ \A x \in DOMAIN m_ServiceToBusName : x # s => m_ServiceToBusName'[x] = m_ServiceToBusName[x]
  BY <1>2, UnwatchKeeps DEF CoreInv
<1>6. TypeOK'
  BY <1>1, <1>2, <1>3, <1>5 DEF CoreInv, TypeOK
<1>7. HandlerInv' /\ GapInv'
  BY <1>1, <1>2, <1>4, <1>5 DEF HandlerInv, GapInv
<1>8. EnrolledInv' /\ GoneInv'
  BY <1>1 DEF CoreInv, EnrolledInv, GoneInv
<1>9. WatchInv'
  BY <1>1, <1>2, <1>3, <1>4, <1>5 DEF CoreInv, WatchInv
<1> QED BY <1>4, <1>6, <1>7, <1>8, <1>9 DEF CoreInv

\* handleNameOwnerChanged: the service goes offline; its enroller is gone.
LEMMA failureCallbackKeeps ==
  ASSUME CoreInv, failureCallback
  PROVE  CoreInv'
<1> DEFINE s == lStrAffectedService
<1>1. /\ pc = "failure" /\ inbox # <<>> /\ ~ IsCall(Msg) /\ ~ Msg.owned
      /\ m_MapServiceInfo' \in AfterFailure(m_MapServiceInfo, s)
      /\ inbox' = Tail(inbox) /\ pc' = "idle" /\ lStrAffectedService' = ""
      /\ UNCHANGED <<phase, m_ServiceToBusName, isOk, peer, call, calls, unseen, enroller>>
  BY DEF failureCallback, peers, CoreInv, HandlerInv, IsCall
<1>2. inbox' \in Seq(Messages) /\ InboxInv' /\ UnseenInv' /\ AnswerInv'
  BY <1>1, SignalDone
<1>3. peer[Msg.name] = "gone"
  BY <1>1, HandledSignal
<1>4. /\ IsRegistry(m_MapServiceInfo')
      /\ DOMAIN m_MapServiceInfo' = DOMAIN m_MapServiceInfo
      /\ OnlineIn(m_MapServiceInfo') = OnlineIn(m_MapServiceInfo) \ {s}
  BY <1>1, AfterFailureKeeps DEF CoreInv, TypeOK
<1>5. TypeOK'
  BY <1>1, <1>2, <1>4 DEF CoreInv, TypeOK
<1>6. HandlerInv' /\ GapInv'
  BY <1>1 DEF HandlerInv, GapInv
<1>7. EnrolledInv'
  BY <1>1, <1>4 DEF CoreInv, EnrolledInv
<1>8. WatchInv'
  BY <1>1, <1>4 DEF CoreInv, WatchInv
<1>9. GoneInv'
  <2>1. s \in OnlineIn(m_MapServiceInfo) => peer[enroller[s]] = "gone"
    BY <1>1, <1>3 DEF CoreInv, WatchInv, GapInv
  <2> QED BY <1>1, <1>4, <2>1 DEF CoreInv, GoneInv
<1> QED BY <1>2, <1>5, <1>6, <1>7, <1>8, <1>9 DEF CoreInv

\* The steps of the dispatch thread.
LEMMA DispatchKeeps ==
  ASSUME CoreInv, Dispatch
  PROVE  CoreInv'
  BY queryUnixPidKeeps, registerCallbackKeeps, watchPeerKeeps, unregisterServiceKeeps,
     unwatchPeerKeeps, reportServiceStateKeeps, replyToCallerKeeps, ignoreNameOwnerChangedKeeps,
     handleNameOwnerChangedKeeps, failureCallbackKeeps DEF Dispatch, registerService

\* Nothing has happened yet.
LEMMA CoreStart == Init => CoreInv
<1> SUFFICES ASSUME Init PROVE CoreInv
  OBVIOUS
<1>1. /\ m_MapServiceInfo = <<>> /\ m_ServiceToBusName = <<>> /\ inbox = <<>>
      /\ IsRegistry(m_MapServiceInfo) /\ OnlineIn(m_MapServiceInfo) = {}
      /\ DOMAIN m_MapServiceInfo = {} /\ DOMAIN m_ServiceToBusName = {} /\ Range(inbox) = {}
  <2>1. m_MapServiceInfo = <<>> /\ m_ServiceToBusName = <<>> /\ inbox = <<>>
    BY DEF Init
  <2>2. DOMAIN m_MapServiceInfo = {} /\ DOMAIN m_ServiceToBusName = {} /\ DOMAIN inbox = {}
    BY <2>1
  <2>3. IsRegistry(m_MapServiceInfo) /\ OnlineIn(m_MapServiceInfo) = {}
    BY <2>1, EmptyRegistry
  <2> QED BY <2>1, <2>2, <2>3 DEF Range
<1>2. /\ \A c \in Conns : peer[c] = "absent" /\ call[c] = NoCall
      /\ \A s \in Names : enroller[s] = NoConn
      /\ pc = "idle" /\ unseen = {}
  BY DEF Init
<1>3. TypeOK
  <2>1. call \in [Conns -> CallStates]
    BY DEF Init, NoCall, CallStates
  <2>2. inbox \in Seq(Messages) /\ m_ServiceToBusName \in [DOMAIN m_ServiceToBusName -> Conns]
    BY <1>1
  <2>3. calls \in 0 .. MaxCalls
    <3>1. calls = 0 /\ MaxCalls \in Nat
      BY ServiceAssumption DEF Init
    <3> QED BY <3>1
  <2> QED BY <1>1, <2>1, <2>2, <2>3 DEF Init, TypeOK
<1>4. HandlerInv /\ GapInv /\ InboxInv /\ WatchInv /\ GoneInv /\ UnseenInv
  BY <1>1, <1>2 DEF HandlerInv, GapInv, InboxInv, WatchInv, GoneInv, UnseenInv
<1>5. EnrolledInv
  BY <1>1, <1>2, ServiceAssumption DEF EnrolledInv
<1>6. AnswerInv
  BY <1>1, <1>2 DEF AnswerInv
<1> QED BY <1>3, <1>4, <1>5, <1>6 DEF CoreInv

\* A stuttering step.
LEMMA CoreStutters == CoreInv /\ UNCHANGED vars => CoreInv'
  BY DEF vars, CoreInv, TypeOK, HandlerInv, InboxInv, Sent, Announced, EnrolledInv, WatchInv,
         GapInv, GoneInv, UnseenInv, AnswerInv, Msg, serviceName, uniqueBusName

\* The inductive invariant.
LEMMA CoreInvariant == Spec => []CoreInv
<1>1. CoreInv /\ [Next]_vars => CoreInv'
  BY CoreStutters, MainKeeps, PeersKeep, DispatchKeeps DEF Next
<1> QED BY <1>1, CoreStart, PTL DEF Spec

-----------------------------------------------------------------------------
(* What follows from it.                                                   *)

\* Every variable keeps its type, whatever the peers send and when they leave: in
\* particular only services of the catalogue are watched.
THEOREM TypeCorrect == Spec => []TypeOK
<1>1. CoreInv => TypeOK
  BY DEF CoreInv
<1> QED BY <1>1, CoreInvariant, PTL

\* A late signal does not count as a crash.
LEMMA CoreOffline == CoreInv => OfflineMeansGone
  BY DEF CoreInv, GoneInv, OfflineMeansGone, Online, OnlineIn

\* No late signal about an earlier connection of a service counts as a crash of
\* the new one: a service is offline only when the peer that registered it last
\* has gone, for any number of peers, re-registrations and signals in flight.
THEOREM OfflineOnlyWhenGone == Spec => []OfflineMeansGone
  BY CoreOffline, CoreInvariant, PTL

\* Whoever was told OK and has not been replaced is watched: the mapping precedes
\* the reply, and no late reply is taken for the answer to a later call.
LEMMA CoreAcknowledged == CoreInv => AcknowledgedIsWatched
<1> SUFFICES ASSUME CoreInv, NEW c \in Conns,
                    peer[c] = "up", call[c].op = "register", call[c].answer = "OK",
                    enroller[call[c].service] = c
             PROVE  /\ call[c].service \in DOMAIN m_ServiceToBusName
                    /\ m_ServiceToBusName[call[c].service] = c
  BY DEF AcknowledgedIsWatched
<1> DEFINE s == call[c].service
<1>1. s \in Names
  <2>1. call[c] \in CallStates
    BY DEF CoreInv, TypeOK
  <2> QED BY <2>1 DEF CallStates
<1>2. s \in OnlineIn(m_MapServiceInfo)
  BY <1>1 DEF CoreInv, EnrolledInv, GoneInv
<1>3. ~ (pc = "watch" /\ uniqueBusName = c)
  <2> SUFFICES ASSUME pc = "watch", uniqueBusName = c PROVE FALSE
    OBVIOUS
  <2>1. inbox # <<>> /\ IsCall(Msg)
    BY DEF CoreInv, HandlerInv, IsCall
  <2>2. Msg \in Range(inbox)
    BY <2>1, HeadMessage DEF CoreInv
  <2> QED BY <2>1, <2>2 DEF CoreInv, AnswerInv, uniqueBusName
<1>4. ~ (pc = "failure" /\ Msg.name = c)
  <2> SUFFICES ASSUME pc = "failure", Msg.name = c PROVE FALSE
    OBVIOUS
  <2>1. inbox # <<>> /\ ~ IsCall(Msg) /\ ~ Msg.owned
    BY DEF CoreInv, HandlerInv, IsCall
  <2> QED BY <2>1, HandledSignal
<1> QED BY <1>2, <1>3, <1>4 DEF CoreInv, WatchInv

\* Whoever was told OK and has not been replaced is watched for as long as it lives,
\* for any number of peers and calls in flight.
THEOREM AcknowledgedStaysWatched == Spec => []AcknowledgedIsWatched
  BY CoreAcknowledged, CoreInvariant, PTL

-----------------------------------------------------------------------------
(* The two maps.                                                           *)

\* Steps that change neither map nor where the handler is.
LEMMA ExactFrame ==
  ASSUME CoreInv, ExactInv,
         UNCHANGED <<m_MapServiceInfo, m_ServiceToBusName, pc, lStrAffectedService>>,
         pc # "idle" => Msg' = Msg
  PROVE  ExactInv'
  BY DEF ExactInv, Settled, serviceName

\* Every step keeps the two maps in step.
LEMMA ExactStep ==
  ASSUME CoreInv, ExactInv, [Next]_vars
  PROVE  ExactInv'
<1> USE DEF Settled
<1>1. CASE UNCHANGED vars
  BY <1>1, ExactFrame DEF vars, Msg
<1>2. CASE Main
  <2>1. UNCHANGED <<m_MapServiceInfo, m_ServiceToBusName, pc, lStrAffectedService, inbox>>
    BY <1>2 DEF Main, setCallbacks, runFails, publish, runUnsubscribed, subscribe, Startup,
                maps, handler
  <2> QED BY <2>1, ExactFrame DEF Msg
<1>3. CASE Peers
  <2>1. UNCHANGED <<m_MapServiceInfo, m_ServiceToBusName, pc, lStrAffectedService>>
    BY <1>3 DEF Peers, Connect, Leave, GiveUp, AnyCall, Send, maps, handler
  <2>2. inbox' = inbox \/ \E e \in Messages : inbox' = Append(inbox, e)
    BY <1>3, PeersArrival
  <2>3. inbox # <<>> => Msg' = Msg
    BY <2>2, Arrival DEF CoreInv, Msg
  <2>4. pc # "idle" => Msg' = Msg
    BY <2>3 DEF CoreInv, HandlerInv
  <2> QED BY <2>1, <2>4, ExactFrame
<1>4. CASE queryUnixPidForBusName
  BY <1>4 DEF queryUnixPidForBusName, Handling, maps, ExactInv
<1>5. CASE registerCallback
  <2>1. pc = "callback" /\ inbox # <<>> /\ Msg.type = "register" /\ IsCall(Msg)
    BY <1>5 DEF registerCallback, CoreInv, HandlerInv, IsCall
  <2>2. Msg.args.actions \in Seq(RecoveryState)
    BY <2>1, HandledCall
  <2>3. /\ Accepts(m_MapServiceInfo, serviceName) =>
             OnlineIn(m_MapServiceInfo') = OnlineIn(m_MapServiceInfo) \cup {serviceName}
        /\ ~ Accepts(m_MapServiceInfo, serviceName) => m_MapServiceInfo' = m_MapServiceInfo
    BY <1>5, <2>2, RegisteredKeeps DEF registerCallback, CoreInv, TypeOK
  <2>4. /\ pc' = IF Accepts(m_MapServiceInfo, serviceName) THEN "watch" ELSE "reply"
        /\ UNCHANGED <<m_ServiceToBusName, inbox>>
    BY <1>5 DEF registerCallback, AfterRegister
  <2>5. serviceName' = serviceName
    BY <2>4 DEF serviceName, Msg
  <2> QED BY <2>1, <2>3, <2>4, <2>5 DEF ExactInv
<1>6. CASE watchPeer
  <2>1. /\ pc = "watch" /\ pc' = "reply" /\ UNCHANGED m_MapServiceInfo
        /\ DOMAIN m_ServiceToBusName' = DOMAIN m_ServiceToBusName \cup {serviceName}
    BY <1>6 DEF watchPeer, Watch
  <2> QED BY <2>1 DEF ExactInv
<1>7. CASE unregisterService
  <2>1. /\ pc = "idle" /\ UNCHANGED <<m_ServiceToBusName, inbox>>
        /\ m_MapServiceInfo' = Erase(m_MapServiceInfo, serviceName)
        /\ pc' = IF serviceName \in DOMAIN m_MapServiceInfo THEN "unwatch" ELSE "reply"
    BY <1>7 DEF unregisterService, Handling
  <2>2. OnlineIn(m_MapServiceInfo') = OnlineIn(m_MapServiceInfo) \ {serviceName}
    BY <2>1, EraseKeeps DEF CoreInv, TypeOK
  <2>3. serviceName \notin DOMAIN m_MapServiceInfo => serviceName \notin OnlineIn(m_MapServiceInfo)
    BY DEF OnlineIn
  <2>4. serviceName' = serviceName
    BY <2>1 DEF serviceName, Msg
  <2> QED BY <2>1, <2>2, <2>3, <2>4 DEF ExactInv
<1>8. CASE unwatchPeer
  <2>1. /\ pc = "unwatch" /\ pc' = "reply" /\ UNCHANGED m_MapServiceInfo
        /\ m_ServiceToBusName' = Unwatch(m_ServiceToBusName, serviceName)
    BY <1>8 DEF unwatchPeer
  <2>2. DOMAIN m_ServiceToBusName' = DOMAIN m_ServiceToBusName \ {serviceName}
    BY <2>1, UnwatchKeeps DEF CoreInv
  <2> QED BY <2>1, <2>2 DEF ExactInv
<1>9. CASE reportServiceState
  <2>1. /\ pc = "idle" /\ pc' = "reply" /\ inbox # <<>> /\ Msg.type = "report" /\ IsCall(Msg)
        /\ UNCHANGED m_ServiceToBusName
    BY <1>9 DEF reportServiceState, Handling, IsCall
  <2>2. OnlineIn(m_MapServiceInfo') = OnlineIn(m_MapServiceInfo)
    BY <1>9, ReportChangesNobody
  <2> QED BY <2>1, <2>2 DEF ExactInv
<1>10. CASE replyToCaller
  BY <1>10 DEF replyToCaller, maps, ExactInv
<1>11. CASE ignoreNameOwnerChanged
  BY <1>11 DEF ignoreNameOwnerChanged, Handling, maps, handler, ExactInv
<1>12. CASE handleNameOwnerChanged
  <2>1. PICK s \in Backed(Msg.name) :
          lStrAffectedService' = s /\ m_ServiceToBusName' = Unwatch(m_ServiceToBusName, s)
    BY <1>12 DEF handleNameOwnerChanged
  <2>2. DOMAIN m_ServiceToBusName' = DOMAIN m_ServiceToBusName \ {s} /\ s \in DOMAIN m_ServiceToBusName
    BY <2>1, UnwatchKeeps DEF CoreInv, Backed
  <2>3. pc = "idle" /\ pc' = "failure" /\ UNCHANGED m_MapServiceInfo
    BY <1>12 DEF handleNameOwnerChanged, Handling
  <2> QED BY <2>1, <2>2, <2>3 DEF ExactInv
<1>13. CASE failureCallback
  <2>1. /\ pc = "failure" /\ pc' = "idle" /\ UNCHANGED m_ServiceToBusName
        /\ m_MapServiceInfo' \in AfterFailure(m_MapServiceInfo, lStrAffectedService)
    BY <1>13 DEF failureCallback
  <2>2. OnlineIn(m_MapServiceInfo') = OnlineIn(m_MapServiceInfo) \ {lStrAffectedService}
    BY <2>1, AfterFailureKeeps DEF CoreInv, TypeOK
  <2>3. lStrAffectedService \notin DOMAIN m_ServiceToBusName
    BY <2>1 DEF CoreInv, GapInv
  <2> QED BY <2>1, <2>2, <2>3 DEF ExactInv
<1> QED BY <1>1, <1>2, <1>3, <1>4, <1>5, <1>6, <1>7, <1>8, <1>9, <1>10, <1>11, <1>12, <1>13
        DEF Next, Dispatch, registerService

\* The exact agreement is an invariant.
LEMMA ExactInvariant == Spec => []ExactInv
<1>1. Init => ExactInv
  <2> SUFFICES ASSUME Init PROVE ExactInv
    OBVIOUS
  <2>1. m_MapServiceInfo = <<>> /\ m_ServiceToBusName = <<>> /\ pc = "idle"
    BY DEF Init
  <2>2. DOMAIN m_ServiceToBusName = {}
    BY <2>1
  <2>3. OnlineIn(m_MapServiceInfo) = {}
    BY <2>1, EmptyRegistry
  <2> QED BY <2>1, <2>2, <2>3 DEF ExactInv, Settled
<1>2. CoreInv /\ ExactInv /\ [Next]_vars => ExactInv'
  BY ExactStep
<1> QED BY <1>1, <1>2, CoreInvariant, PTL DEF Spec

\* The registry and the watch map, under two locks taken one after the other, agree
\* whenever no handler is between them: exactly the online services are watched,
\* each through its last enroller, however the peers' steps fall in between.
THEOREM OnlineStaysWatched == Spec => []OnlineIsWatched
<1>1. CoreInv /\ ExactInv => OnlineIsWatched
  <2> SUFFICES ASSUME CoreInv, ExactInv, Settled
               PROVE  /\ DOMAIN m_ServiceToBusName = {s \in Names : Online(s)}
                      /\ \A s \in DOMAIN m_ServiceToBusName : m_ServiceToBusName[s] = enroller[s]
    BY DEF OnlineIsWatched
  <2>1. DOMAIN m_ServiceToBusName = OnlineIn(m_MapServiceInfo)
    BY DEF ExactInv
  <2>2. OnlineIn(m_MapServiceInfo) = {s \in Names : Online(s)}
    BY ServiceAssumption DEF OnlineIn, Online, CoreInv, TypeOK, IsRegistry
  <2>3. \A s \in OnlineIn(m_MapServiceInfo) : m_ServiceToBusName[s] = enroller[s]
    BY DEF CoreInv, WatchInv, Settled
  <2> QED BY <2>1, <2>2, <2>3
<1> QED BY <1>1, CoreInvariant, ExactInvariant, PTL
=============================================================================
