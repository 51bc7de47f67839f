-------------------------- MODULE ServiceInfoProofs --------------------------
(***************************************************************************)
(* What the operators of ServiceInfo do to a registry: that they leave     *)
(* one, and which services it holds and shows online afterwards.  The      *)
(* proofs about the state machines rest on these lemmas and do not look    *)
(* into the entries.                                                       *)
(***************************************************************************)
EXTENDS ServiceInfo, TLAPS

\* The services a registry shows online.
OnlineIn(map) == {s \in DOMAIN map : map[s].isOnline}

-----------------------------------------------------------------------------
(* One entry.                                                              *)

\* A new entry is complete.
LEMMA FreshInfo ==
  ASSUME NEW actions \in Seq(RecoveryState)
  PROVE  Fresh(actions) \in Info
<1>1. DefaultActions \in Seq(RecoveryState)
  BY DEF DefaultActions, RecoveryState
<1> QED BY <1>1 DEF Fresh, Info, RecoveryState

\* The result of a narrowing conversion is a number.
LEMMA Int8Type == ASSUME NEW n \in Int PROVE Int8(n) \in Int
  BY Int8Assumption DEF Int8

\* A failure leaves a complete entry, even when the cursor has left the policy.
LEMMA FailedInfo ==
  ASSUME NEW info \in Info, NEW new \in Failed(info)
  PROVE  new \in Info
<1> DEFINE cursor == AdvanceCursor(info.recoveryActionCount, Len(info.recoveryActions))
<1>1. info.recoveryActions \in Seq(RecoveryState) /\ info.recoveryActionCount \in Int
  BY DEF Info
<1>2. cursor \in Int
  BY <1>1, Int8Type DEF AdvanceCursor
<1>3. ActionAt(info.recoveryActions, cursor) \subseteq RecoveryState
  BY <1>1, <1>2 DEF ActionAt
<1>4. PICK action \in ActionAt(info.recoveryActions, cursor) :
        new = [recoveryActions      |-> info.recoveryActions,
               recoveryActionCount  |-> cursor,
               crashCount           |-> info.crashCount + 1,
               isOnline             |-> FALSE,
               currentRecoveryState |-> action,
               lastAction           |-> "CRASHED"]
  BY DEF Failed
<1>5. /\ action \in RecoveryState
      /\ "CRASHED" \in RecoveryState
      /\ info.crashCount + 1 \in Nat
  BY <1>3 DEF Info, RecoveryState
<1> QED BY <1>1, <1>2, <1>4, <1>5 DEF Info

\* A push leaves a complete entry, online or not as before.
LEMMA ReportedInfo ==
  ASSUME NEW info \in Info, NEW current \in RecoveryState, NEW last \in RecoveryState
  PROVE  /\ Reported(info, current, last) \in Info
         /\ Reported(info, current, last).isOnline = info.isOnline
  BY DEF Reported, Info

-----------------------------------------------------------------------------
(* The registry.                                                           *)

\* A registration that is accepted leaves the service tracked and online, one
\* that is refused leaves everything alone.
LEMMA RegisteredKeeps ==
  ASSUME NEW map, IsRegistry(map), NEW s, NEW actions \in Seq(RecoveryState)
  PROVE  /\ IsRegistry(Registered(map, s, actions))
         /\ Accepts(map, s) => /\ s \in ServiceNames
                               /\ DOMAIN Registered(map, s, actions) = DOMAIN map \cup {s}
                               /\ OnlineIn(Registered(map, s, actions)) = OnlineIn(map) \cup {s}
         /\ ~ Accepts(map, s) => Registered(map, s, actions) = map
<1> USE DEF IsRegistry, Accepts, OnlineIn
<1>1. CASE s \in DOMAIN map
  <2> DEFINE new == [map EXCEPT ![s].isOnline = TRUE]
  <2>1. Registered(map, s, actions) = new
    BY <1>1 DEF Registered
  <2>2. DOMAIN new = DOMAIN map /\ new[s] = [map[s] EXCEPT !.isOnline = TRUE]
    BY <1>1
  <2>3. \A x \in DOMAIN map : x # s => new[x] = map[x]
    BY <1>1
  <2>4. map[s] \in Info
    BY <1>1
  <2>5. new[s] \in Info /\ new[s].isOnline = TRUE
    BY <2>2, <2>4 DEF Info
  <2>6. IsRegistry(new)
    BY <2>2, <2>3, <2>5
  <2>7. OnlineIn(new) = OnlineIn(map) \cup {s}
    BY <1>1, <2>2, <2>3, <2>5
  <2> HIDE DEF new
  <2> QED BY <1>1, <2>1, <2>2, <2>6, <2>7
<1>2. CASE s \in ServiceNames \ DOMAIN map
  <2> DEFINE new == Emplace(map, s, Fresh(actions))
  <2>1. Registered(map, s, actions) = new
    BY <1>2 DEF Registered
  <2>2. /\ new = [x \in DOMAIN map \cup {s} |-> IF x \in DOMAIN map THEN map[x] ELSE Fresh(actions)]
        /\ DOMAIN new = DOMAIN map \cup {s}
        /\ new[s] = Fresh(actions)
        /\ \A x \in DOMAIN map : new[x] = map[x]
    BY <1>2 DEF Emplace
  <2>3. Fresh(actions) \in Info /\ Fresh(actions).isOnline = TRUE
    BY FreshInfo DEF Fresh
  <2> HIDE DEF new
  <2>4. IsRegistry(new)
    BY <1>2, <2>2, <2>3
  <2>5. OnlineIn(new) = OnlineIn(map) \cup {s}
    BY <1>2, <2>2, <2>3
  <2> QED BY <1>2, <2>1, <2>2, <2>4, <2>5
<1>3. CASE s \notin DOMAIN map /\ s \notin ServiceNames
  BY <1>3 DEF Registered
<1> QED BY <1>1, <1>2, <1>3

\* Erasing takes one entry away.
LEMMA EraseKeeps ==
  ASSUME NEW map, IsRegistry(map), NEW s
  PROVE  /\ IsRegistry(Erase(map, s))
         /\ DOMAIN Erase(map, s) = DOMAIN map \ {s}
         /\ OnlineIn(Erase(map, s)) = OnlineIn(map) \ {s}
  BY DEF IsRegistry, Erase, Restrict, OnlineIn

\* A failure takes its service offline and forgets nobody.
LEMMA AfterFailureKeeps ==
  ASSUME NEW map, IsRegistry(map), NEW s, NEW new \in AfterFailure(map, s)
  PROVE  /\ IsRegistry(new)
         /\ DOMAIN new = DOMAIN map
         /\ OnlineIn(new) = OnlineIn(map) \ {s}
<1> USE DEF IsRegistry, OnlineIn
<1>1. CASE s \in DOMAIN map
  <2>1. PICK info \in Failed(map[s]) : new = [map EXCEPT ![s] = info]
    BY <1>1 DEF AfterFailure
  <2>2. map[s] \in Info
    BY <1>1
  <2>3. info \in Info
    BY <2>2, FailedInfo
  <2>4. info.isOnline = FALSE
    BY DEF Failed
  <2> QED BY <1>1, <2>1, <2>3, <2>4
<1>2. CASE s \notin DOMAIN map
  BY <1>2 DEF AfterFailure
<1> QED BY <1>1, <1>2

\* A push changes neither who is tracked nor who is online.
LEMMA AfterReportKeeps ==
  ASSUME NEW map, IsRegistry(map), NEW s,
         NEW current \in RecoveryState, NEW last \in RecoveryState
  PROVE  /\ IsRegistry(AfterReport(map, s, current, last))
         /\ DOMAIN AfterReport(map, s, current, last) = DOMAIN map
         /\ OnlineIn(AfterReport(map, s, current, last)) = OnlineIn(map)
<1> USE DEF IsRegistry, OnlineIn
<1>1. CASE s \in DOMAIN map
  <2> DEFINE new == [map EXCEPT ![s] = Reported(map[s], current, last)]
  <2>1. AfterReport(map, s, current, last) = new
    BY <1>1 DEF AfterReport
  <2>2. map[s] \in Info
    BY <1>1
  <2>3. /\ Reported(map[s], current, last) \in Info
        /\ Reported(map[s], current, last).isOnline = map[s].isOnline
    BY <2>2, ReportedInfo
  <2>4. /\ DOMAIN new = DOMAIN map
        /\ new[s] = Reported(map[s], current, last)
        /\ \A x \in DOMAIN map : x # s => new[x] = map[x]
    BY <1>1
  <2>5. IsRegistry(new)
    BY <2>3, <2>4
  <2>6. OnlineIn(new) = OnlineIn(map)
    BY <1>1, <2>3, <2>4
  <2> HIDE DEF new
  <2> QED BY <2>1, <2>4, <2>5, <2>6
<1>2. CASE s \notin DOMAIN map
  BY <1>2 DEF AfterReport
<1> QED BY <1>1, <1>2

\* A daemon starts with an empty registry.
LEMMA EmptyRegistry == IsRegistry(<<>>) /\ OnlineIn(<<>>) = {}
  BY DEF IsRegistry, OnlineIn

\* The empty map and the empty queue.
LEMMA EmptyMap ==
  ASSUME NEW S
  PROVE  DOMAIN <<>> = {} /\ <<>> \in [DOMAIN <<>> -> S] /\ <<>> \in Seq(S)
  OBVIOUS
=============================================================================
