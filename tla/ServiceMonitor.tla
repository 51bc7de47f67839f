--------------------------- MODULE ServiceMonitor ----------------------------
(***************************************************************************)
(* What monitoring promises, without stub, queue, locks or start-up: the   *)
(* view the daemon has of every service of the catalogue, against the      *)
(* peers that are really there.  RecoveryService implements it.            *)
(***************************************************************************)
CONSTANTS
  Conns,         \* connections of peers, each used once
  ServiceNames   \* the catalogue

VARIABLES
  peer,          \* connection -> "absent", "up" or "gone"
  announced,     \* the lost connections the daemon was or will be told of
  view           \* service -> Untracked, or its state and the connection behind it

vars == <<peer, announced, view>>

Untracked == [state |-> "untracked"]
Online(c) == [state |-> "online", conn |-> c]
Offline(c) == [state |-> "offline", conn |-> c]

Init ==
  /\ peer = [c \in Conns |-> "absent"]
  /\ announced = {}
  /\ view = [s \in ServiceNames |-> Untracked]

Connect(c) ==
  /\ peer[c] = "absent"
  /\ peer' = [peer EXCEPT ![c] = "up"]
  /\ UNCHANGED <<announced, view>>

\* The daemon may or may not be listening when a connection is lost.
Lose(c) ==
  /\ peer[c] = "up"
  /\ peer' = [peer EXCEPT ![c] = "gone"]
  /\ announced' \in {announced, announced \cup {c}}
  /\ UNCHANGED view

See(s, v) ==
  /\ view' = [view EXCEPT ![s] = v]
  /\ UNCHANGED <<peer, announced>>

\* A peer's registration takes effect, maybe after the peer has left.
Enrol(s, c) == peer[c] # "absent" /\ See(s, Online(c))

\* Any peer may withdraw any service.
Withdraw(s) == See(s, Untracked)

\* A service goes offline only because the very connection it was last enrolled
\* over is gone and the bus said so.
NoteLoss(s) == \E c \in announced : view[s] = Online(c) /\ See(s, Offline(c))

\* The daemon's process ends: everything it knew is lost at once.
Forget ==
  /\ view' = [s \in ServiceNames |-> Untracked]
  /\ UNCHANGED <<peer, announced>>

Next ==
  \/ \E c \in Conns : Connect(c) \/ Lose(c)
  \/ \E s \in ServiceNames : Withdraw(s) \/ NoteLoss(s) \/ \E c \in Conns : Enrol(s, c)
  \/ Forget

Spec == Init /\ [][Next]_vars

\* No announced loss is slept through: the service goes offline, is withdrawn,
\* or is enrolled over another connection.
EveryLossIsNoted ==
  \A s \in ServiceNames, c \in Conns :
    (view[s] = Online(c) /\ c \in announced) ~> (view[s] # Online(c))
=============================================================================
