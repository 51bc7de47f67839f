-------------------------- MODULE MCRecoveryService --------------------------
(* Values of the constants of RecoveryService for TLC.                     *)
EXTENDS RecoveryService

\* AppA on c1, then again on c2; AppB, or a name outside the catalogue, on c3.
OnePerPeer == [c \in {"c1", "c2", "c3"} |->
                 IF c = "c3" THEN {"AppB", "NotInMap"} ELSE {"AppA"}]

\* One process that registers two services over its only connection.
TwoPerPeer == [c \in {"c1"} |-> {"AppA", "AppB"}]

OnePeer == [c \in {"c1"} |-> {"AppA"}]

OnePolicy == {<<"RESTART", "STOP">>}
=============================================================================
