------------------------------ MODULE MCDaemon -------------------------------
(* Values of the constants of Daemon for TLC.                              *)
EXTENDS Daemon

\* AppA on c1, then again on c2.
AppATwice == [c \in {"c1", "c2"} |-> {"AppA"}]

AppAOnce == [c \in {"c1"} |-> {"AppA"}]

OnePolicy == {<<"RESTART", "STOP">>}
=============================================================================
