------------------------- MODULE MCRecoveryScheduler -------------------------
(* Values of the constants of RecoveryScheduler for TLC.                   *)
EXTENDS RecoveryScheduler

Repeat(action, n) == [i \in 1 .. n |-> action]

\* The default policy (asked for by the empty list) and one that wraps sooner.
SmallPolicies == {<<>>, <<"STOP", "DISABLE">>}

\* One list that does not end as the first one registered does.
ClashingPolicies == {<<"RESTART">>, <<"STOP", "DISABLE">>}

\* These, and the longest lists an int8_t cursor can walk.
WalkablePolicies ==
  SmallPolicies \cup {Repeat("STOP", n) \o <<"DISABLE">> : n \in {125, 126}}

\* Two actions longer than that.
TooLongPolicies == {Repeat("STOP", 128) \o <<"DISABLE">>}
=============================================================================
