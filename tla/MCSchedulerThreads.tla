------------------------- MODULE MCSchedulerThreads --------------------------
(* Values of the constants of SchedulerThreads for TLC.                    *)
EXTENDS SchedulerThreads

ShortPolicy == {<<"STOP", "DISABLE">>}
=============================================================================
