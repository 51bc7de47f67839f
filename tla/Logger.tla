------------------------------- MODULE Logger --------------------------------
(***************************************************************************)
(* Logger: one line on stdout per LOG_* statement, from any thread.  A     *)
(* record is stamped and formatted first; the pieces of its line are then  *)
(* inserted into std::cout one after the other under sMutex.  The module   *)
(* is composed with the threads that log: SchedulerThreads calls Log from  *)
(* its own steps, most of the time while it holds the registry's lock.     *)
(*                                                                         *)
(* What a line says is left out; what is kept is who has written a piece   *)
(* since the last newline.                                                 *)
(***************************************************************************)
EXTENDS Naturals, Sequences

CONSTANTS
  Callers,     \* the threads that log
  Threshold    \* the level Logger::threshold() holds: TRACE in the program

LogLevel == [TRACE |-> 0, DEBUG |-> 1, INFO |-> 2, WARN |-> 3, ERROR |-> 4, FATAL |-> 5]

NoCaller == "none"

ASSUME LoggerAssumption ==
  /\ Threshold \in DOMAIN LogLevel
  /\ NoCaller \notin Callers

VARIABLES
  sMutex,      \* the thread that holds the lock of write(), or NoCaller
  record,      \* thread -> how far its record is
  line         \* the writers of the pieces since the last newline

LoggerInit ==
  /\ sMutex = NoCaller
  /\ record = [t \in Callers |-> "none"]
  /\ line = <<>>

\* SRS_LOG_, at most one level: a record below the threshold is dropped
\* unformatted.
Log(t, levels) ==
  record' = [record EXCEPT ![t] =
    IF \E lvl \in levels : LogLevel[lvl] >= LogLevel[Threshold] THEN "formatted" ELSE "none"]

\* No LOG_* statement of t is under way.
Quiet(t) == record[t] = "none"

SinkFreeMutant == TRUE
SinkFree == sMutex = NoCaller

\* write() has the time and the thread id and gets the lock.
LockSink(t) ==
  /\ record[t] = "formatted"
  /\ SinkFree
  /\ sMutex' = t
  /\ record' = [record EXCEPT ![t] = "locked"]
  /\ UNCHANGED line

\* write(): the first of the pieces.
WriteHead(t) ==
  /\ record[t] = "locked"
  /\ line' = Append(line, t)
  /\ record' = [record EXCEPT ![t] = "writing"]
  /\ UNCHANGED sMutex

\* write(): the message and the newline; the flush, and the lock is released.
WriteRest(t) ==
  /\ record[t] = "writing"
  /\ line' = <<>>
  /\ record' = [record EXCEPT ![t] = "none"]
  /\ sMutex' = NoCaller

Write(t) == LockSink(t) \/ WriteHead(t) \/ WriteRest(t)

\* "Emit a single formatted log line": the pieces since the last newline all
\* come from one thread.
LinesAreWhole == \A i, j \in DOMAIN line : line[i] = line[j]
=============================================================================
