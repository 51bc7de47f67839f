------------------------------- MODULE Daemon --------------------------------
(***************************************************************************)
(* The system as it is deployed: the process around RecoveryService, from  *)
(* main() to its end, the supervisor that starts it again, and the sample  *)
(* applications beside other peers.                                        *)
(*                                                                         *)
(* A process holds both maps and the queue in memory only: when it ends    *)
(* they are gone, and the bus answers the pending calls with an error.     *)
(* systemd runs it headless under Restart=on-failure; the container's      *)
(* entry point may run it with the console and does not restart it.        *)
(***************************************************************************)
EXTENDS RecoveryService

CONSTANTS
  Samples,     \* the connections of sample applications; other peers call as they like
  Modes,       \* how the process may be started: "headless", "console"
  MaxStarts    \* bound: starts of the process

ASSUME DaemonAssumption ==
  /\ Samples \subseteq Conns
  /\ Modes \subseteq {"headless", "console"}
  /\ MaxStarts \in Nat

VARIABLES
  mode,        \* how it was started
  process,     \* "running"; "exiting": main() has returned; "dead"
  exitStatus,  \* of the last process that ended: "none", "0" or "signal"
  asked,       \* history: the operator asked the service to stop
  starts,      \* starts of the process so far
  accepted     \* history: service -> connections whose registration was accepted since
               \* the service was last withdrawn or the registry lost

life == <<mode, process, exitStatus, asked, starts>>
daemonVars == <<vars, life, accepted>>

DaemonInit ==
  /\ Init
  /\ mode \in Modes
  /\ process = "running" /\ exitStatus = "none" /\ asked = FALSE
  /\ starts = 1
  /\ accepted = [s \in Names |-> {}]

\* enroller says who was accepted in this step, and whose services were forgotten.
Remember ==
  accepted' = [s \in Names |-> IF enroller'[s] = NoConn THEN {}
                               ELSE accepted[s] \cup {enroller'[s]}]

-----------------------------------------------------------------------------
(* The process and its supervisor.                                         *)

\* The process is gone, with all it held.
ProcessEnds(status) ==
  /\ process' = "dead" /\ phase' = "down"
  /\ exitStatus' = status
  /\ m_MapServiceInfo' = <<>> /\ m_ServiceToBusName' = <<>> /\ inbox' = <<>>
  /\ pc' = "idle" /\ isOk' = FALSE /\ lStrAffectedService' = ""
  /\ enroller' = [s \in Names |-> NoConn]
  /\ accepted' = [s \in Names |-> {}]
  /\ call' = [c \in Conns |-> IF Pending(c) THEN [call[c] EXCEPT !.answer = "ERROR"] ELSE call[c]]
  /\ UNCHANGED <<peer, calls, unseen, mode, starts>>

\* A failed run() is logged, and main() returns 0.
returnAfterFailedRun ==
  /\ process = "running" /\ phase = "failed"
  /\ ProcessEnds("0")
  /\ UNCHANGED asked

\* run() is over, and main() is in the console loop or asleep for good.
Serving == process = "running" /\ phase \in {"unsubscribed", "subscribed"}

\* The operator enters 0 or closes stdin: consoleLoop ends and is joined,
\* main() returns, and the scheduler, a static, is destroyed, while the dispatch
\* thread of CommonAPI goes on.  What its callbacks then find of the registry is
\* freed memory: the old entries, none, or (a Crash) the end of the process.
leaveConsole ==
  /\ Serving /\ mode = "console"
  /\ process' = "exiting" /\ asked' = TRUE
  /\ \/ UNCHANGED <<m_MapServiceInfo, enroller>>
     \/ m_MapServiceInfo' = <<>> /\ enroller' = [s \in Names |-> NoConn]
  /\ Remember
  /\ UNCHANGED <<phase, m_ServiceToBusName, inbox, handler, peers, mode, exitStatus, starts>>

\* The rest of the static objects are destroyed and the process ends.
finishExit ==
  /\ process = "exiting"
  /\ ProcessEnds("0")
  /\ UNCHANGED asked

\* The process dies of a fault, or is killed.
Crash ==
  /\ process # "dead"
  /\ ProcessEnds("signal")
  /\ UNCHANGED asked

\* systemctl stop or docker stop: SIGTERM, for which the code has no handler.
Terminate ==
  /\ process # "dead"
  /\ ProcessEnds("signal")
  /\ asked' = TRUE

\* Restart=on-failure, for a process that ended neither by itself with status 0
\* nor on request.
Restart ==
  /\ process = "dead" /\ exitStatus = "signal" /\ ~ asked
  /\ mode = "headless"
  /\ starts < MaxStarts
  /\ starts' = starts + 1
  /\ process' = "running" /\ phase' = "constructed" /\ exitStatus' = "none"
  /\ UNCHANGED <<maps, inbox, handler, peers, enroller, mode, asked, accepted>>

-----------------------------------------------------------------------------
(* The samples: wait until the scheduler is available, register, push a    *)
(* state, then stay.  No status is looked at and no step is repeated.      *)

SeesAvailableMutant(c) == TRUE
SeesAvailable(c) == Available

\* while (!proxy->isAvailable()) sleep: the loop is left.
awaitScheduler(c) ==
  /\ peer[c] = "up" /\ call[c] = NoCall
  /\ SeesAvailable(c)
  /\ call' = [call EXCEPT ![c].op = "available"]
  /\ UNCHANGED <<phase, maps, inbox, handler, peer, calls, unseen, enroller>>

\* A call of the proxy; it fails at once when the scheduler has gone.
proxyCall(c, request) ==
  \/ Send(c, request) /\ UNCHANGED calls
  \/ /\ ~ Available
     /\ peer[c] = "up"
     /\ call' = [call EXCEPT ![c] = [op |-> request.type, service |-> request.service,
                                     answer |-> "ERROR"]]
     /\ UNCHANGED <<phase, maps, inbox, handler, peer, calls, unseen, enroller>>

registerApp(c) ==
  /\ call[c].op = "available"
  /\ \E request \in Register(Enrols[c]) : proxyCall(c, request)

pushState(c) ==
  /\ call[c].op = "register" /\ ~ Pending(c)
  /\ \E request \in Report(Enrols[c]) : request.last = "UNKNOWN" /\ proxyCall(c, request)

Sample(c) == c \in Samples /\ (awaitScheduler(c) \/ registerApp(c) \/ pushState(c))

-----------------------------------------------------------------------------

MainThread == process = "running" /\ Main /\ UNCHANGED <<life, accepted>>
DispatchThread == Dispatch /\ Remember /\ UNCHANGED life
Client(c) == Sample(c) /\ UNCHANGED <<life, accepted>>
OtherPeer(c) == c \notin Samples /\ AnyCall(c)

DaemonNext ==
  \/ MainThread
  \/ DispatchThread
  \/ \E c \in Conns : Client(c)
  \/ \E c \in Conns : /\ Connect(c) \/ Leave(c) \/ GiveUp(c) \/ OtherPeer(c)
                      /\ UNCHANGED <<life, accepted>>
  \/ returnAfterFailedRun \/ leaveConsole \/ finishExit
  \/ Crash \/ Terminate \/ Restart

\* The threads of the process and of the clients run; nobody has to crash, to
\* connect, to leave or to be asked to stop.
DaemonSpec ==
  /\ DaemonInit /\ [][DaemonNext]_daemonVars
  /\ WF_daemonVars(MainThread) /\ WF_daemonVars(DispatchThread)
  /\ WF_daemonVars(returnAfterFailedRun)
  /\ \A c \in Conns : WF_daemonVars(Client(c))

-----------------------------------------------------------------------------
(* Properties.                                                             *)

\* A push is refused only for want of a registration: this process has not accepted
\* the sample's at all (it was given up, refused or made to an earlier process), or
\* has lost it again because some peer withdrew the service or the registry is gone.
\* A call that timed out, a take-over by another peer, a loss or a failure does not
\* make a push be refused, and the two calls are never handled out of order.
PushFollowsRegistration ==
  \A c \in Samples :
    /\ call[c].op = "report"
    /\ call[c].answer = "REFUSED"
    => c \notin accepted[call[c].service]

\* The samples' wait for the scheduler is enough: one that starts before, during
\* or after the daemon's start-up is watched in the end, unless it or the process
\* goes away first.
NewSampleIsWatched ==
  \A c \in Samples : \A s \in Enrols[c] \cap ServiceNames :
    (peer[c] = "up" /\ call[c] = NoCall)
      ~> \/ s \in DOMAIN m_ServiceToBusName /\ m_ServiceToBusName[s] = c
         \/ peer[c] = "gone"
         \/ process # "running"

-----------------------------------------------------------------------------
(* What the documentation says and the code does not do.                   *)

\* "The container's exit status reflects the service itself", and a false run()
\* is to be treated as fatal: a process that ends with status 0, after which no
\* supervisor starts it again, was asked to.
ExitStatusReflectsService == exitStatus = "0" => asked

\* The dispatch thread is about to call, or is in, a method of the scheduler.
InScheduler ==
  \/ pc \in {"callback", "failure"}
  \/ Handling("unregister") \/ Handling("report")

\* "Any state touched from more than one thread must be guarded by a mutex": no
\* callback reaches the scheduler once main() has destroyed it with its mutex.
SchedulerOutlivesCallbacks == ~ (process = "exiting" /\ InScheduler)
=============================================================================
