# Verification of the service recovery scheduler

TLA+ models, TLC runs and TLAPS proofs for the daemon `app_srs`: a registry of
monitored services behind a CommonAPI/D-Bus interface that notices when the
D-Bus peer of a service disappears and picks the next action of the service's
recovery policy.

## The system

| Component | State | Operations | Interacts with |
|---|---|---|---|
| Registry, `CRecoveryScheduler` | `m_MapServiceInfo`: name -> policy, `int8_t` cursor, crash count, online flag, current and last action; guarded by `m_MutxServiceInfo` | `onRegisterService`, `onUnregisterService`, `onReportServiceState`, `onServiceFailure`, `getServiceState`, `init`, `run` | called back by the stub (dispatch thread), queried by the console (its own thread) |
| Stub, `CRecoverySchedulerStubImpl` | `m_ServiceToBusName`: name -> unique bus name of the peer; guarded by `m_NameMutex`. `m_SignalConn`, unguarded | `registerService`, `unregisterService`, `reportServiceState`, `handleNameOwnerChanged`, `run` | calls the registry's callbacks without holding its own lock; receives calls and `NameOwnerChanged` from the bus |
| Bus, CommonAPI, libdbus (external) | queues | delivery in order, one dispatch thread per connection, name-owner signals | |
| Peers (the sample clients `AppA`..`AppC`) | their connection | wait until available, register, push a state, stay | synchronous calls; the loss of the connection is the only failure the daemon sees |
| Process, `main.cpp` | start-up, console, the scheduler as a static object | `init()`, `run()`, console thread or headless loop, exit | started again by systemd (`Restart=on-failure`), waited for by the container's entry point |
| Logger | `sMutex`, `std::cout` | `LOG_*` | called by every thread, mostly with the registry's lock held |
| FIDL, configuration file, build and report scripts | | | not part of the modelled behaviour |

What is hard here: two maps under two locks that are updated one after the
other; a lookup outside the lock; signals about a connection that arrive after
the service has come back over another one; peers that die while their call is
queued; callers that stop waiting while the dispatch thread is blocked; calls that
arrive in the middle of the start-up; a process that dies with both maps; a
static object that is destroyed while another thread calls it; an 8-bit cursor.
`PROJECT.json` lists each hazard at its line.

What makes the parts correct:

* registry: the policy is never indexed out of bounds and the action chosen is a
  function of the number of crashes; what a query previews is what the next
  failure does; the record of a crash survives re-registration; a service comes online by its
  registration and goes offline by a failure only; every method is atomic for its callers;
* stub: an online service is watched through the peer that registered it last;
  only the loss of that peer takes it offline; every announced loss does; every
  call is answered;
* process and clients: a client that waits for the scheduler ends up watched; the
  view of a new process owes nothing to the old one's; the exit status tells
  the supervisor whether the service failed;
* logger: a line is written by one thread.

## Modules

| Module | Models |
|---|---|
| `ServiceInfo` | the per-service record and the registry as pure operators: what each method does to an entry and to the map. Cursor arithmetic keeps its width: `Int8` is conversion modulo 2^8 (for `Int8Max` = 127), and a read outside the vector may give any action. |
| `RecoveryScheduler` | `CRecoveryScheduler` with one atomic action per public method, any number of callers. `reply` holds what each caller's last call returned. This is the abstract specification of the registry. |
| `Logger` | `Logger` and the `LOG_*` macros: threshold, lock, first and last piece of a line. Composed into `SchedulerThreads` (its actions are steps of the same threads). |
| `SchedulerThreads` | the methods of `CRecoveryScheduler` at the grain of `m_MutxServiceInfo` and of their log lines: `Invoke`, the unlocked lookup `FindService`, `Lock`, the body under the lock, `Return`. The methods that read or write several fields of an entry do so in two halves (`ReportCurrent`, `ReportLast`; `FailureCounts`, `FailureDrives`; `QueryCopies`, `QueryPeeks`), so that what the lock keeps out is a behaviour of the model. An erased entry leaves other callers' iterators `"dangling"`. Shown to implement `RecoveryScheduler` (`MethodsAreAtomic`). |
| `ServiceMonitor` | abstract: what monitoring promises, per service `untracked`, `online` or `offline` with the connection behind it, against the peers that are there. |
| `RecoveryService` | the composition: start-up on the main thread, peers and bus, the stub's handlers on the dispatch thread, and the registry (through the operators of `ServiceInfo`). Shown to implement `ServiceMonitor` (`ImplementsMonitor`). |
| `Daemon` | extends `RecoveryService` by the process: its two modes, a failed start, console exit, crash, stop, restart by systemd, and the sample clients' control flow. |
| `ServiceInfoProofs` | lemmas about the operators of `ServiceInfo`, shared by the proofs below. |
| `RecoverySchedulerProofs` | theorems about `RecoveryScheduler`. |
| `SchedulerThreadsProofs` | theorems about `SchedulerThreads` and `Logger`. |
| `RecoveryServiceProofs` | the inductive invariant of `RecoveryService` and the theorems that follow from it. |
| `MonitorProofs`, `LossProofs` | on top of it, the refinement of `ServiceMonitor`, and that no announced loss is forgotten. |
| `DaemonProofs` | the same for `Daemon`, and the order of a client's calls. |
| `MCRecoveryScheduler`, `MCSchedulerThreads`, `MCRecoveryService`, `MCDaemon` | values of the constants for TLC. |

Operators named `...Mutant` are wrong variants of the definition that follows
them; they are used by nothing but the check that each property can fail.

### How RecoveryService corresponds to the code

`inbox` is what the connection has received, and its head is the message being
handled; `pc` says where the dispatch thread is in the handler:

| Steps | Code |
|---|---|
| `setCallbacks`, `publish` / `runFails`, `subscribe` / `runUnsubscribed` | `init()`, then `run()`: registration on the bus, subscription |
| `registerService`: `queryUnixPidForBusName`, `registerCallback`, `watchPeer`, `replyToCaller` | pid lookup, callback into the registry, mapping under `m_NameMutex`, `reply()` |
| `unregisterService`, `unwatchPeer`, `replyToCaller` | callback, mapping erased, `reply()` |
| `reportServiceState`, `replyToCaller` | callback, `reply()` |
| `handleNameOwnerChanged`, `failureCallback`; `ignoreNameOwnerChanged` | one service of the lost name unmapped under `m_NameMutex`, then `onServiceFailure` outside it; signals with a new owner or about unknown names |

A peer may make any call of the interface in any order, one at a time. `GiveUp` is the
timeout of a synchronous call on the caller's side: the message stays queued and
is handled, and the answer is dropped unless the caller still waits for this very
call (`Awaited`). That case is real because `queryUnixPidForBusName` blocks the
dispatch thread with the same default timeout as the clients use.

`unseen` (connections lost before the subscription) and `enroller` (connection of
the registration of each service that was accepted last, none once it is withdrawn or
the registry is lost) are history variables. The
callbacks of the registry are single steps here; `SchedulerThreads` justifies
that for one dispatch thread and a console.

The refinement mapping of `ImplementsMonitor` takes a service's `view` from the
registry entry (`isOnline`) and `enroller`, and `announced` from the connections that
are gone without being in `unseen`. The watch map and the queue do not occur in
it: that a handler which looks into the watch map only ever takes the service of the
right connection offline is what the refinement shows.

### The mapping of SchedulerThreads

`RecoveryScheduler` does a failure or a push in one step. In `SchedulerThreads` it takes
effect with its first half: until the second one is done, the mapping shows the entry as it
will be (`Committed`) and the call as answered (`Replied`). A query takes effect with its
second half. That nobody sees the difference is what the lock is for: with a query
that does not take it, the run `threads` finds a snapshot with a crash that is counted and not yet
recorded.

### How Daemon corresponds to the code

| Steps | Code |
|---|---|
| `returnAfterFailedRun` | `run()` is false: error logged, `return 0` |
| `leaveConsole` | `0` or end of file in `consoleLoop`, `join`, `main()` returns, the static `instance` and with it the scheduler is destroyed; the stub, which CommonAPI also holds, and the dispatch thread live on. Until the process ends its callbacks work on freed memory: the model lets them find the old entries or none, or crash |
| `finishExit` | the rest of the static objects; the process ends |
| `Crash`, `Terminate` | a fault; SIGTERM of `systemctl stop` or of the entry point's trap, for which there is no handler |
| `Restart` | `Restart=on-failure`, in headless mode: after a crash, not after status 0 or a stop |
| `awaitScheduler`, `registerApp`, `pushState` | the three parts of the samples' `main()`; they look at no status, repeat nothing, and then sleep for ever |

The end of a process empties both maps and the queue, and the bus answers what was
pending with an error. A client survives it. `accepted` is a history variable: the connections
whose registration of a service was accepted since it was last withdrawn or the registry lost.
Other than `enroller` it keeps a connection that another one has replaced.

### Abstractions

`pid` and `recoveryInterval` are not modelled: the code stores or logs them and
never acts on them. The recovery actions themselves are `TODO`s in
`onServiceFailure`; the model has the choice of the action, as the code does.
`crashCount` is a natural number. The
branches for callbacks that were never set are unreachable after `init()` and
left out. So is the case of an empty bus name, which a D-Bus client never has.
`m_SignalConn`, which `run()` assigns on the main thread while the dispatch thread
may read it, is not a variable: whatever the race yields, the pid only reaches a log line.

## Runs

| Run | Bounds | Result |
|---|---|---|
| `scheduler` | 1 service and a name outside the catalogue, the default policy and policies of 2, 126 and 127 actions, 260 crashes | holds: `TypeOK`, `CursorInRange`, `CursorTracksCrashes`, `OnlineFollowsCalls`, `CrashIsRemembered`, `PreviewIsHonoured`. 260 crashes take the longest policy round twice and the cursor to its largest value. That calls about one service leave the others alone is part of the proofs, which have any number of services. |
| `scheduler_too_long` | a policy of 129 actions | `CursorInRange` violated: finding 1 |
| `scheduler_disable` | default policy, 6 crashes | `DisableIsFinal` violated: finding 2 |
| `scheduler_reregister` | two policies | `AcceptedPolicyInForce` violated: finding 3 |
| `threads` | dispatch thread and console, 1 service, 1 unknown name, pushes of `RESTART` and `UNKNOWN`, 1 crash between two erasures (a half-recorded failure shows at the first; how the cursor goes on is `scheduler`'s) | holds: `SnapshotsAreWhole`, `LinesAreWhole`, `MethodsAreAtomic`, and no deadlock with the logger's lock inside the registry's |
| `threads_race` | two threads that change the registry | `MethodsAreAtomic` violated: finding 4 |
| `service` | 3 connections, two for the same service, one whose calls may time out (`Impatient`), a name outside the catalogue, `MaxCalls` 3 in all, all start-up paths | holds: `TypeOK`, `OnlineIsWatched`, `OfflineMeansGone`, `AcknowledgedIsWatched`, `AnnouncedLossIsHandled`, `ImplementsMonitor`. Three calls allow register, take-over and withdrawal with losses at every point. |
| `service_shared` | 1 connection with 2 services | `AnnouncedLossIsHandled` violated: finding 5 |
| `service_window` | 1 connection | `OnlineIsConnected` violated: finding 6 |
| `daemon` | a sample whose calls may time out and another peer for the same service with `MaxCalls` 2, both modes, `MaxStarts` 2, fairness | holds: `PushFollowsRegistration`, `ImplementsMonitor`, `EveryCallIsAnswered`, `LossIsNoticed`, `NewSampleIsWatched`. Two starts are one restart with everything in flight; two calls of the other peer take over and withdraw the sample's service. |
| `daemon_exit_status` | a headless process | `ExitStatusReflectsService` violated: finding 7 |
| `daemon_teardown` | a process with console, one sample | `SchedulerOutlivesCallbacks` violated: finding 8 |

The passing runs give each connection at most one service of the
catalogue, as the sample clients do; `service_shared` drops exactly that
restriction. Deadlock is not checked in the `service` and `daemon` runs because the
bounded peers may all have left, or the process may have ended for good, and
nothing remains to be done; it is checked in the others.

Fairness: `DaemonSpec` assumes weak fairness of the main thread's start-up, of the
dispatch thread's steps, of the return after a failed `run()` and of each sample's
next step. CommonAPI's dispatch thread loops over what the connection has received,
the handlers contain no waiting loop, and the one blocking call (the pid lookup) has
a timeout; the samples poll `isAvailable()` five times a second and their calls end by
an answer, a timeout or an error. Nothing is assumed of connections, losses, timeouts, other
peers' calls, crashes, stops or restarts.

## Findings

1. No length limit on a policy: with 129 actions the cursor, which starts at -1, is 127 after
   the 128th failure and overflows to -128 at the 129th, and the policy is read out of bounds
   (the documented cap `MAX_RECOVERY_ACTIONS` is unused).
2. `DISABLE` is not final: the cursor wraps and the next failure chooses the
   first action.
3. Re-registration drops the policy it passes, and reports success.
4. `onRegisterService` looks up outside the lock. Harmless with the daemon's one
   dispatch thread (run `threads`), a use after erase when two threads change the
   registry, which the class documentation allows.
5. Two services over one connection: the loss takes only one of them offline.
6. A loss between publication and subscription is never noticed.
7. A failed `run()` ends the process with status 0, so neither systemd nor the
   container's supervisor sees a failure and the daemon is not started again.
8. Leaving the console destroys the scheduler while the dispatch thread may be in
   one of its methods: the callbacks hold a raw `this`.

Smaller remarks, not modelled: `m_SignalConn` is assigned and read on two threads
without a lock; `CRecoverySchedulerStubImpl.hpp:101` and `:115` describe the mapping as
updated before the callback, the code does it after; `systemd/app_srs.service:12` says the
logger writes to stderr, it writes to stdout.

## Proofs

Every safety property that a passing run checks is also a theorem, for every value of the
constants: any catalogue, any number of threads, connections, services, calls, restarts and
messages in flight.

| Module | Theorems (property) | Hypothesis |
|---|---|---|
| `RecoverySchedulerProofs` | `TypeCorrect` (`TypeOK`), `OnlineOnlyByCalls` (`OnlineFollowsCalls`), `CrashStaysRemembered` (`CrashIsRemembered`) | |
| | `CursorStaysInRange` (`CursorInRange`), `CursorFollowsCrashes` (`CursorTracksCrashes`), `PreviewKept` (`PreviewIsHonoured`) | `ShortPolicies` |
| `SchedulerThreadsProofs` | `LinesStayWhole` (`LinesAreWhole`), `SnapshotsStayWhole` (`SnapshotsAreWhole`) | |
| | `MethodsStayAtomic` (`MethodsAreAtomic`) | `OneMutator` |
| `RecoveryServiceProofs` | `TypeCorrect` (`TypeOK`), `OnlineStaysWatched` (`OnlineIsWatched`), `OfflineOnlyWhenGone` (`OfflineMeansGone`), `AcknowledgedStaysWatched` (`AcknowledgedIsWatched`) | |
| `MonitorProofs` | `MonitorImplemented` (`ImplementsMonitor`) | |
| `LossProofs` | `AnnouncedLossStaysHandled` (`AnnouncedLossIsHandled`) | `OneServicePerPeer` |
| `DaemonProofs` | `DaemonKeepsPromises` (`OfflineMeansGone` and `AcknowledgedIsWatched`), `DaemonImplementsMonitor` (`ImplementsMonitor`), `PushesFollowRegistrations` (`PushFollowsRegistration`) | |
| | `DaemonHandlesLosses` (`AnnouncedLossIsHandled`) | `OneServicePerPeer` |

The hypotheses are hypotheses of the theorems and not assumptions of the modules because the
code does not establish them, and each is needed, as a run shows that drops it:

* `ShortPolicies`: no policy, the default included, is longer than `Int8Max` (finding 1, run
  `scheduler_too_long`);
* `OneMutator`: one thread at most calls the methods that change the registry, as the daemon is
  wired: the dispatch thread. Any number of others may query (finding 4, run `threads_race`);
* `OneServicePerPeer`: a connection makes calls about one service of the catalogue at most, as
  the samples do; it may pass any other strings (finding 5, run `service_shared`).

The assumptions on the constants (`Int8Assumption`, `SchedulerAssumption`, `ThreadsAssumption`, `LoggerAssumption`,
`ServiceAssumption`, `DaemonAssumption`) state their types, that the largest cursor is positive,
and that `NoCaller` is no caller and `NoConn` no connection; TLC evaluates them in the runs.

### The arguments

Registry. `StepByEntry` reduces a step of any caller to what it may have done to one entry
(`EntryStep`), so each invariant is proved entry by entry. The range of the cursor is not
inductive: that the wrap happens at the end needs the length of the policy to fit the cursor,
and that the cursor is what the crash count says needs both. `CursorInv` is the conjunction of
the two; `NextIndex` shows that within it the two computations of the next index agree, and
`ModUnique` and `ModSucc` are the arithmetic of the wrap.

Logger. `LogInv`: the holder of `sMutex` is the one thread past the lock of `write()`, and what
stands on the line is its own. A caller inside the registry's lock has no record under way, so
that a record logged there replaces none.

Threads. `LockInv` is mutual exclusion: whoever is inside or halfway holds the lock, and what it found
tracked stays tracked while it does. `WholeInv` adds what a failure leaves halfway: an entry whose crash is counted and not recorded belongs to the failure that holds the
lock, so no query copies it; `SnapshotsStayWhole` follows without `OneMutator`. `CurrentInv` is
what `OneMutator` adds: a mutator that has looked its service up without the lock finds the
registry as it was when it acts. With it every step maps to a step of `RecoveryScheduler`, taken
under the lock (or at the unlocked lookup, for a name that is refused), or to a stutter.

Service. `CoreInv` is the inductive invariant. `OnlineIsWatched` is not inductive: it says
nothing between the two locks. `WatchInv` and `GapInv` describe the two gaps (a registration
accepted but not mapped, a loss looked up but not applied) in terms of the message at the head
of the queue, `HandlerInv` ties the place in the handler to that message, and `InboxInv` says of
every queued message what is known of the peer that caused it: a call came from a connection
that was there, a loss signal from one that is gone and was announced. `EnrolledInv` and
`GoneInv` relate the history variable `enroller` to the registry, and `AnswerInv` says that a
peer whose last call was answered has none left in the queue, so no late registration undoes
what it was told. `ExactInv` adds the converse inclusion of the two maps.

`CoreInv` leaves room for a watch map with entries the registry does not have. `ExactInv` does
not, and does not hold of `Daemon`: when the console is left the registry is destroyed and the
watch map lives on. That is why they are two, and why what is proved from `CoreInv` alone carries over to
`Daemon`: `DaemonProofs` shows that the end of a process, the destruction of the registry, a
restart and the samples' steps keep it (`DaemonKeeps`).

Refinement. Each action of `RecoveryService` maps to a step of `ServiceMonitor` or a stutter:
the callbacks into the registry are the moments of enrolment, withdrawal and noted loss. The
case that carries weight is `failureCallback`, where `WatchInv` gives that the service is online
through the connection the signal is about, and `InboxInv` that this connection was announced.
In `Daemon` the end of a process is `Forget`.

Losses. `LossInv`: for every announced connection the signal is behind all its calls
(`CallsFirst`), and for every service still online through it there is a signal left that will
take it offline (`LossComes`); a registration that is handled after its caller has left has its
signal behind it. While a signal is being handled it counts only for the service it was
resolved to: this is the step that needs `OneServicePerPeer`.

Order of calls. `OrderInv`: what a peer waits for is the answer to the last of its queued calls
(`AwaitedInv`), a push about to be refused names a service that is not tracked (`RefusalInv`),
and a refused peer has not been accepted since (`PushInv`), because it has no call left in the
queue. `AcceptedInv` ties `accepted` to `enroller`: a service that is not tracked has nobody
enrolled, so nobody's registration of it is still accepted.

TLC checked `CoreInv`, `ExactInv` and `LossInv` on the instance of run `service`, and
`CoreInv`, `OrderInv` and `AcceptedInv` on that of run `daemon`, before they were proved.

### Only model-checked

The three liveness properties `EveryCallIsAnswered`, `LossIsNoticed` and `NewSampleIsWatched`,
and the absence of deadlock in `scheduler` and `threads`: TLAPS reasons about neither fairness nor
`ENABLED`.

## Not modelled

* `notifyStateChanged` and the broadcast `serviceStateChanged`: nothing calls the one, so the
  other is never sent, and the samples' subscription to it never fires.
* The recovery actions, a graceful shutdown and the signal-based executor that `CHANGELOG.md`
  speaks of: they are not in the code.
* `recoveryConfig.Json`: not loaded by the program.
* FIDL and deployment files, build and report scripts, the image: input of generators and
  tools. The unit tests were read for what they expect.
* In the console, menu text, bad input and unknown options, which change nothing; the layout of
  a log line and its time stamp.

## Plan

1. Done: the models `ServiceInfo`, `RecoveryScheduler`, `SchedulerThreads` with `Logger`,
   `RecoveryService` with its abstract specification `ServiceMonitor`, and `Daemon`; a theorem
   for every safety property of the passing runs and for both refinements.
2. Next: carry the theorems of `RecoveryScheduler` over to `SchedulerThreads` along the proved
   refinement (with one mutator and short policies the cursor stays in range at the grain of the
   locks too), and to the registry inside `RecoveryService`; the order in which the two locks of
   a thread are taken, as an invariant behind the absence of deadlock.
