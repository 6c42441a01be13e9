# Formal models of the UniClipboard daemon

TLA+ models of the parts of this repository whose correctness depends on the
order in which things happen, the TLC runs that check them on small instances,
and proofs, checked by TLAPS, that hold for every instance. Every definition
follows the code; `PROJECT.json` ("map") names the lines each one stands for.

Contents: 1 the system, 2 what is modelled and how, 3 the runs, 4 bounds and
fairness, 5 the proofs, 6 where the code and its comments disagree, 7 what is
not modelled, 8 what could come next.

## 1. The system

UniClipboard is a desktop daemon (`uniclipd`, Rust) that watches the clipboard,
keeps an encrypted history and syncs it with other devices, with several
clients on one machine: a GUI (Go and React), a quick panel (Rust), a command
line (Go) and a developer tool (Rust). The sync and storage engine itself
(`uc_engine`) is an external crate; this repository holds the shell around it.

| Component | State it keeps | Operations | Talks to | What is hard | What makes it correct |
|---|---|---|---|---|---|
| **Instance lock** `uc-daemon-local/src/instance_lock.rs`, `apps/daemon/.../profile_claim.rs` | one `flock` per profile, threads blocked in it | try, read the holder's record, judge, SIGTERM, wait, verify, SIGKILL, wait, refuse | PID file, kernel, other daemons | stale records, pids given twice, waits that time out and win later, crashes | one daemon has the storage open; no newer daemon is evicted; every claim ends |
| **PID file** `uc-daemon-process/src/process_metadata.rs`, `contract.rs` | `.daemon-pid` | write, read, remove, rank, verify identity, terminate | instance lock, CLI, GUI | write is not atomic, survives a crash | names the owner whenever it names a live run |
| **Daemon host** `apps/daemon/src/daemon/host.rs` | the tasks of a run, cancellation | start, serve, tear down, fail and show status | everything below | order of teardown, signals at any moment | lock last, storage first, PID file in between |
| **Oneshot residency** `control_lease.rs`, `oneshot.rs` | count of control leases, minted ids, grace and drain deadlines | acquire, release, poll, self-terminate | WebSocket handler, coordinator, host | relaxed atomics read one by one | never ends under a client, never lingers without one |
| **Controlled restart** `restart.rs`, `lifecycle.rs`, `handover.rs` | restart in progress, generation, `quiescing`, handover record | request, abort, write record, clear it | gates of HTTP and WebSocket, supervisor, spawner | request, abort and drain race; two processes share the record | one winner, bounded drain, the promise is kept |
| **Content lock** `content_lock.rs`, `encryption.rs` | grant, generation, what was published | unlock, revoke, resolve, observe, publish, gate | engine queries, WebSocket events | a decision is made from facts read in several awaits | no content outside the grant, decisions stand and are told |
| **WebSocket connections** `ws.rs` | topics, outbound queue, heartbeat, lease | subscribe with snapshot, forward, ping, close | broadcast channel, content lock, lease registry | lag, snapshots against events, slow clients | lease returned however it ends; a client is told to refresh when it lost events |
| **Settings and engine events** `uc-desktop-settings`, `settings_events.rs`, `engine_events.rs`, `settings/watch.go` | product document on disk and in memory, revisions, peer snapshot | write, reset, forward, convert, read again, request LAN targets | engine, broadcast channels, LAN lifecycle, hosts | lag on three channels in a row, a change during a read | a listening host obeys what is stored or is about to be told |
| **Mobile LAN** `mobile_lan_lifecycle.rs`, `uc-webserver/src/mobile_lan/` | listener record, requested target | reconcile, enable, disable, serve phones | settings, teardown | stale target after a newer one or after teardown | listener as the settings say, none after teardown |
| **Crash marker** `crash_marker.rs` | start marker, last report | begin run, mark graceful stop | host, lifecycle route | a crash between two files | every crash reported once |
| **Daemon client** `uc-daemon-client/src/` | token cache, subscriber table, connection state | connect, subscribe, dispatch, reconnect | daemon's HTTP and WebSocket | subscribing while dispatching, back-pressure | no subscriber lost, no event lost unannounced |
| **Secure storage** `uc-platform/src/secure_storage*` | which store holds the key | choose, migrate, read, write | keychain, files | migration interrupted | the key is never lost |
| **X11 clipboard** `uc-platform/.../linux/x11/` | who owns the selection as each thread knows it, the written payloads | watch, read with retries, write and verify, serve pasters | X server, other applications, engine | two queues of events per connection, owners that are slow or change in the middle | the last change is read; what is owned can be served |
| **Clipboard capture** `uc-platform/src/clipboard/watcher.rs` | last fingerprint | observe, suppress duplicates, hand on | platform, engine queue | full queue | a dropped item may be seen again |
| **Security of the local API** `uc-webserver/src/security/` | tokens, rate-limit window | authenticate, limit | every route | little: one mutex | - |
| **Startup status** `startup.rs`, `startup_recovery.rs` | phase of the start, failure | report, retry, stop | host | little | - |
| **Go host and clients** `packages/desktop-host-go`, `apps/cli-go`, `apps/gui-go` | probe results | probe, spawn, promote, stop | daemon, PID file, handover | spawners race with each other and with the daemon's end | at most one successor in the wanted residency |
| **React UI, quick panel, update worker, dev CLI, benchmarks** | view state, release manifests | - | daemon | no shared state of their own | - |

How they interact. A daemon run first claims the profile (instance lock), then
clears the handover record, opens the engine, writes the PID file, binds the
HTTP server and installs its signal handler. Clients find it by the PID file and
a health probe. A WebSocket of a controlling client takes a lease; in the
*oneshot* residency a supervisor polls the leases and ends the run when they are
gone. `POST /lifecycle/restart` raises `quiescing`, which the admission gates
read; when the leases have drained the main loop leaves a handover record, from
which the next spawner learns the residency to start in. Content routes pass
the content lock before and after their handler; changes of the lock reach
clients as WebSocket events. At the end the engine is shut down, the PID file
removed and the lock released, in that order.

## 2. What is modelled

### InstanceLock (with ProfileOwnership)

`ProfileOwnership` is the abstract promise: a profile has at most one owner; a
run takes it when nobody owns it and gives it up once. `InstanceLock` is the code
of `run_async`, `DaemonInstanceLock` and the PID file, for any number of runs of
the binary. A run is a program counter `pc[p]`:

| phases | code |
|---|---|
| `try` | `try_acquire` |
| `read`, `judge`, `term`, `waitTerm`, `verify`, `kill`, `waitKill` | `try_evict_outranked_holder`, with its two waits |
| `waitLock`, `refused` | `acquire_blocking` until the deadline; `AlreadyRunning` |
| `claimed`, `truncated`, `booting` | after the claim, inside `fs::write` of the PID file, before the SIGTERM handler |
| `serving`, `hung`, `closing`, `failed`, `closed` | the service, its teardown, and the status server that stays after an error |
| `unpublished`, `released`, `dead` | PID file gone; lock gone; process gone |

`held` is the set of open file descriptions that hold the flock, `parked` the
detached threads of `block_acquire_within`. An expired wait leaves its thread in
`parked`; `Grant` may give it the lock later and `DropOrphan` is the failed send
that drops it. `holder[p]` is the record a contender read: all it does afterwards
uses that copy, as in the code, whatever the file says by then. A crash (`Crash`)
is possible in every phase and leaves the PID file.

The refinement mapping takes the owner of `ProfileOwnership` to be the run in one
of the phases `Owning`; `ImplementsOwnership` states that InstanceLock
implements it, and is both checked and proved.

### OneshotRestart (with RestartPromise)

One oneshot daemon from serving to exit: connections (`conn`), the lease registry
(`active`, `total`), restart requests (`req`), the coordinator (`mutex`,
`inProgress`, `generation`, `quiescing`), the supervisor (`sup`, `seen`,
`draining`, `graceExpired`, `terminate`) and the main loop (`main`, `controlled`,
`handover`, `cancel`). One step is one access to something shared: `acquire` is
`Count` then `Mint`, the top of the supervisor's loop is `ReadTotal`,
`ReadActive`, `Decide`; `request` and `abort` hold the mutex across two steps
each, so that readers of the flag (who do not take the mutex) can come between. The
host's teardown waits in `DisableLan` for the phones' listener, which has no deadline,
before the joins that have one. The record may fail to be written; `unwritten` is the
history of that.

`RestartPromise` is what coordinator and exit promise together: one restart is
pending at a time, none is accepted twice, and the pending one may be given up until
it is handed over, which happens once and for good. The refinement mapping of
`RestartIsAPromise` takes the pending restart to be that of `inProgress`, the last one
to be `generation` and the record to be `handover`.

### ContentLock

Each element of `Call` is one HTTP request or one event of the engine, and
`Watcher` is the task of `run_watcher`. `resolve_status` is the phases
`snapshot`, `recovery`, `encryption`, `seed`/`reset`, `now`: every access to the
mutex and every answer of the engine is a step, so a grant, a lock of the session
or another `resolve_status` can come between any two. `seen[t]` holds the locals
of the task (the grant as it was at the snapshot, then the engine's answer, then
the status). `publish_current` continues with `observe` and `publish`; a gated
route with `handler` and `reply`, the second check of the generation. The engine's
state is three facts (space initialized, session ready, background ready). A
query may fail (`Fail`); the handlers of unlock and revocation go on to reply the
status all the same, as in the code. `lapsed` is a history variable: the facts
did not allow content at some moment since the grant last changed.

The events of the watcher are counted, not queued by content: it acts the same on
all of them. A lagged receiver makes one call of `publish_current` for several
events, which is a behaviour in which some events are handled without a step of
anybody else in between; losing events altogether is not what `Lagged` does.

### WsBridge

The quick panel's side of the daemon's WebSocket: one task of the bridge (`run`),
one forwarder and one consumer for each subscriber.

| phases of the bridge | code |
|---|---|
| `top` | the loop of `run`: the token, the topics, its pauses |
| `connect` | `connection_state.get`, session token, socket, handshake, subscription |
| `read` | `read.next` against the token |
| `offer`, `retry`, `keep` | `dispatch_event` over a copy of the table: the event is offered (`try_push`), pushed after the delay if it is terminal and did not fit, and the subscriber kept unless it is closed; with nobody left the survivors become the table (`Store`) |

A forwarder looks into the queue (`look`), waits for a wake-up (`wait`) or sends
what it took (`send`). `Notify` is its one permit. An event passes through
`pending`, `hand` (the forwarder's local), `channel` and `got`, what the consumer
has received. Events come to be when they are read: those a lost connection
still held are the same as events never sent. `got`, `offered` and `late` are
history; that of a consumer ends when it leaves.

### SettingsFeed

How a change of the settings reaches a host. The daemon's document is a file,
its copy in memory (`raw`) and a revision, changed under one lock: `Apply`,
`Reset`, `TouchDisk`, `WriteFails`, `Publish` are the steps of
`DesktopSettingsStore`. The engine's settings are one value and a stream of events.
`Forward...` are the two forwarders with their reaction to a lag, `FanOut` the task of
a connection, `AcceptSubscription` ... `SendSnapshot` the handling of a subscription,
and `pc` the session of `Watcher` in `packages/desktop-host-go/settings/watch.go`:

| `pc` | code |
|---|---|
| `away`, `dial` | no session; connected and not yet subscribed |
| `waiting` | `waitSnapshot`: the revisions to start from |
| `engine`, `desktop` | inside `GET /settings`, which reads the two owners one after the other |
| `listening` | the loop over events; a newer revision makes it `stale` and leads back to `engine` |
| `closing` | the session's end, and the way back to `away` |

A channel that overflows is a flag beside what it still holds (`changesLag`,
`eventsLag`, `engineLag`), as tokio's broadcast receivers report it. The forwarder of
engine events reconciles the listener for phones before it takes the next event
(`reconciling`, `ReconcileLan`, `LanReconciled`). Documents have no
contents: what matters is whether the host was last told the stored one.

### WsConnection

One connection: the receive loop (`recv`), the fan-out (`fanout`), the heartbeat
(`heartbeat`, `tickIn`, `deadlineIn`) and the send task (`send`), the two channels
`outbound` and `control`, the socket, and a client that is `live`, `mute` or `gone`.
Frames are counted; what they say is left to SettingsFeed. `parting` is a frame of the
client that ends the receive loop: a Close, or a payload that does not parse. The cleanup is in the order
of the code: abort the helpers, wait for the send task, give the lease back.

### MobileLan

`work[t]` is where the host or the forwarder stands in a reconciliation: `ask` (the
query of the target), `wait` (for the mutex), then inside `stop_locked` and
`start_locked`: `drain`, `joined`, `bind`, `bound`, `failed`. The engine's event stream
is a sequence; `Burst` is its overflow, after which it holds one `RefreshRequired`.
`server[p]` is the listener task of a port and `busy[p]` a phone's request to it, which
the drain waits for.

### DaemonRuns

Up to `MaxRuns` processes of one profile, in order of their start, and the four files
they leave to each other: start marker, handover record and two connection files. A
run's `phase` goes from `waiting` (for the lock, which is abstract here: InstanceLock
shows that it works) through `claimed`, `preparing`, `starting` or `refused`,
`settling`, `marking`, `launching`, `running`, `stopping` to `dead`, or to `lingering`,
the status server that stays after an error. `Kill` is possible everywhere. Stop
tokens, graceful stops and signals are sets of runs that have been asked and have not
yet looked. Clearing the record, writing a record or a marker, and removing a
connection file may each fail, as in the code, which logs it and goes on. `consumers`
is history: the runs that have held the profile since the record was last cleared.
`untidy` is those that were killed, or one of whose removals failed, and that a
connection file may still name.

### X11Clipboard

The watcher thread, the worker thread and as much of the X server as they see: who
owns the selection, and the events each connection is sent. Each connection has two
queues, the kernel's (`wsock`, `ksock`) and x11rb's (`wbuf`, `kbuf`). Every request that
waits for a reply or its error check moves the first into the second
(`WatcherFills`, `WorkerFills`); `poll_for_event` looks at both; `poll` wakes for the
first only.

| `wpc` | code |
|---|---|
| `drain`, `query` | the loop of `run` until there is no event; the owner the round is about |
| `ask`, `targets`, `askData`, `data`, `fetch` | `read_snapshot`: ConvertSelection for the targets, the wait for the answer, the same for one representation, the fetch |
| `judge` | an empty read: cleared, another owner, out of time, or once more |
| `return`, `rest` | `take_selection_changed` and the choice between another round and `poll` |

| `kpc` | code |
|---|---|
| `drain`, `requests` | the events, then the requests of `worker_main` |
| `own`, `verify` | `install_snapshot` after the payloads are set: take the selection, look whether it was taken |
| `reading` | `read_snapshot` while nothing is held, serving pasters meanwhile |

`behind` is history: the owner was set after the last read of the watcher began.

## 3. The runs

| run | checks | result |
|---|---|---|
| `instance_lock` | types; `OneDaemonServes`, `PidFileNamesOwner`, `VictimIsNotNewer`, `OutrankedHolderIsGone`; refinement `ImplementsOwnership`; liveness `EveryClaimIsAnswered` | hold |
| `oneshot_restart` | types; `NoSpuriousTermination`, `AnswersAreTrue`, `HandoverIsPromised`; refinement `RestartIsAPromise`; liveness `RestartIsSettled` | hold |
| `content_lock` | types; `AnswersStayWithinGrant`, `DecisionsOutliveReaders`, `DecisionsAreTold` | hold |
| `ws_bridge` | types; `OrderKept`, `TerminalsSurvive`, `EarlySubscribersStay`; liveness `EventsDoNotRest` | hold |
| `settings_feed` | types; `NothingMissed`; liveness `HostCatchesUp` | hold |
| `ws_connection` | liveness `LeaseComesBack`, `RequestsAreAnswered` | hold |
| `mobile_lan` | `OneListener`, `StatusIsTrue`; liveness `ChangesAreFollowed`, `ShutdownEnds` | hold |
| `daemon_runs` | `CrashIsReported`, `NoFalseAlarm`, `HandoverIsTheLast`, `FilesLeadHere`, `OrderlyEndsLeaveNoFile`; liveness `StopIsObeyed` | hold |
| `x11_clipboard` | types; `NoChangeIsForgotten`, `HeldIsOwned` | hold |
| `x11_change_lost` | liveness `ChangesAreRead` | violated, see 6.1 |
| `x11_unserved` | `OwnedIsServed` | violated, see 6.2 |
| `ws_heartbeat` | liveness `MuteClientIsEvicted` | violated, see 6.3 |

The types of `WsConnection`, `MobileLan` and `DaemonRuns` are proved
(`ConnectionTypes`, `LanTypes`, `RunsTypes`) and left out of their runs.

Beside these stand configurations that show, one by one, what a comment says and
the code does not keep; each finds its property violated:

| configuration | module | property | see |
|---|---|---|---|
| `InstanceLockTakeover.cfg` | MCInstanceLock | `NewcomerTakesOver` | 6.4 |
| `InstanceLockRecycled.cfg` | MCInstanceLock | `RecycledPidIsNotKilled` | 6.5 |
| `OneshotRestartAbort.cfg` | OneshotRestart | `LateAbortIsNoOp` | 6.6 |
| `OneshotRestartLate.cfg` | OneshotRestart | `RestartIsHandedOver` | 6.7 |
| `ContentLockStale.cfg` | MCContentLock | `LostSessionStopsAnswers` | 6.8 |
| `ContentLockSubscribers.cfg` | MCContentLock | `SubscribersLearnTheLock` | 6.9 |
| `WsBridgeTopics.cfg` | MCWsBridge | `ReconnectRestoresTopics` | 6.10 |
| `SettingsFeedReset.cfg` | MCSettingsFeed | `AcknowledgedWriteSurvives` | 6.11 |
| `MobileLanStalled.cfg` | MCMobileLan | `ShutdownEnds`, without `PhonesFinish` | 6.12 |
| `DaemonRunsSignal.cfg` | DaemonRuns | `SignalIsObeyed` | 6.13 |

What each property says, and of which code, is in the comment above it. Each
property of a passing run has a slip of the code, defined next to the action it
distorts (`StopEarlyRelease`, `ConnectionSwapped`, `ResetAnyway`, ...), under
which the same run finds it violated.

Run one with, for instance, `tlc -config InstanceLock.cfg MCInstanceLock.tla`; the
longest, `content_lock` and `daemon_runs`, take about two minutes.

## 4. Bounds and fairness

*InstanceLock.* Three runs: an owner, a contender and a third that comes between
them, which is what it takes for a record to be stale by two owners. Two versions,
one of them shared, and a clock of two values (`MaxTime = 1`), so that rank is
decided by version, by start time and by pid. Each run lives once; a restart is
another element of `Proc`. Pids are distinct in the passing run, as
`VictimIsNotNewer` and `OutrankedHolderIsGone` need; `InstanceLockRecycled.cfg`
gives one pid to two runs that do not live at the same time.

*OneshotRestart.* Two connections and two requests: one lease that drains while
another is taken, and a request that meets another one or the abort of it. One
target: which one is asked for matters to no decision.

*ContentLock.* One call that reads, one that opens a session or decides, one that
takes the session or the space away, and the watcher. Two calls of the same kind
are left out of the passing run and covered by the proofs. `Failing` names the
kinds of tasks whose queries may fail: for a reader or a notification the failure
only ends the task. `Opened` leaves out a daemon that starts in recovery. The two
configurations beside the run need three calls, and two with the watcher.

*WsBridge.* Two subscribers: one takes two topics, of which one carries terminal
events; the other subscribes to the `Setup` topic, which has no events in this
client (`event_topic`), and so only comes, is copied, lost or kept. Queues of two
and three events: one overflow, and an eviction between a terminal event and a
plain one. How several receiving subscribers, larger queues and longer streams
behave is proved. An event that stays in the queue behind a full channel would be the
fourth; `EventsDoNotRest` promises nothing about it.

*SettingsFeed.* Channels of one item: two changes in a row overflow any of them, and
all three can overflow one after the other. Two changes, each by either owner, and
one fault, which is a failed write, a failed read, a pause of the watcher, a lost
connection, a burst of other events, a reconciliation of the listener for phones
or a crash. Documents, capacities and bounds are arbitrary in the proof.

*WsConnection.* Queues of one frame, so that each writer of each queue blocks behind
another; two snapshots against two events, one more than the queue takes. Interval and
timeout are 3 and 4 (30 s and 40 s in the code), a tick is at most 1 overdue, and in the
passing run the clock may also leap (`Suspends`, a laptop that slept).

*MobileLan.* Two ports and "off" are three targets, and three changes of the settings are
one more than it takes to pass over a target that somebody is already on his way to.

*DaemonRuns.* Three runs: one that crashes, one that reports it or fails before it
can, and one more that has to cope with what both left.

*X11Clipboard.* Two applications, interchangeable, of which one may own the selection
at the beginning; one take-over, which is the change of owner in the middle of
anything; two requests of the engine, so that a write follows a read, a write or a lost
selection. An empty read is repeated once before its time is out. An application answers
a request or does not, early or late; of several requests for one target that wait, one
is remembered. The watcher's stop and the engine's calls are enabled only where the
threads look at them: in between nothing could tell.

Timeouts are untimed everywhere, but for the heartbeat: a deadline that is armed may
pass at any moment. This includes every behaviour of the real budgets, and more.

*Fairness.* `InstanceLock`: weak fairness of `Step(p)`: a process that can take a
step takes one, waits expire, the kernel wakes threads. Launching, hanging,
stopping and crashing are never promised. `OneshotRestart`: weak fairness of each
task and handler, as the tokio runtime schedules every ready task; strong
fairness of the two timers, because the supervisor's `select!` polls every few
moments and rebuilds its arms: an armed deadline is enabled again and again, not
all the time, and it does pass. The step `DisableLan` is not among the fair ones: the
host awaits the phones' listener without a deadline (`host.rs:425`). That it ends is
the assumption `PhonesFinish`, which the passing run makes. Nothing makes a client close its connection, ask
for a restart or stop the daemon. `ContentLock` states safety only and assumes
nothing. `WsBridge`: weak fairness of each forwarder and of the bridge's own steps,
but not of an attempt to connect: neither the TCP connect nor the handshake has a
deadline. No consumer has to receive.

`SettingsFeed`: weak fairness of each step of the forwarders, of the connection's
fan-out and of the watcher; a write that has begun is finished or fails. Nobody has to
change a setting, and a crashed daemon need not be started, a paused watcher not be
resumed. The forwarder of engine events awaits the reconciliation of the listener
for phones between two events (`engine_events.rs:61-69`), so here too `PhonesFinish`, that
this await ends, is an assumption of its own, without which `HostCatchesUp` does not
hold. `HostCatchesUp` is about a daemon that stays up and a watcher left alone.
`WsConnection`: weak fairness of each task, and strong fairness of two steps: taking an
event, because `select!` takes either of two ready channels and does not pass over one
for ever, and sending a snapshot into a queue that another task keeps filling (waiting
senders of a tokio channel are served in turn). A client that is `mute` or gone has to
do nothing. `MobileLan`: weak
fairness of the host and the forwarder, strong fairness of their way through the
mutex, which tokio hands out in order. That phones finish their requests is a
separate assumption, `PhonesFinish`, which the passing run makes and
`MobileLanStalled.cfg` does without; it is the one named in OneshotRestart and
SettingsFeed, said there of the step that waits for it. `DaemonRuns`: weak fairness of the machine as a
whole is enough, since no process returns to a place it has left, but for the awaits without a deadline
(`Await`: the start of the engine, its initial target for phones, its release, the
requests of the startup server, and the phones' listener at the teardown). That they
end is the assumption `AwaitsEnd` of `AwaitingSpec`; `StopIsObeyed` is checked under it,
and so is `SignalIsObeyed`, which is violated all the same. The calls from
outside, the failures of the HTTP service and the end of the last lease need not come. `X11Clipboard`: safety is checked under `Spec`, with
symmetry; the liveness configuration uses `FairSpec`, weak fairness of the two
threads, and no symmetry.

Deadlock is not checked: a run of a daemon, a request, a connection and a watcher end
for good, so these systems stop.

## 5. The proofs

Each `...Proofs` module proves, for every value of the constants that satisfies
the module's one assumption, an inductive invariant and from it the safety
properties of the passing run. TLC has checked the parts of each invariant first.

**InstanceLockProofs.** The invariant is `HeldByOwner` (at most one file
description holds the lock; it is the owner's exactly in the phases `Owning`),
`PidFileNamesOwner`, `RecordsAreTrue` (a record on disk or in a contender's hands
tells the truth about a run that has owned the profile), `EvictionIsJustified`
(who is past its judgement out-ranks whom it read) and `LivePidsDiffer`. The
exclusion of two daemons needs `HeldByOwner`: who may write the PID file follows
from holding the lock, not from the file. `VictimIsNotNewer` and
`OutrankedHolderIsGone` are proved under the premise that no pid is given twice,
which the system does not promise; `InstanceLockRecycled.cfg` shows that it is needed.
`ArbitrationIsOwnership` is the refinement: each step takes the owner, gives it up, or
is a stutter. `JudgementStaysTrue` says that a contender about to signal still
out-ranks the record it read. `OnlyRecyclingMisleads` is the counterpart of 6.5: with
different pids the second verification is right.

**OneshotRestartProofs.** `LeasesAreCounted` (the counter is the number of
handlers between their increment and their drop: an argument about cardinalities),
`ReadsAreSound` (what the supervisor read first still says something when it has
read the second: this is where the order of the increments matters),
`MutexDiscipline`, `GenerationsGrow`, `FiredLast`. `TypeOK` includes that the
unsigned counter never goes below zero. Two theorems are about properties no run
lists: `FlagIsTrue` (outside the critical sections the flag of the gates says whether a
restart is in flight) and `DrainIsBounded` (a waiting supervisor has its drain
deadline armed exactly for a restart it has seen). `RestartsAreKept` is the refinement
of `RestartPromise`: only `Request` accepts, only an abort before the exit gives up,
only the exit hands over, when the supervisor that could abort has ended. `OnlyLateRequestsAreForgotten`
(with `RecordIsTheRestart`) and `OnlyTheTickIsMissed` are the counterparts of 6.7 and 6.6.

**ContentLockProofs.** `LocalsFit` (which locals a task has in which phase),
`StatusesAreCurrent` (nobody knows a generation that has not been, and a reader
that still knows the present generation was admitted by the present value),
`ResetsAreDue` (whoever is about to forget the present grant saw facts that
lapsed since it was made). The argument for `AnswersStayWithinGrant` is that every
change of the value is a new generation, so equal generations mean an equal value.
`OnlyLateNoticesMislead` is the counterpart of 6.9: if whoever resolves a status
publishes it before the next one is resolved (`NoticesTakeTurns`) and no query fails, the
subscribers are told of a lock. Its invariants are `PublishedIsTold` (what was told
last is what was published, or somebody is about to tell) and `LockIsOnItsWay`.

**WsBridgeProofs.** Lemmas first on what `Head` and `Tail`, `Append`, eviction
(`Without`) and concatenation do to the elements and the order of a queue. The
invariant: `LocalsFit`, `CopyCoversTable` (during a dispatch everyone in the table
is in the copy, or came since), and for each subscriber `PartsRise` (the four
parts of its stream rise, each before the next) and `StreamIsOld` (they are older
than an event still to be offered: without it a push could break the order).
`OrderKept` is about the concatenation, hence the lemmas. For `TerminalsSurvive`
the one case that matters is a queue full of terminal events: the others in it and
the new event are an injection of `1..Len` into the later terminals, so these are
at least `Capacity`. `EarlyTopicsAreRestored` says that each new connection
asks for the topics of everyone who did not come during a dispatch; `OnlyLatecomersAreForgotten`
is the counterpart of 6.10, under the premise that nobody subscribes during a
dispatch.

The same module proves about the daemon's side, through `Connection == INSTANCE
WsConnection`: `ConnectionTypes`, for any sizes of the channels; `LeaseIsLast`, that a
lease is given back only when all tasks of the connection have ended;
`MuteKeepsItsLease` and `SilentHeartbeat`, whose premise is the constants of the
code: with an interval shorter than the timeout and a clock that does not leap, the
heartbeat never finds its connection stale, and only a client that is gone, or
has parted by a frame of its own, loses its lease. They are why `ws_heartbeat` finds what it finds.

**SettingsFeedProofs.** The invariant `FeedInv` is `Shape` (what is gone is empty; a
snapshot goes out after the topics are in force), `NumbersAreOld` (no number on its
way is ahead of the revision it stands for) and `WordIsOnItsWay`: if what the
watcher has read of an owner is no longer what is stored, then either a word that
needs no number is under way (a lag somewhere before it, a "refresh", a read
again, the subscription itself) or the newest number is, and it is greater than
the watcher's baseline, so the watcher will not pass over it. Everything else
follows from the last part; it has one step per action and one per owner.
`NothingMissed` is its contraposition. `OnlyAFailedFlushForgets` is the counterpart of
6.11: as long as every failure leaves the file as it was, memory is the file.

**MobileLanProofs.** `MutexIsHeld`, `HostAtRest`, `AimsAtPort` say where the two
tasks are; `FreeShape`, `HeldShape` and `GoneShape` relate the record, the status
and the listeners: with the mutex free the record tells all there is, with the
mutex held the record is empty and the holder's place tells what serves, without
the process nothing does. `OneListener` and `StatusIsTrue` need all of them, since a
status is published in the middle of a reconciliation.

**DaemonRunsProofs.** `OneHolder` (the lock), `MarkerShape` and `MarkerIsOwn` (a
serving run finds its own marker or none, and the marker that a start is about to
overwrite has been reported), `ConsumerHolds` and `HandoverIsTheLast` (a record on
disk was written by a run that has held the profile since the last clear that
succeeded, so what outlives a clear is only what could not be removed), `FilesShape`, and
`OrderlyEndsLeaveNoFile` (a run that has ended in order, and none of whose removals
failed, has left no connection file; theorem `OrderlyEndsAreTidy`).
`CrashIsReported` is proved, as it is stated, about runs whose markers could be
written.

**X11ClipboardProofs.** The invariant `X11Inv` is `WordIsKept` (a change since
the last read began is in the flag, in one of the watcher's two queues, or known to the
read about to begin), `RestsUnflagged` (the watcher does not go to `poll` with the flag
set, unless it is told to stop),
`ReadsHoldNothing` (the worker reads others only while it holds nothing) and
`HeldIsOwned` (what the worker holds is the selection's, or the event that clears it
is in one of its two queues). The last is the one that follows the events through the
kernel's queue and x11rb's. `OnlyStaleLossesEmpty` is the counterpart of 6.2.

*Sole causes.* Where TLC finds that the code does not keep what a comment says
(section 6), a theorem of this kind says what else does not break it: the claim
holds in every behaviour in which one step, named by the premise, does not happen at
the wrong moment.

| theorem | claim | premise | see |
|---|---|---|---|
| `OnlyStaleLossesEmpty` | `OwnedIsServed` | `OwnsCaughtUp`: no loss of the selection is unread when the worker takes it | 6.2 |
| `OnlyRecyclingMisleads` | `RecycledPidIsNotKilled` | `DistinctPids`: no pid is given twice | 6.5 |
| `OnlyTheTickIsMissed` | `AbortsFindLeases`, so that the late abort of `LateAbortIsNoOp` does not come about | `DropsAreSeen`: no lease is dropped between the supervisor's look and its abort | 6.6 |
| `OnlyLateRequestsAreForgotten` | `RestartIsHandedOver`: the record is there, or writing it failed | `RequestsPrecedeTheRecord`: no request after the main loop's look | 6.7 |
| `OnlyLateNoticesMislead` | `SubscribersLearnTheLock` | `NoticesTakeTurns`: no status is resolved before the one before is told, and no query fails | 6.9 |
| `OnlyLatecomersAreForgotten` | `ReconnectRestoresTopics` | `SubscribesBetweenDispatches` | 6.10 |
| `OnlyAFailedFlushForgets` | `AcknowledgedWriteSurvives` | `FailuresLeaveTheFile`: no flush fails after the unlink | 6.11 |

So a repair of that one step repairs the claim. The configurations of section 3 show
that none of the premises can be dropped.

Only model-checked: liveness (`EveryClaimIsAnswered`, `RestartIsSettled`,
`EventsDoNotRest`, `HostCatchesUp`, `LeaseComesBack`, `RequestsAreAnswered`,
`ChangesAreFollowed`, `ShutdownEnds`, `StopIsObeyed`), which is beyond this prover;
and of course the violated properties. Two more properties are
stated in their modules and listed by no run: `IdleDaemonEnds` (OneshotRestart) and
`CancelIsHeeded` (WsBridge).

## 6. Where the code and its comments disagree

Each is a run or a configuration that TLC finds violated, with the shortest trace.

1. *A change of the clipboard may be missed while the watcher reads*
   (`x11_change_lost`). The flag for a change met during a read is set where the read
   waits for events. The requests after the last wait read the socket too, and x11rb
   keeps an event that comes with their reply in its own queue. The watcher then goes to
   `poll` on a silent socket and sleeps until something else happens (`event_loop.rs`,
   `reader.rs`).
2. *A verified write may serve nobody* (`x11_unserved`). A `SelectionClear` for the
   ownership before a write is still queued when the write takes the selection and
   verifies it. `worker_main` then handles it and clears the payloads just
   installed: the worker owns the selection and refuses everyone who pastes.
3. *A client that hangs is not evicted* (`ws_heartbeat`). The heartbeat waits for the
   next tick (30 s) or a deadline (40 s) that each ping starts anew. The tick comes
   first, so a missing pong is never noticed, against `ws.rs:118-119` and `ws.rs:291`,
   `ws.rs:318` and `control_lease.rs:119`. The lease stays until the socket breaks.
4. *A newer daemon may be refused while an older one serves*
   (`InstanceLockTakeover.cfg`). The eviction is decided once, from the PID file as it
   was when the first try failed. If the file was not written yet, or named the
   owner before, the newcomer only waits, and exits `AlreadyRunning`.
5. *The second verification does not know a pid given twice*
   (`InstanceLockRecycled.cfg`). It asks whether the pid lives and runs `uniclipd`; a
   later daemon with that pid passes.
6. *A late abort is not harmless* (`OneshotRestartAbort.cfg`). The drain deadline acts
   on the count read at the top of the loop. If the last lease went in between,
   the accepted restart is forgotten and the daemon then ends without a record.
7. *A restart accepted too late is not handed over* (`OneshotRestartLate.cfg`).
   Between the main loop's look at the coordinator and the end of the server, a
   request is still answered 202. (A write of the record that fails is only logged,
   `host.rs:515-517`, and loses the restart as well; the property names that case and
   is about the others.)
8. *A lost session does not always advance the generation* (`ContentLockStale.cfg`).
   `observe` compares the published boolean only. A session lost, resumed, and
   lost again before the watcher looks is no change, and an answer admitted in
   between leaves after the loss has been noticed.
9. *Subscribers may be left with "unlocked"* (`ContentLockSubscribers.cfg`). An
   unlock resolves its status, the session is locked and that is published, and
   then the unlock publishes what it had resolved, under the same generation.
10. *A latecomer may be lost* (`WsBridgeTopics.cfg`). `dispatch_event` assigns the
    survivors of its copy to the table. Who subscribed meanwhile is in no table any
    more: it gets nothing and its topics are not asked for again. The one caller in
    this repository subscribes before it runs the bridge, so it takes a second
    subscriber to see this.
11. *A reset that failed may still be what a restart finds*
    (`SettingsFeedReset.cfg`). `remove_product_file` unlinks the file and then flushes
    the directory; if the flush fails, the reset is answered with an error and memory
    stays, while the file is gone: after a restart the settings an earlier write had
    acknowledged are the defaults. ADR-013 F13 says "the written value is kept".
12. *A stalled phone stalls the shutdown* (`MobileLanStalled.cfg`). `server.rs:14` of
    `mobile_lan` speaks of a drain of at most 5 s and `timing.rs:18` derives the
    budgets of the whole chain from bounded joins; the join of the drained listener
    has no deadline, so a request that does not end holds the mutex, and with it
    every later reconciliation and the teardown. The same phone holds up the exit for a
    restart (`RestartIsSettled`), the engine events behind the reconciliation
    (`HostCatchesUp`) and a stop that was accepted (`StopIsObeyed`); hence the
    assumptions named in section 4.
13. *A SIGTERM may be swallowed* (`DaemonRunsSignal.cfg`). Between the select of the
    startup and the one of the running service nobody listens, while the handler is
    installed. `graceful_other.go:10` relies on SIGTERM to run the shutdown, and
    nothing on this side sends a second signal.

Smaller ones, not worth a run: `live.rs:53` of the quick panel says a lock must
never be dropped because a queue is full, and waits for room in its own queue,
while the bridge in front of it drops the same event when its queue is full
(`is_terminal_event` covers `PairingFailed` only; the design also names
verification and completion); `process_metadata.rs:89` calls `started_at_ms`
diagnostics only while the ranking uses it; `instance_lock.rs:195` says a holder
of an equal version is left alone while a later start evicts it; `handover.rs:22`
says nobody writes a record yet; `server.rs` announces the content-lock watcher
as revoking the grant of a client that is gone, which it no longer does;
`reader.rs:219` (X11) clears the property so that a stale value cannot confuse a read,
while the late answer to a conversion that timed out (same window, selection
and target) is accepted by the next one; requests to paste that the worker's own
round trips read into x11rb's queue wait, as in 1, for its next event.

## 7. What is not modelled

Of the bridge: `BridgeState`, which only displays where `run` is; `run_until_idle`,
for tests; the decoding of events, of which those that fail are passed over; the
order of the table, since subscribers do not meet. The topics of one who
subscribes while a connection is up are asked for at the next one, as in the code.

In InstanceLock, OneshotRestart and ContentLock: I/O errors of the lock and PID file; a
SIGKILL that does not take (a process in uninterruptible sleep); the answers for a
platform without the lock or with takeover disabled beyond "refused"; foreign
processes that have a recorded pid (they count as absent, as the check of the
executable makes them); a wall clock set back; Windows, where a request to stop is a
termination. In InstanceLock a daemon whose SIGTERM was swallowed is one that hangs;
DaemonRuns has the swallowing itself. Generations of 64 bits do not wrap. The engine's
answer "not resumed" to a resume changes nothing and is left out; the table of routes
is data.

In SettingsFeed: contents of documents, so a write of equal values, which changes
nothing, is no step. Channels overflow by the settings' own
events or in a `Burst` of others.

In WsConnection: admission, the token, and the content gate in front of an event,
which answers from the lock's status without waiting for anybody in this module. An
event gated by a status that changes before it is sent is a hazard of the code no
property here covers.

In MobileLan: reporting a status to the engine never fails, and the event stream is
overrun only in a `Burst`; the routes behind the listener are left out.
`ChangesAreFollowed` promises nothing of a change made while the daemon starts, when
the host's initial target may be older than the forwarder's, nor after a failed query or
bind, nor of one that an overrun of the stream lost. In DaemonRuns: the two calls of the crash marker that nobody makes; a loss of power,
after which files that were written and not synced may be gone (`handover.rs` disclaims
it, and the marker is not synced either), so a `Kill` is the end of a process only; the
residency a spawner reads from the record; handlers of signals that cannot be
installed; an HTTP service that publishes its file after its join was given up.

In X11Clipboard: contents and formats beyond one representation, INCR transfers and
`PRIMARY`; errors of the X connection; the caller of a request, who may give up after
5 s while the request is still executed. The platforms Windows, macOS and Wayland have
their own watchers, which rest on libraries this repository does not hold.

Components left out altogether are listed in `PROJECT.json` with the reason. Most of
the repository is out of reach of such models, and stays so: user interfaces (React,
Go, the quick panel) show what the daemon tells them; the DTOs, routes and contracts
are data; the developer tool, the benchmarks and the command line are sequences of
requests; conversions of clipboard formats are functions on bytes. They share no state
with anybody but through the surfaces modelled here, and a module of theirs would say
nothing that could go wrong. The sync engine, where the rest of the concurrency lives,
is external: its answers are nondeterministic in every module. So the lines the models
stand for are a small part of the whole; they were chosen because the order of steps
matters there.

## 8. What could come next

1. `Promotion`: spawners, successor and handover record across processes, over
   `ProfileOwnership` and an abstract restart of `OneshotRestart`: the intended
   residency is started, or somebody is told it was not. Needs the two clients
   (`daemonlife`, `local_daemon.rs`) and `spawn.rs`, where a stale record overrides the
   residency asked for.
2. The sole causes of 6.4 and 6.8; that `should_evict_holder` is a total order on runs
   with different pids, whatever the clocks.
3. The capture of the clipboard between the watchers and the engine's queue, and the
   migration of the secure storage with a crash between its steps.
