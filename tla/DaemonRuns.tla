----------------------------- MODULE DaemonRuns -----------------------------
(***************************************************************************)
(* The runs of one profile's daemon, one process after another (host.rs):  *)
(* what a run leaves on disk for the next - the start marker and the       *)
(* report of the last abnormal exit (crash_marker.rs), the record of a     *)
(* handover (handover.rs), the connection files - and how a run is asked   *)
(* to stop.  A process may be killed between any two steps.                *)
(*                                                                         *)
(* The instance lock is taken and released as InstanceLock shows; a        *)
(* oneshot run comes to its end as OneshotRestart shows.  Left out: that   *)
(* the handlers of the signals cannot be installed, and that the HTTP      *)
(* service still publishes its file after the join of it was given up.     *)
(***************************************************************************)
EXTENDS Naturals, FiniteSets

CONSTANT MaxRuns   \* bound: processes spawned in a behaviour

ASSUME RunsAssumption == MaxRuns \in Nat \ {0}

Runs == 1..MaxRuns
Nobody == 0

VARIABLES
  phase,        \* where a process stands
  consumers,    \* history: the run that last cleared the record, and the runs that
                \* held the profile after it and could not
  marker,       \* the run the start marker names (daemon-run.json)
  handover,     \* the run that wrote the handover record
  startupConn,  \* the run the startup connection file names
  daemonConn,   \* the run the connection file names
  http,         \* a run's HTTP service: down, up or failed
  stop,         \* runs whose startup stop token is cancelled
  graceful,     \* runs with a permit stored in graceful_stop_requested
  heard,        \* runs with a signal their select has not yet taken
  termed,       \* history: runs sent a SIGTERM while they were at work
  crashed,      \* history: runs killed while they served
  spared,       \* history: runs whose start marker was removed as clean
  told,         \* the runs daemon-last-exit.json has named, one after another
  unmarked,     \* history: runs that could not write their marker
  untidy        \* history: runs a connection file may still name, since they were
                \* killed or could not remove one

asked == <<stop, graceful, heard, termed>>
files == <<marker, handover, startupConn, daemonConn>>
history == <<crashed, spared, told, unmarked, untidy>>
vars == <<phase, consumers, marker, handover, startupConn, daemonConn,
          http, stop, graceful, heard, termed, crashed, spared, told, unmarked,
          untidy>>

Phases == {"none", "waiting", "claimed", "preparing", "starting", "refused", "settling",
           "marking", "launching", "running", "stopping",
           "closing", "breaking", "lingering", "quitting", "dead"}

Alive(p) == phase[p] \notin {"none", "dead"}
Holds(p) == Alive(p) /\ phase[p] # "waiting"

\* The selects that wait for a signal; before the first of them the signal has
\* its default effect, between two of them nobody is told.
Unhandled == {"waiting", "claimed", "preparing"}
Listening == {"starting", "refused", "running", "lingering"}

Init ==
  /\ phase = [p \in Runs |-> "none"]
  /\ consumers = {}
  /\ marker = Nobody /\ handover = Nobody
  /\ startupConn = Nobody /\ daemonConn = Nobody
  /\ http = [p \in Runs |-> "down"]
  /\ stop = {} /\ graceful = {} /\ heard = {} /\ termed = {}
  /\ crashed = {} /\ spared = {} /\ told = {} /\ unmarked = {} /\ untidy = {}

Goto(p, place) == phase' = [phase EXCEPT ![p] = place]

\* A process ends, and with it all that it kept in memory.
Die(p) ==
  /\ Goto(p, "dead")
  /\ http' = [http EXCEPT ![p] = "down"]
  /\ stop' = stop \ {p} /\ graceful' = graceful \ {p}
  /\ heard' = heard \ {p} /\ termed' = termed \ {p}

-----------------------------------------------------------------------------
(* Starting.                                                               *)

\* spawn_detached_daemon.  The pending handover it reads is a hint for the run mode
\* and changes nothing here.
Spawn(p) ==
  /\ phase[p] = "none" /\ \A q \in Runs : q < p => phase[q] # "none"
  /\ Goto(p, "waiting")
  /\ UNCHANGED <<consumers, files, http, asked, history>>

\* A slip: the lock is free once the run has stopped serving.
ClaimEarly(p) ==
  /\ phase[p] = "waiting"
  /\ \A q \in Runs : Holds(q) => phase[q] = "quitting"
  /\ Goto(p, "claimed")
  /\ UNCHANGED <<consumers, files, http, asked, history>>

Claim(p) ==
  /\ phase[p] = "waiting"
  /\ \A q \in Runs : ~Holds(q)
  /\ Goto(p, "claimed")
  /\ UNCHANGED <<consumers, files, http, asked, history>>

\* A slip: the record is cleared before the lock is taken.
ClearBeforeLock(p) ==
  \/ /\ phase[p] = "waiting" /\ p \notin consumers
     /\ handover' = Nobody /\ consumers' = {p}
     /\ UNCHANGED <<phase, marker, startupConn, daemonConn, http, asked, history>>
  \/ /\ phase[p] = "claimed"
     /\ Goto(p, "preparing")
     /\ UNCHANGED <<consumers, files, http, asked, history>>

\* handover::clear.  A record that cannot be removed stays, and the run goes on.
ClearHandover(p) ==
  /\ phase[p] = "claimed"
  /\ \/ handover' = Nobody /\ consumers' = {p}
     \/ /\ handover # Nobody /\ UNCHANGED handover
        /\ consumers' = consumers \cup {p}
  /\ Goto(p, "preparing")
  /\ UNCHANGED <<marker, startupConn, daemonConn, http, asked, history>>

\* Tracing, the host, the PID file or the startup service cannot be set up.
PreparingFails(p) ==
  /\ phase[p] = "preparing"
  /\ Die(p)
  /\ UNCHANGED <<consumers, files, history>>

BindStartup(p) ==
  /\ phase[p] = "preparing"
  /\ startupConn' = p /\ untidy' = untidy \cap {daemonConn}
  /\ Goto(p, "starting")
  /\ UNCHANGED <<consumers, marker, handover, daemonConn, http, asked,
                 crashed, spared, told, unmarked>>

\* The engine has started.  The select is not biased: a signal that came at the
\* same time is dropped with the future that waited for it.
EngineStarted(p) ==
  /\ phase[p] = "starting"
  /\ heard' = heard \ {p}
  /\ Goto(p, "settling")
  /\ UNCHANGED <<consumers, files, http, stop, graceful, termed, history>>

EngineFails(p) ==
  /\ phase[p] = "starting"
  /\ heard' = heard \ {p}
  /\ Goto(p, "refused")
  /\ UNCHANGED <<consumers, files, http, stop, graceful, termed, history>>

\* Asked to stop while the engine starts: the start is awaited, then released.
Abandon(p) ==
  /\ phase[p] = "starting" /\ p \in stop \cup heard
  /\ Goto(p, "quitting")
  /\ UNCHANGED <<consumers, files, http, asked, history>>

\* The failed start stays readable until a signal, a retry or a stop.
LeaveRefusal(p) ==
  /\ phase[p] = "refused" /\ p \in stop \cup heard
  /\ Goto(p, "quitting")
  /\ UNCHANGED <<consumers, files, http, asked, history>>

RetryAsked(p) ==
  /\ phase[p] = "refused"
  /\ Goto(p, "quitting")
  /\ UNCHANGED <<consumers, files, http, asked, history>>

\* The token cannot be read: the surfaces fail before the run is marked.
TokenFails(p) ==
  /\ phase[p] = "settling"
  /\ Goto(p, "lingering")
  /\ UNCHANGED <<consumers, files, http, asked, history>>

-----------------------------------------------------------------------------
(* The markers.                                                            *)

\* A slip: the report names the run that detects, not the one that died.
DetectAsOwn(p) ==
  /\ phase[p] = "settling"
  /\ IF marker = Nobody
       THEN UNCHANGED told
       ELSE told' = told \cup {p}
  /\ Goto(p, "marking")
  /\ UNCHANGED <<consumers, marker, handover, startupConn, daemonConn, http, asked,
                 crashed, spared, unmarked, untidy>>

\* begin_run, first half: a surviving start marker is reported as a crash.
Detect(p) ==
  /\ phase[p] = "settling"
  /\ IF marker = Nobody
       THEN UNCHANGED told
       ELSE told' = told \cup {marker}
  /\ Goto(p, "marking")
  /\ UNCHANGED <<consumers, marker, handover, startupConn, daemonConn, http, asked,
                 crashed, spared, unmarked, untidy>>

\* A slip: a start marker that is already there is left alone.
MarkOnce(p) ==
  /\ phase[p] = "marking"
  /\ marker' = IF marker = Nobody THEN p ELSE marker
  /\ Goto(p, "launching")
  /\ UNCHANGED <<consumers, handover, startupConn, daemonConn, http, asked,
                 history>>

\* begin_run, second half: this run's own marker is written.
Mark(p) ==
  /\ phase[p] = "marking"
  /\ marker' = p
  /\ Goto(p, "launching")
  /\ UNCHANGED <<consumers, handover, startupConn, daemonConn, http, asked,
                 history>>

\* Neither write stops the start when it fails.
MarkFails(p) ==
  /\ \/ phase[p] = "settling" /\ marker # Nobody
     \/ phase[p] = "marking"
  /\ unmarked' = unmarked \cup {p}
  /\ Goto(p, "launching")
  /\ UNCHANGED <<consumers, files, http, asked, crashed, spared, told,
                 untidy>>

\* mark_clean_exit removes the start marker, whichever run it names.
RemoveMarker(p) ==
  /\ marker' = Nobody /\ spared' = spared \cup {p}
  /\ UNCHANGED <<handover, startupConn, daemonConn, crashed, told, unmarked, untidy>>

KeepMarker == UNCHANGED <<files, history>>

-----------------------------------------------------------------------------
(* Running.                                                                *)

\* The HTTP service binds and publishes its connection file.
HttpUp(p) ==
  /\ phase[p] \in {"launching", "running", "stopping"} /\ http[p] = "down"
  /\ http' = [http EXCEPT ![p] = "up"]
  /\ daemonConn' = p /\ untidy' = untidy \cap {startupConn}
  /\ UNCHANGED <<phase, consumers, marker, handover, startupConn, asked,
                 crashed, spared, told, unmarked>>

\* It cannot bind or publish, or it ends although nobody cancelled it.
HttpFails(p) ==
  /\ phase[p] \in {"launching", "running"} /\ http[p] \in {"down", "up"}
  /\ http' = [http EXCEPT ![p] = "failed"]
  /\ UNCHANGED <<phase, consumers, files, asked, history>>

\* The select of the running service is reached.
EnterService(p) ==
  /\ phase[p] = "launching"
  /\ Goto(p, "running")
  /\ UNCHANGED <<consumers, files, http, asked, history>>

\* POST /lifecycle/graceful-stop: the marker first, then the notification,
\* whose permit waits for the select.  Removing the marker may fail.
GracefulStop(p) ==
  /\ phase[p] \in {"launching", "running", "stopping"} /\ http[p] = "up"
  /\ RemoveMarker(p) \/ KeepMarker
  /\ graceful' = graceful \cup {p}
  /\ UNCHANGED <<phase, consumers, http, stop, heard, termed>>

\* A slip: the run ends on a signal and on the notification alone.
EndRunUnlessOwned(p) ==
  /\ phase[p] = "running" /\ p \in graceful \cup heard
  /\ Goto(p, "stopping")
  /\ UNCHANGED <<consumers, files, http, asked, history>>

\* The select takes a stop, a signal or the notification.
EndRun(p) ==
  /\ phase[p] = "running" /\ p \in stop \cup graceful \cup heard
  /\ Goto(p, "stopping")
  /\ UNCHANGED <<consumers, files, http, asked, history>>

\* A oneshot run has drained; it writes the handover when a restart is pending.
Drained(p) ==
  /\ phase[p] = "running"
  /\ handover' \in {handover, p}
  /\ Goto(p, "stopping")
  /\ UNCHANGED <<consumers, marker, startupConn, daemonConn, http, asked,
                 history>>

\* The select takes the end of the HTTP service.
HttpLost(p) ==
  /\ phase[p] = "running" /\ http[p] = "failed"
  /\ Goto(p, "breaking")
  /\ UNCHANGED <<consumers, files, http, asked, history>>

-----------------------------------------------------------------------------
(* Stopping.                                                               *)

\* Removes a file, whichever run it names: it goes, or it stays and p has left it.
\* One that is not there counts as removed.
Remove(p, file) ==
  \/ file' = Nobody /\ UNCHANGED untidy
  \/ /\ file # Nobody /\ UNCHANGED file
     /\ untidy' = untidy \cup {p}

\* A slip: a service that failed is reported before its file is removed.
WithdrawUnlessFailed(p) ==
  /\ \/ phase[p] = "stopping" /\ Goto(p, "closing") /\ Remove(p, daemonConn)
     \/ phase[p] = "breaking" /\ Goto(p, "lingering") /\ UNCHANGED <<daemonConn, untidy>>
  /\ http' = [http EXCEPT ![p] = IF @ = "up" THEN "down" ELSE @]
  /\ UNCHANGED <<consumers, marker, handover, startupConn, asked, crashed, spared,
                 told, unmarked>>

\* The tasks are cancelled, the listener for phones disabled, the HTTP service
\* joined, and the connection file is removed; after a failure of the service
\* the engine is released as well.
Withdraw(p) ==
  /\ \/ phase[p] = "stopping" /\ Goto(p, "closing")
     \/ phase[p] = "breaking" /\ Goto(p, "lingering")
  /\ Remove(p, daemonConn)
  /\ http' = [http EXCEPT ![p] = IF @ = "up" THEN "down" ELSE @]
  /\ UNCHANGED <<consumers, marker, handover, startupConn, asked, crashed, spared,
                 told, unmarked>>

MarkClean(p) ==
  /\ phase[p] = "closing"
  /\ RemoveMarker(p) \/ KeepMarker
  /\ Goto(p, "quitting")
  /\ UNCHANGED <<consumers, http, asked>>

\* A service that failed stays readable until a signal or a stop.
LeaveLingering(p) ==
  /\ phase[p] = "lingering" /\ p \in stop \cup heard
  /\ Goto(p, "quitting")
  /\ UNCHANGED <<consumers, files, http, asked, history>>

\* The engine is released, the startup service shut down and its file removed;
\* the process ends and with it the lock.
Quit(p) ==
  /\ phase[p] = "quitting"
  /\ Remove(p, startupConn)
  /\ Die(p)
  /\ UNCHANGED <<consumers, marker, handover, daemonConn, crashed, spared, told,
                 unmarked>>

-----------------------------------------------------------------------------
(* From outside.                                                           *)

\* POST /startup/stop, served from the bind until the startup service is shut.
AskStop(p) ==
  /\ Holds(p) /\ phase[p] \notin {"claimed", "preparing", "quitting"} /\ p \notin stop
  /\ stop' = stop \cup {p}
  /\ UNCHANGED <<phase, consumers, files, http, graceful, heard, termed, history>>

\* A SIGTERM: it ends a process that has no handler yet, wakes the select that
\* waits for it, and is lost between two of them.
Signal(p) ==
  /\ Alive(p) /\ p \notin termed
  /\ IF phase[p] \in Unhandled
       THEN Die(p) /\ untidy' = untidy \cup ({p} \cap {startupConn, daemonConn})
       ELSE /\ termed' = termed \cup {p}
            /\ heard' = IF phase[p] \in Listening THEN heard \cup {p} ELSE heard
            /\ UNCHANGED <<phase, http, stop, graceful, untidy>>
  /\ UNCHANGED <<consumers, files, crashed, spared, told, unmarked>>

Serving == {"launching", "running", "stopping", "closing"}

\* A SIGKILL or an abort of the process: what it has written stays written, which
\* the loss of power would not promise of files nobody flushes.
Kill(p) ==
  /\ Alive(p)
  /\ crashed' = IF phase[p] \in Serving /\ p \notin unmarked \cup spared
                  THEN crashed \cup {p} ELSE crashed
  /\ untidy' = untidy \cup ({p} \cap {startupConn, daemonConn})
  /\ Die(p)
  /\ UNCHANGED <<consumers, files, spared, told, unmarked>>

\* What a process does of itself, a step at a time.
Start(p) ==
  \/ Claim(p) \/ ClearHandover(p) \/ PreparingFails(p) \/ BindStartup(p)
  \/ Abandon(p) \/ LeaveRefusal(p) \/ TokenFails(p)
  \/ Detect(p) \/ Mark(p) \/ MarkFails(p)

End(p) == EndRun(p) \/ HttpLost(p) \/ MarkClean(p) \/ LeaveLingering(p)

\* What it does once something it awaits without a deadline has come to an end:
\* the start of the engine, the listener for phones - which may first have to
\* stop -, the requests of the startup service and the release of the engine.
Await(p) ==
  \/ EngineStarted(p) \/ EngineFails(p) \/ EnterService(p) \/ Withdraw(p) \/ Quit(p)

Environment(p) ==
  \/ Spawn(p) \/ RetryAsked(p) \/ HttpUp(p) \/ HttpFails(p) \/ GracefulStop(p)
  \/ Drained(p) \/ AskStop(p) \/ Signal(p) \/ Kill(p)

Next == \E p \in Runs : Start(p) \/ End(p) \/ Await(p) \/ Environment(p)

\* Processes are scheduled and their own steps end; the calls from outside, the
\* failures of the HTTP service and the drain of the leases need not come.  A
\* process never returns to a place it has left, so that fairness to all of them
\* together is fairness to each.
Fairness == WF_vars(\E p \in Runs : Start(p) \/ End(p))

Spec == Init /\ [][Next]_vars /\ Fairness

\* An assumption the code does not guarantee: what is awaited without a deadline
\* ends.  MobileLan shows what a phone that keeps a request open does to it.
AwaitsEnd == WF_vars(\E p \in Runs : Await(p))

AwaitingSpec == Spec /\ AwaitsEnd

-----------------------------------------------------------------------------
\* Every variable has its type.
TypeOK ==
  /\ phase \in [Runs -> Phases]
  /\ {marker, handover, startupConn, daemonConn} \subseteq 0..MaxRuns
  /\ http \in [Runs -> {"down", "up", "failed"}]
  /\ \A group \in {consumers, stop, graceful, heard, termed, crashed, spared, told,
                   unmarked, untidy} : group \subseteq Runs

\* The crash of a run that served is not forgotten: until a report has named
\* it, its marker is there to be found, also when the next run dies between the
\* two writes of begin_run - as long as no run failed to write its own
\* (crash_marker.rs, "a start marker that survives into the next boot").
CrashIsReported ==
  unmarked = {} => \A r \in crashed : marker = r \/ r \in told

\* A run whose marker was removed as clean is never reported, even when it is
\* killed in the shutdown that follows (lifecycle.rs, graceful_stop_handler).
NoFalseAlarm == told \cap spared = {}

\* A handover on disk was written by a run that has held the profile since the
\* record was last cleared: what a clear removed, and what ran before it, never
\* comes back, and a record grows old only while it cannot be cleared
\* (handover.rs, "clear (NEW daemon)", under the instance lock).
HandoverIsTheLast == handover = Nobody \/ handover \in consumers

\* A run that serves is the one the files lead to, whatever the runs before it
\* still remove on their way out (host.rs, startup.rs and the instance lock).
FilesLeadHere ==
  \A p \in Runs :
    /\ phase[p] \in {"starting", "refused", "running"} => startupConn = p
    /\ phase[p] = "running" /\ http[p] = "up" => daemonConn = p

\* A run that came to an end of itself has left no connection file that names
\* it, whatever failed on the way and however late the service published its
\* file - unless it could not remove one (host.rs, "a graceful exit must not leave
\* a stale connection file behind"; StartupServer::shutdown).
OrderlyEndsLeaveNoFile ==
  \A p \in Runs : phase[p] = "dead" /\ p \notin untidy => p \notin {startupConn, daemonConn}

\* Again and again no request to stop is outstanding.  A process comes back to no
\* place, so none is outstanding for ever: a run asked to stop through its
\* startup service ends, and the token stays cancelled until a select looks at it
\* (startup.rs, stop_owned_run; host.rs, the selects).  A graceful stop that was
\* accepted ends at least the service, whose failure may be taken in its place
\* (lifecycle.rs, perform_graceful_stop).  Only under AwaitsEnd.
StopIsObeyed ==
  []<>(\A p \in stop \cup graceful : phase[p] = "lingering" /\ p \notin stop)

\* A daemon sent a SIGTERM runs its shutdown
\* (packages/desktop-host-go/daemonproc/graceful_other.go).
SignalIsObeyed == \A p \in Runs : p \in termed ~> phase[p] = "dead"

-----------------------------------------------------------------------------
(* What makes the safety properties inductive.                             *)

\* The instance lock: one process at a time is past the claim.
OneHolder == \A p, q \in Runs : Holds(p) /\ Holds(q) => p = q

\* The places before the start marker is written.
Unmarking == {"none", "waiting", "claimed", "preparing", "starting", "refused",
              "settling", "marking"}

\* The marker names a run that wrote it and was not spared; a report only ever
\* names the dead.
MarkerShape ==
  /\ \A r \in Runs : marker = r => phase[r] \notin Unmarking /\ r \notin spared
  /\ \A r \in spared : phase[r] \notin Unmarking
  /\ \A r \in told \cup crashed : phase[r] = "dead"

\* While every write succeeds, a serving run finds its own marker or none, and
\* the marker a start is about to overwrite has been reported.
MarkerIsOwn ==
  \A p \in Runs :
    /\ phase[p] \in Serving /\ p \notin unmarked =>
         marker \in {p, Nobody} /\ (p \notin spared => marker = p)
    /\ phase[p] = "marking" => marker = Nobody \/ marker \in told

\* The run that holds the profile is among the consumers, once it has tried.
ConsumerHolds == \A p \in Runs : Holds(p) /\ phase[p] # "claimed" => p \in consumers

\* The connection files name the holder from the time it publishes them.
FilesShape ==
  \A p \in Runs :
    /\ Holds(p) /\ phase[p] \notin {"claimed", "preparing"} => startupConn = p
    /\ phase[p] \in {"launching", "running", "stopping"} /\ http[p] = "up" => daemonConn = p
    /\ phase[p] \in Unmarking => http[p] = "down" /\ daemonConn # p
    /\ phase[p] \in {"none", "waiting", "claimed", "preparing"} => startupConn # p
    /\ phase[p] \in {"closing", "lingering", "quitting"} => daemonConn # p \/ p \in untidy

RunsInv ==
  /\ TypeOK /\ OneHolder /\ MarkerShape /\ NoFalseAlarm /\ MarkerIsOwn
  /\ CrashIsReported /\ ConsumerHolds /\ HandoverIsTheLast
  /\ FilesShape /\ OrderlyEndsLeaveNoFile
=============================================================================
