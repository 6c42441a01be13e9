----------------------------- MODULE MobileLan -----------------------------
(***************************************************************************)
(* The listener that mobile devices reach over the local network: one      *)
(* controller (mobile_lan_lifecycle.rs) is driven by two tasks of the      *)
(* daemon, the host, which applies the target it reads at startup and      *)
(* disables the listener at shutdown, and the forwarder of engine events,  *)
(* which applies every change of the settings.  A reconciliation holds the *)
(* controller's mutex across every await it makes.                         *)
(*                                                                         *)
(* The engine is outside src/: it stores the settings, emits an event for  *)
(* each change, answers a query (or fails to) and keeps the endpoint       *)
(* status it is told.  A burst of other events stands for the overflow of  *)
(* its bounded event channel.                                              *)
(***************************************************************************)
EXTENDS Naturals, Sequences

CONSTANTS
  Ports,      \* the ports a listener may be asked for
  Off,        \* the target, the record or the setting "no listener"
  Host,       \* the task that runs the daemon
  Forwarder,  \* the task that forwards engine events
  MaxWrites   \* bound: changes of the settings in a behaviour

Tasks == {Host, Forwarder}
Targets == Ports \cup {Off}

\* What the engine's event stream may hold: a change of the settings with the
\* target it asks for, a recovery of the profile, the report of a lag.
Change(t) == [kind |-> "change", target |-> t]
Recovery == [kind |-> "recovery", target |-> Off]
Refresh == [kind |-> "refresh", target |-> Off]
Events == [kind : {"change", "recovery", "refresh"}, target : Targets]

Stopped == [kind |-> "stopped", port |-> Off]
Failed == [kind |-> "failed", port |-> Off]
Listening(p) == [kind |-> "listening", port |-> p]
Statuses == {Stopped, Failed} \cup {Listening(p) : p \in Ports}

ASSUME ConstantsAssumption ==
  /\ Off \notin Ports
  /\ Host # Forwarder /\ Off \notin Tasks
  /\ MaxWrites \in Nat

VARIABLES
  wanted,     \* the target the stored settings ask for
  writes,     \* how often the settings were changed
  recovered,  \* whether the profile has recovered in this run
  events,     \* the event stream the forwarder reads
  phase,      \* the host: starting, running, stopping, leaving, gone
  cancelled,  \* the cancellation token of the run
  serving,    \* whether the forwarder still reads events
  work,       \* where a task stands in a query or a reconciliation
  target,     \* the target the task is about to reach
  lock,       \* the holder of the controller's mutex, or Off
  record,     \* the controller's Option<RunningListener>
  server,     \* the listener task of a port: none, listening or draining
  busy,       \* whether a phone's request to that port is in flight
  status,     \* the endpoint status the engine was last told
  owed        \* history: a change made while running, nothing failed since

settings == <<wanted, writes, recovered>>
life == <<phase, cancelled, serving>>
controller == <<lock, record>>
vars == <<wanted, writes, recovered, events, phase, cancelled, serving, work,
          target, lock, record, server, busy, status, owed>>

\* The places at which a task is inside reconcile with the mutex held.
Inside == {"drain", "joined", "bind", "bound", "failed"}

Init ==
  /\ wanted \in Targets /\ writes = 0 /\ recovered = FALSE
  /\ events = <<>>
  /\ phase = "starting" /\ cancelled = FALSE /\ serving = TRUE
  /\ work = [t \in Tasks |-> IF t = Host THEN "ask" ELSE "rest"]
  /\ target = [t \in Tasks |-> Off]
  /\ lock = Off /\ record = Off
  /\ server = [p \in Ports |-> "none"] /\ busy = [p \in Ports |-> FALSE]
  /\ status = Stopped
  /\ owed = FALSE

Alive == phase # "gone"

\* The settings are changed: the engine stores them and emits the change.
Write(t) ==
  /\ Alive /\ writes < MaxWrites /\ t # wanted
  /\ wanted' = t /\ writes' = writes + 1
  /\ events' = Append(events, Change(t))
  /\ owed' = (phase = "running")
  /\ UNCHANGED <<recovered, life, work, target, controller, server, busy, status>>

\* The engine reports that the profile has recovered and is ready.
Recover ==
  /\ Alive /\ ~recovered
  /\ recovered' = TRUE
  /\ events' = Append(events, Recovery)
  /\ UNCHANGED <<wanted, writes, life, work, target, controller, server, busy,
                 status, owed>>

\* A burst of other events overruns the stream: what it held is lost and the
\* forwarder reads the report of the lag instead.
Burst ==
  /\ Alive /\ events # <<>>
  /\ events' = <<Refresh>>
  /\ owed' = FALSE
  /\ UNCHANGED <<settings, life, work, target, controller, server, busy, status>>

Goto(t, place) == work' = [work EXCEPT ![t] = place]

\* The forwarder takes the next event.  Its select is not biased: it may take
\* one although the run is cancelled.
TakeChange ==
  /\ Alive /\ serving /\ work[Forwarder] = "rest"
  /\ events # <<>> /\ Head(events).kind = "change"
  /\ events' = Tail(events)
  /\ target' = [target EXCEPT ![Forwarder] = Head(events).target]
  /\ Goto(Forwarder, "wait")
  /\ UNCHANGED <<settings, life, controller, server, busy, status, owed>>

TakeRecovery ==
  /\ Alive /\ serving /\ work[Forwarder] = "rest"
  /\ events # <<>> /\ Head(events).kind = "recovery"
  /\ events' = Tail(events)
  /\ Goto(Forwarder, "ask")
  /\ UNCHANGED <<settings, life, target, controller, server, busy, status, owed>>

TakeRefresh ==
  /\ Alive /\ serving /\ work[Forwarder] = "rest"
  /\ events # <<>> /\ Head(events).kind = "refresh"
  /\ events' = Tail(events)
  /\ UNCHANGED <<settings, life, work, target, controller, server, busy, status, owed>>

Quit ==
  /\ Alive /\ serving /\ cancelled /\ work[Forwarder] = "rest"
  /\ serving' = FALSE
  /\ UNCHANGED <<settings, events, phase, cancelled, work, target, controller, server,
                 busy, status, owed>>

\* apply_initial_mobile_lan_target: the query is answered, or it fails and the
\* target is no listener.
Asked(t) ==
  /\ Alive /\ work[t] = "ask"
  /\ target' = [target EXCEPT ![t] = wanted]
  /\ Goto(t, "wait")
  /\ UNCHANGED <<settings, events, life, controller, server, busy, status, owed>>

AskFailed(t) ==
  /\ Alive /\ work[t] = "ask"
  /\ target' = [target EXCEPT ![t] = Off]
  /\ Goto(t, "wait")
  /\ owed' = FALSE
  /\ UNCHANGED <<settings, events, life, controller, server, busy, status>>

\* A slip: a listener that runs is taken for the one that is wanted.
ReachedByAny(t) ==
  /\ Alive /\ work[t] = "wait" /\ lock = Off
  /\ record = target[t] \/ (record # Off /\ target[t] # Off)
  /\ Goto(t, "rest")
  /\ UNCHANGED <<settings, events, life, target, controller, server, busy, status, owed>>

\* reconcile: with the mutex taken, the record is compared with the target.
\* Nothing is to be done when they agree, and the mutex is released at once.
Reached(t) ==
  /\ Alive /\ work[t] = "wait" /\ lock = Off
  /\ record = target[t]
  /\ Goto(t, "rest")
  /\ UNCHANGED <<settings, events, life, target, controller, server, busy, status, owed>>

\* stop_locked: the record is taken, the listener told to end and then joined.
Stop(t) ==
  /\ Alive /\ work[t] = "wait" /\ lock = Off
  /\ record # Off /\ record # target[t]
  /\ lock' = t /\ record' = Off
  /\ server' = [server EXCEPT ![record] = "draining"]
  /\ Goto(t, "drain")
  /\ UNCHANGED <<settings, events, life, target, busy, status, owed>>

\* A slip: a listener is started without the mutex.
StartUnlocked(t) ==
  /\ Alive /\ work[t] = "wait"
  /\ record = Off /\ target[t] # Off
  /\ lock' = t
  /\ Goto(t, "bind")
  /\ UNCHANGED <<settings, events, life, target, record, server, busy, status, owed>>

Start(t) ==
  /\ Alive /\ work[t] = "wait" /\ lock = Off
  /\ record = Off /\ target[t] # Off
  /\ lock' = t
  /\ Goto(t, "bind")
  /\ UNCHANGED <<settings, events, life, target, record, server, busy, status, owed>>

\* The join returns once the requests that were in flight have ended.
Joined(t) ==
  /\ Alive /\ work[t] = "drain"
  /\ \E p \in Ports :
       /\ server[p] = "draining" /\ ~busy[p]
       /\ server' = [server EXCEPT ![p] = "none"]
  /\ Goto(t, "joined")
  /\ UNCHANGED <<settings, events, life, target, controller, busy, status, owed>>

\* A slip: the status is published only when nothing is started next.
PublishStoppedLast(t) ==
  /\ Alive /\ work[t] = "joined"
  /\ IF target[t] = Off
       THEN Goto(t, "rest") /\ lock' = Off /\ UNCHANGED status
       ELSE Goto(t, "bind") /\ status' = Stopped /\ UNCHANGED lock
  /\ UNCHANGED <<settings, events, life, target, record, server, busy, owed>>

\* The stop is published; a reconciliation to another port goes on to start it.
PublishStopped(t) ==
  /\ Alive /\ work[t] = "joined"
  /\ status' = Stopped
  /\ IF target[t] = Off
       THEN Goto(t, "rest") /\ lock' = Off
       ELSE Goto(t, "bind") /\ UNCHANGED lock
  /\ UNCHANGED <<settings, events, life, target, record, server, busy, owed>>

\* start_locked: the port is bound and the listener's task spawned.
Bind(t) ==
  /\ Alive /\ work[t] = "bind" /\ server[target[t]] = "none"
  /\ server' = [server EXCEPT ![target[t]] = "listening"]
  /\ Goto(t, "bound")
  /\ UNCHANGED <<settings, events, life, target, controller, busy, status, owed>>

\* Another program holds the port.
BindFails(t) ==
  /\ Alive /\ work[t] = "bind"
  /\ Goto(t, "failed")
  /\ owed' = FALSE
  /\ UNCHANGED <<settings, events, life, target, controller, server, busy, status>>

PublishListening(t) ==
  /\ Alive /\ work[t] = "bound"
  /\ status' = Listening(target[t]) /\ record' = target[t]
  /\ lock' = Off /\ Goto(t, "rest")
  /\ UNCHANGED <<settings, events, life, target, server, busy, owed>>

\* A slip: the failure returns early and keeps the mutex.
PublishFailedHolding(t) ==
  /\ Alive /\ work[t] = "failed"
  /\ status' = Failed
  /\ Goto(t, "rest")
  /\ UNCHANGED <<settings, events, life, target, controller, server, busy, owed>>

PublishFailed(t) ==
  /\ Alive /\ work[t] = "failed"
  /\ status' = Failed
  /\ lock' = Off /\ Goto(t, "rest")
  /\ UNCHANGED <<settings, events, life, target, record, server, busy, owed>>

\* The host has applied its initial target and runs.
Run ==
  /\ phase = "starting" /\ work[Host] = "rest"
  /\ phase' = "running"
  /\ UNCHANGED <<settings, events, cancelled, serving, work, target, controller,
                 server, busy, status, owed>>

\* A signal or a request ends the run: its tasks are cancelled, and the host
\* goes on to disable the listener.
EndRun ==
  /\ phase = "running"
  /\ phase' = "stopping" /\ cancelled' = TRUE
  /\ target' = [target EXCEPT ![Host] = Off]
  /\ Goto(Host, "wait")
  /\ UNCHANGED <<settings, events, serving, controller, server, busy, status, owed>>

Disabled ==
  /\ phase = "stopping" /\ work[Host] = "rest"
  /\ phase' = "leaving"
  /\ UNCHANGED <<settings, events, cancelled, serving, work, target, controller,
                 server, busy, status, owed>>

\* The tasks are joined, each for a bounded time only; the process ends and
\* takes whatever still runs with it.
Leave ==
  /\ phase = "leaving"
  /\ phase' = "gone"
  /\ server' = [p \in Ports |-> "none"] /\ busy' = [p \in Ports |-> FALSE]
  /\ UNCHANGED <<settings, events, cancelled, serving, work, target, controller,
                 status, owed>>

\* A phone sends a request (an upload, say) and has it answered.
Request(p) ==
  /\ Alive /\ server[p] = "listening" /\ ~busy[p]
  /\ busy' = [busy EXCEPT ![p] = TRUE]
  /\ UNCHANGED <<settings, events, life, work, target, controller, server, status, owed>>

Answer(p) ==
  /\ Alive /\ busy[p]
  /\ busy' = [busy EXCEPT ![p] = FALSE]
  /\ UNCHANGED <<settings, events, life, work, target, controller, server, status, owed>>

\* What the user, the engine and the phones do.
World ==
  \/ \E t \in Targets : Write(t)
  \/ Recover
  \/ Burst
  \/ \E p \in Ports : Request(p) \/ Answer(p)

Take == TakeChange \/ TakeRecovery \/ TakeRefresh

Reconcile(t) ==
  \/ Asked(t) \/ AskFailed(t)
  \/ Reached(t) \/ Stop(t) \/ Start(t)
  \/ Joined(t) \/ PublishStopped(t)
  \/ Bind(t) \/ BindFails(t) \/ PublishListening(t) \/ PublishFailed(t)

HostStep == Run \/ Disabled \/ Leave

Next ==
  \/ World
  \/ Take \/ Quit
  \/ \E t \in Tasks : Reconcile(t)
  \/ HostStep \/ EndRun

\* The runtime schedules every task that can go on, and the mutex, which
\* serves its waiters in order, is granted to each of the two in turn.
Fairness ==
  /\ WF_vars(Take \/ Quit)
  /\ WF_vars(HostStep)
  /\ \A t \in Tasks : SF_vars(Reconcile(t))

Spec == Init /\ [][Next]_vars /\ Fairness

\* Phones that always bring a request to its end.
PhonesFinish == \A p \in Ports : WF_vars(Answer(p))

FinishingSpec == Spec /\ PhonesFinish

-----------------------------------------------------------------------------
\* Every variable has its type.
TypeOK ==
  /\ wanted \in Targets /\ writes \in 0..MaxWrites /\ recovered \in BOOLEAN
  /\ events \in Seq(Events)
  /\ phase \in {"starting", "running", "stopping", "leaving", "gone"}
  /\ cancelled \in BOOLEAN /\ serving \in BOOLEAN /\ owed \in BOOLEAN
  /\ work \in [Tasks -> {"rest", "ask", "wait"} \cup Inside]
  /\ target \in [Tasks -> Targets]
  /\ lock \in Tasks \cup {Off}
  /\ record \in Targets
  /\ server \in [Ports -> {"none", "listening", "draining"}]
  /\ busy \in [Ports -> BOOLEAN]
  /\ status \in Statuses

\* At no time do two listeners serve, whichever tasks reconcile: the one that
\* is replaced has been joined before the next is bound
\* (mobile_lan_lifecycle.rs, the mutex held across stop_locked and start_locked).
OneListener ==
  \A p, q \in Ports : server[p] # "none" /\ server[q] # "none" => p = q

\* While nobody reconciles, the record, the listener task and the status the
\* engine was told are one: what the engine reports is being served, and no
\* listener serves that the controller has lost (mobile_lan_lifecycle.rs,
\* stop_locked and start_locked).
StatusIsTrue ==
  Alive /\ lock = Off =>
    /\ record \in Ports => server[record] = "listening" /\ status = Listening(record)
    /\ record = Off => status \in {Stopped, Failed} /\ \A p \in Ports : server[p] = "none"

InStep == record = wanted

\* A change of the settings made while the daemon runs is followed and stays
\* followed, unless a query or a bind fails or an overrun of the event stream
\* loses it (host.rs, engine_events.rs and mobile_lan_lifecycle.rs together).
ChangesAreFollowed ==
  <>[](phase = "running" /\ owed) => <>[]InStep

\* A daemon told to stop ends: no reconciliation of another task and no
\* request of a phone holds up its shutdown for ever
\* (crates/uc-webserver/src/mobile_lan/server.rs, "at most 5 s").
ShutdownEnds == phase = "stopping" ~> phase = "gone"

-----------------------------------------------------------------------------
(* What makes the safety properties inductive.                             *)

NoneServes == \A p \in Ports : server[p] = "none"

Only(p, state) == server[p] = state /\ \A q \in Ports \ {p} : server[q] = "none"

\* The holder of the mutex, and nobody else, is inside a reconciliation.
MutexIsHeld == \A t \in Tasks : work[t] \in Inside <=> lock = t

\* The host asks for no other target while one of its own is on the way.
HostAtRest == phase \in {"running", "leaving"} => work[Host] = "rest"

\* A task that is past the stop has a port to start.
AimsAtPort == \A t \in Tasks : work[t] \in {"bind", "bound", "failed"} => target[t] \in Ports

\* With the mutex free, the record tells all there is.
FreeShape ==
  Alive /\ lock = Off =>
    /\ record # Off => Only(record, "listening") /\ status = Listening(record)
    /\ record = Off => status \in {Stopped, Failed} /\ NoneServes

\* With the mutex held, the record is empty and the place tells what serves.
HeldShape ==
  Alive => \A t \in Tasks :
    /\ work[t] \in Inside => record = Off
    /\ work[t] = "drain" => \E p \in Ports : Only(p, "draining")
    /\ work[t] \in {"joined", "bind", "failed"} => NoneServes
    /\ work[t] = "bound" => Only(target[t], "listening")

GoneShape == ~Alive => NoneServes

LanInv ==
  /\ TypeOK /\ MutexIsHeld /\ HostAtRest /\ AimsAtPort
  /\ FreeShape /\ HeldShape /\ GoneShape
=============================================================================
