--------------------------- MODULE OneshotRestart ---------------------------
(***************************************************************************)
(* The life of one Oneshot daemon from serving to exit.                     *)
(*                                                                         *)
(* Control WebSocket connections take leases; a polling supervisor ends the *)
(* daemon when the leases have drained.  POST /lifecycle/restart asks for a *)
(* controlled restart: it raises `quiescing`, which closes the admission    *)
(* gates, and the supervisor then waits a bounded time for the leases to    *)
(* drain before it either ends the daemon or aborts the restart.  On its    *)
(* way out the daemon's main loop leaves a handover record for the          *)
(* successor.                                                               *)
(*                                                                         *)
(* Handlers, supervisor and main loop run on different threads and share    *)
(* atomics and one mutex; each access to one of those is a step.  Timers    *)
(* are untimed: a deadline that is armed may elapse at any moment.          *)
(***************************************************************************)
EXTENDS Naturals, FiniteSets

CONSTANTS
  Conn,        \* control connections, each made once
  Req,         \* restart requests, each sent once
  Target       \* residencies a daemon can be promoted to

ASSUME ConstantsAssumption == IsFiniteSet(Conn) /\ "oneshot" \notin Target

VARIABLES
  conn,        \* where each connection's handler is
  active,      \* ControlLeaseRegistry.active
  total,       \* ControlLeaseRegistry.next_id
  req,         \* what each restart request has come to
  mutex,       \* who holds the coordinator's mutex
  inProgress,  \* Inner.in_progress
  generation,  \* Inner.generation
  quiescing,   \* the flag the admission gates read
  sup,         \* where the supervisor is
  seen,        \* what it read at the top of its loop
  draining,    \* its drain deadline is armed
  graceExpired,
  terminate,   \* the supervisor's cancellation token
  cancel,      \* the daemon's cancellation token
  main,        \* where run_daemon_surfaces is
  controlled,  \* controlled_oneshot_exit
  handover,    \* the handover record on disk
  unwritten    \* history: that record could not be written

leaseVars == <<conn, active, total>>
restartVars == <<req, mutex, inProgress, generation, quiescing>>
supVars == <<sup, seen, draining, graceExpired, terminate>>
mainVars == <<cancel, main, controlled, handover, unwritten>>
vars == <<leaseVars, restartVars, supVars, mainVars>>

-----------------------------------------------------------------------------

\* A lease is counted in `active` first and in `next_id` after.
ConnPhase == {"idle", "admitted", "counted", "open", "gone", "turnedAway"}
SupPhase == {"top", "active", "decide", "select", "abort", "lower", "done"}
MainPhase == {"running", "handover", "cancelling", "disabling", "closing", "stopped"}

Restart == [target : Target, generation : Nat \ {0}]
NoRestart == [generation |-> 0]

Answer ==
  [is : {"idle", "rejected"}]
    \cup [is : {"arrived"}, target : Target \cup {"oneshot"}]
    \cup [is : {"accepting", "accepted", "conflict"}, restart : Restart]

Free == "free"
Supervisor == "supervisor"

TypeOK ==
  /\ conn \in [Conn -> ConnPhase]
  /\ active \in Nat /\ total \in Nat
  /\ req \in [Req -> Answer]
  /\ mutex \in {Free, Supervisor, "handler"}
  /\ inProgress \in Restart \cup {NoRestart}
  /\ generation \in Nat
  /\ quiescing \in BOOLEAN
  /\ sup \in SupPhase
  /\ seen \in [armed : BOOLEAN, active : Nat, quiescing : BOOLEAN]
  /\ draining \in BOOLEAN /\ graceExpired \in BOOLEAN /\ terminate \in BOOLEAN
  /\ cancel \in BOOLEAN
  /\ main \in MainPhase
  /\ controlled \in BOOLEAN
  /\ handover \in Restart \cup {NoRestart}
  /\ unwritten \in BOOLEAN

\* run_async cleared the handover record when it claimed the profile.
Init ==
  /\ conn = [c \in Conn |-> "idle"]
  /\ active = 0 /\ total = 0
  /\ req = [r \in Req |-> [is |-> "idle"]]
  /\ mutex = Free
  /\ inProgress = NoRestart
  /\ generation = 0
  /\ quiescing = FALSE
  /\ sup = "top"
  /\ seen = [armed |-> FALSE, active |-> 0, quiescing |-> FALSE]
  /\ draining = FALSE /\ graceExpired = FALSE /\ terminate = FALSE
  /\ cancel = FALSE
  /\ main = "running"
  /\ controlled = FALSE
  /\ handover = NoRestart
  /\ unwritten = FALSE

-----------------------------------------------------------------------------
(* Control connections.                                                     *)

\* The process is there; nothing runs after its end.
Up == main # "stopped"

Move(c, phase) == conn' = [conn EXCEPT ![c] = phase]

\* The gate, before the handshake: no new control connection while a restart
\* drains.  The server accepts until the daemon is cancelled.
Admit(c) ==
  /\ conn[c] = "idle" /\ ~cancel
  /\ Move(c, IF quiescing THEN "turnedAway" ELSE "admitted")
  /\ UNCHANGED <<active, total, restartVars, supVars, mainVars>>

\* The handshake fails: no handler runs, no lease is taken.
Abandon(c) ==
  /\ Up /\ conn[c] = "admitted"
  /\ Move(c, "turnedAway")
  /\ UNCHANGED <<active, total, restartVars, supVars, mainVars>>

\* ControlLeaseRegistry::acquire, its first increment.
Count(c) ==
  /\ Up /\ conn[c] = "admitted"
  /\ active' = active + 1
  /\ Move(c, "counted")
  /\ UNCHANGED <<total, restartVars, supVars, mainVars>>

\* ControlLeaseRegistry::acquire, its second.
Mint(c) ==
  /\ Up /\ conn[c] = "counted"
  /\ total' = total + 1
  /\ Move(c, "open")
  /\ UNCHANGED <<active, restartVars, supVars, mainVars>>

\* A slip: the lease is released when the socket closes and once more when
\* the handler returns.
DropTwice(c) ==
  /\ Up /\ conn[c] \in {"open", "gone"}
  /\ active' = active - 1
  /\ Move(c, "gone")
  /\ UNCHANGED <<total, restartVars, supVars, mainVars>>

\* The connection ends, however it ends: the lease is dropped.
Drop(c) ==
  /\ Up /\ conn[c] = "open"
  /\ active' = active - 1
  /\ Move(c, "gone")
  /\ UNCHANGED <<total, restartVars, supVars, mainVars>>

\* A slip: the id is minted first and the lease counted after.
MintFirst(c) ==
  /\ Up /\ conn[c] = "admitted"
  /\ total' = total + 1
  /\ Move(c, "counted")
  /\ UNCHANGED <<active, restartVars, supVars, mainVars>>

CountAfter(c) ==
  /\ Up /\ conn[c] = "counted"
  /\ active' = active + 1
  /\ Move(c, "open")
  /\ UNCHANGED <<total, restartVars, supVars, mainVars>>

ConnectionSwapped(c) ==
  Admit(c) \/ Abandon(c) \/ MintFirst(c) \/ CountAfter(c) \/ Drop(c)

\* handle_connection, as far as its lease goes.
Connection(c) == Admit(c) \/ Abandon(c) \/ Count(c) \/ Mint(c) \/ Drop(c)

-----------------------------------------------------------------------------
(* POST /lifecycle/restart and the coordinator.                             *)

Answered(r, answer) == req' = [req EXCEPT ![r] = answer]

\* The request is in flight: its body is still being read.
Arrive(r) ==
  /\ req[r] = [is |-> "idle"] /\ ~cancel
  /\ \E t \in Target \cup {"oneshot"} : Answered(r, [is |-> "arrived", target |-> t])
  /\ UNCHANGED <<leaseVars, mutex, inProgress, generation, quiescing, supVars, mainVars>>

\* evaluate_restart_request refuses a transient target before the
\* coordinator is asked.
Refuse(r) ==
  /\ Up /\ req[r] = [is |-> "arrived", target |-> "oneshot"]
  /\ Answered(r, [is |-> "rejected"])
  /\ UNCHANGED <<leaseVars, mutex, inProgress, generation, quiescing, supVars, mainVars>>

\* A slip: the last request wins.
RequestLastWins(r) ==
  /\ Up /\ req[r].is = "arrived" /\ req[r].target \in Target
  /\ mutex = Free
  /\ LET restart == [target |-> req[r].target, generation |-> generation + 1]
     IN /\ generation' = generation + 1
        /\ inProgress' = restart
        /\ Answered(r, [is |-> "accepting", restart |-> restart])
        /\ mutex' = "handler"
  /\ UNCHANGED <<leaseVars, quiescing, supVars, mainVars>>

\* RestartCoordinator::request under the mutex: the first request wins, any
\* other is told which one did.
Request(r) ==
  /\ Up /\ req[r].is = "arrived" /\ req[r].target \in Target
  /\ mutex = Free
  /\ LET restart == [target |-> req[r].target, generation |-> generation + 1]
     IN \/ /\ inProgress = NoRestart
           /\ generation' = generation + 1
           /\ inProgress' = restart
           /\ Answered(r, [is |-> "accepting", restart |-> restart])
           /\ mutex' = "handler"
        \/ /\ inProgress # NoRestart
           /\ Answered(r, [is |-> "conflict", restart |-> inProgress])
           /\ UNCHANGED <<mutex, inProgress, generation>>
  /\ UNCHANGED <<leaseVars, quiescing, supVars, mainVars>>

\* ... which raises the flag before it lets go of the mutex.
Raise(r) ==
  /\ Up /\ req[r].is = "accepting"
  /\ quiescing' = TRUE
  /\ mutex' = Free
  /\ Answered(r, [req[r] EXCEPT !.is = "accepted"])
  /\ UNCHANGED <<leaseVars, inProgress, generation, supVars, mainVars>>

-----------------------------------------------------------------------------
(* The supervisor.  Its `select!` is biased: a cancelled daemon wins.       *)

\* `armed` is read before `active`.
ReadTotal ==
  /\ Up /\ sup = "top"
  /\ seen' = [seen EXCEPT !.armed = total > 0]
  /\ sup' = "active"
  /\ UNCHANGED <<draining, graceExpired, terminate, leaseVars, restartVars, mainVars>>

ReadActive ==
  /\ Up /\ sup = "active"
  /\ seen' = [seen EXCEPT !.active = active]
  /\ sup' = "decide"
  /\ UNCHANGED <<draining, graceExpired, terminate, leaseVars, restartVars, mainVars>>

\* The terminate condition.
Drained(quiet) == seen.active = 0 /\ (quiet \/ seen.armed \/ graceExpired)

\* A slip: the supervisor keeps looping after it has fired.
DecideAndLoop ==
  /\ Up /\ sup = "decide"
  /\ seen' = [seen EXCEPT !.quiescing = quiescing]
  /\ draining' = quiescing
  /\ terminate' = (terminate \/ Drained(quiescing))
  /\ sup' = "select"
  /\ UNCHANGED <<graceExpired, leaseVars, restartVars, mainVars>>

\* Quiescing is read, the drain deadline armed or disarmed, and the daemon
\* terminated if nothing holds it.
Decide ==
  /\ Up /\ sup = "decide"
  /\ seen' = [seen EXCEPT !.quiescing = quiescing]
  /\ draining' = quiescing
  /\ terminate' = Drained(quiescing)
  /\ sup' = IF Drained(quiescing) THEN "done" ELSE "select"
  /\ UNCHANGED <<graceExpired, leaseVars, restartVars, mainVars>>

Bail ==
  /\ Up /\ sup = "select" /\ cancel
  /\ sup' = "done"
  /\ UNCHANGED <<seen, draining, graceExpired, terminate, leaseVars, restartVars, mainVars>>

\* A slip: the deadline disarms itself and leaves the restart as it is.
DrainElapsesSilently ==
  /\ sup = "select" /\ ~cancel
  /\ draining
  /\ draining' = FALSE
  /\ sup' = "select"
  /\ UNCHANGED <<seen, graceExpired, terminate, leaseVars, restartVars, mainVars>>

\* The drain deadline: the restart is given up if leases were held when the
\* supervisor last looked.
DrainElapses ==
  /\ sup = "select" /\ ~cancel
  /\ draining
  /\ draining' = FALSE
  /\ sup' = IF seen.quiescing /\ seen.active > 0 THEN "abort" ELSE "top"
  /\ UNCHANGED <<seen, graceExpired, terminate, leaseVars, restartVars, mainVars>>

\* A slip: the abort forgets how many restarts there were.
AbortResetting ==
  /\ Up /\ sup = "abort"
  /\ mutex = Free
  /\ inProgress' = NoRestart
  /\ generation' = 0
  /\ mutex' = Supervisor
  /\ sup' = "lower"
  /\ UNCHANGED <<seen, draining, graceExpired, terminate, leaseVars, req, quiescing, mainVars>>

\* RestartCoordinator::abort under the mutex.
Abort ==
  /\ Up /\ sup = "abort"
  /\ mutex = Free
  /\ inProgress' = NoRestart
  /\ mutex' = Supervisor
  /\ sup' = "lower"
  /\ UNCHANGED <<seen, draining, graceExpired, terminate, leaseVars, req, generation, quiescing, mainVars>>

Lower ==
  /\ Up /\ sup = "lower"
  /\ quiescing' = FALSE
  /\ mutex' = Free
  /\ sup' = "top"
  /\ UNCHANGED <<seen, draining, graceExpired, terminate, leaseVars, req, inProgress, generation, mainVars>>

GraceElapses ==
  /\ sup = "select" /\ ~cancel
  /\ ~graceExpired
  /\ graceExpired' = TRUE
  /\ sup' = "top"
  /\ UNCHANGED <<seen, draining, terminate, leaseVars, restartVars, mainVars>>

Poll ==
  /\ sup = "select" /\ ~cancel
  /\ sup' = "top"
  /\ UNCHANGED <<seen, draining, graceExpired, terminate, leaseVars, restartVars, mainVars>>

-----------------------------------------------------------------------------
(* run_daemon_surfaces.                                                     *)

\* Another arm of the select: a signal, a graceful stop, the server's end.
StopOtherwise ==
  /\ main = "running"
  /\ main' = "cancelling"
  /\ UNCHANGED <<cancel, controlled, handover, unwritten, leaseVars, restartVars, supVars>>

TakeTerminate ==
  /\ main = "running" /\ terminate
  /\ controlled' = TRUE
  /\ main' = "handover"
  /\ UNCHANGED <<cancel, handover, unwritten, leaseVars, restartVars, supVars>>

\* write_handover_if_requested: a write that fails is logged, and the daemon
\* goes on without a record.
WriteHandover ==
  /\ main = "handover"
  /\ mutex = Free
  /\ \/ handover' = inProgress /\ UNCHANGED unwritten
     \/ inProgress # NoRestart /\ unwritten' = TRUE /\ UNCHANGED handover
  /\ main' = "cancelling"
  /\ UNCHANGED <<cancel, controlled, leaseVars, restartVars, supVars>>

Cancel ==
  /\ main = "cancelling"
  /\ cancel' = TRUE
  /\ main' = "disabling"
  /\ UNCHANGED <<controlled, handover, unwritten, leaseVars, restartVars, supVars>>

\* The listener for phones is stopped, and with it the requests phones have
\* open: the one wait of the teardown that has no deadline.
DisableLan ==
  /\ main = "disabling"
  /\ main' = "closing"
  /\ UNCHANGED <<cancel, controlled, handover, unwritten, leaseVars, restartVars, supVars>>

\* The joins end by themselves or by their timeouts, and with them the
\* handlers.
Finish ==
  /\ main = "closing"
  /\ main' = "stopped"
  /\ UNCHANGED <<cancel, controlled, handover, unwritten, leaseVars, restartVars, supVars>>

-----------------------------------------------------------------------------

Handler(r) == Refuse(r) \/ Request(r) \/ Raise(r)
Loop == ReadTotal \/ ReadActive \/ Decide \/ Bail \/ Abort \/ Lower \/ Poll
Exit == TakeTerminate \/ WriteHandover \/ Cancel \/ DisableLan \/ Finish

Next ==
  \/ \E c \in Conn : Connection(c)
  \/ \E r \in Req : Arrive(r) \/ Handler(r)
  \/ Loop \/ DrainElapses \/ GraceElapses
  \/ Exit \/ StopOtherwise

\* Every task is scheduled, handlers answer, and timers that stay armed
\* across the polls elapse; nothing makes a client close its connection, ask
\* for a restart or stop the daemon.
Fairness ==
  /\ \A c \in Conn : WF_vars(Count(c) \/ Mint(c))
  /\ \A r \in Req : WF_vars(Handler(r))
  /\ WF_vars(Loop) /\ SF_vars(DrainElapses) /\ SF_vars(GraceElapses)
  /\ WF_vars(TakeTerminate \/ WriteHandover \/ Cancel \/ Finish)

Spec == Init /\ [][Next]_vars
FairSpec == Spec /\ Fairness

\* Phones that bring every request they have open to its end, as MobileLan
\* assumes by the same name.
PhonesFinish == WF_vars(DisableLan)

FinishingSpec == FairSpec /\ PhonesFinish

-----------------------------------------------------------------------------
(* Safety.                                                                  *)

Accepted(r) == req[r].is \in {"accepting", "accepted"}

\* The first client is never cut off: unless a restart was asked for or the
\* grace window has passed, the daemon ends itself only after some client
\* really gave its lease back.  Rests on the order of the two increments in
\* acquire and of the two reads in the supervisor.
NoSpuriousTermination ==
  terminate => graceExpired \/ generation > 0 \/ \E c \in Conn : conn[c] = "gone"

\* The flag the gates read and the restart in flight agree whenever nobody
\* is inside the coordinator: request and abort never interleave.
FlagMatchesRestart == mutex = Free => (quiescing <=> inProgress # NoRestart)

\* First request wins: every accepted restart has a generation of its own,
\* and whoever is turned down is told of one that really was accepted, with
\* the target it was accepted for.
AnswersAreTrue ==
  /\ \A r, s \in Req :
       Accepted(r) /\ Accepted(s) /\ r # s
         => req[r].restart.generation # req[s].restart.generation
  /\ \A r \in Req : req[r].is = "conflict" =>
       \E s \in Req : Accepted(s) /\ req[s].restart = req[r].restart

\* "draining => quiescing && active > 0" whenever the supervisor waits, and a
\* restart it has seen always has its deadline armed: no restart drains
\* without bound and none is aborted that holds no lease it knows of.
DrainTracksRestart ==
  sup = "select" =>
    /\ draining <=> seen.quiescing
    /\ draining => seen.active > 0

\* The record the successor starts from is a restart somebody was promised,
\* and the promise still stands: nothing aborts it once it is on disk.
HandoverIsPromised ==
  handover # NoRestart =>
    /\ inProgress = handover
    /\ \E r \in Req : Accepted(r) /\ req[r].restart = handover

-----------------------------------------------------------------------------
(* What the coordinator and the exit promise, seen from outside.             *)

Promise ==
  INSTANCE RestartPromise WITH None <- NoRestart, pending <- inProgress, last <- generation,
                               record <- handover

\* However requests, the supervisor's deadline and the daemon's exit meet: a
\* restart is accepted once and alone, and after it was handed over it is
\* neither given up nor replaced, nor is another accepted beside it.
RestartIsAPromise == Promise!Spec

-----------------------------------------------------------------------------
(* What makes the properties above inductive.                               *)

Leased == {c \in Conn : conn[c] \in {"counted", "open"}}

\* `active` counts the leases held, and a minted id belongs to a connection.
LeasesAreCounted ==
  /\ active = Cardinality(Leased)
  /\ total > 0 => \E c \in Conn : conn[c] \in {"open", "gone"}

\* What the supervisor carries from one read to the next.
ReadsAreSound ==
  /\ sup = "active" /\ seen.armed => \E c \in Conn : conn[c] \in {"open", "gone"}
  /\ sup = "decide" /\ seen.armed /\ seen.active = 0 => \E c \in Conn : conn[c] = "gone"

\* Who is inside the coordinator, and what it looks like from there.
MutexDiscipline ==
  /\ \A r \in Req : req[r].is = "accepting" =>
       mutex = "handler" /\ inProgress = req[r].restart
  /\ \A r, s \in Req : req[r].is = "accepting" /\ req[s].is = "accepting" => r = s
  /\ sup = "lower" => mutex = Supervisor /\ inProgress = NoRestart
  /\ mutex = Supervisor => sup = "lower"

\* Generations only grow, and a raised flag or a pending restart has one.
GenerationsGrow ==
  /\ \A r \in Req : Accepted(r) => req[r].restart.generation <= generation
  /\ inProgress # NoRestart => \E r \in Req : Accepted(r) /\ req[r].restart = inProgress
  /\ quiescing => generation > 0

\* The supervisor fires last, and the record is written after it has.
FiredLast ==
  /\ terminate => sup = "done"
  /\ main = "handover" => terminate /\ handover = NoRestart
  /\ main = "running" => handover = NoRestart
  /\ handover # NoRestart => terminate

-----------------------------------------------------------------------------
(* Liveness.                                                                *)

\* The gates do not stay closed: a restart that was asked for ends the daemon
\* or is given up, even if a client never lets go of its lease - but not if a
\* phone never lets go of its request.
RestartIsSettled == quiescing ~> (~quiescing \/ main = "stopped")

\* A daemon without clients does not linger.
IdleDaemonEnds == <>[](active = 0) => <>(main = "stopped")

-----------------------------------------------------------------------------
(* What the source's comments say and these steps do not keep.              *)

\* "worst case a lease that drained in this exact tick yields a no-op abort"
\* (run_oneshot_self_terminate_supervisor): an abort that finds the leases
\* drained leaves the restart as it is.
LateAbortIsNoOp ==
  [][sup = "abort" /\ sup' = "lower" /\ active = 0 => inProgress' = inProgress]_vars

\* "The accepted path raises the L8b `quiescing` flag [...]; the Oneshot
\* supervisor then self-terminates and `app.rs` persists the handover record"
\* (restart_handler): a restart that still stands when the daemon has ended
\* itself was handed over, or the write failed and that was logged.
RestartIsHandedOver ==
  \A r \in Req :
    main = "stopped" /\ controlled /\ req[r].is = "accepted" /\ inProgress = req[r].restart
      => handover = inProgress \/ unwritten

\* Between its last look at the leases and its abort the supervisor misses no
\* closed connection.
NoDropInTheTick ==
  sup \in {"decide", "select", "abort"} => active' >= active

DropsAreSeen == [][NoDropInTheTick]_vars

\* No restart is accepted once the record has been written.
NoneAcceptedLate ==
  main \in {"cancelling", "disabling", "closing"} => \A r \in Req : ~Accepted(r) => ~Accepted(r)'

RequestsPrecedeTheRecord == [][NoneAcceptedLate]_vars

\* With every closed connection seen, an abort still finds a lease ...
AbortsFindLeases ==
  /\ sup \in {"decide", "select", "abort"} => active >= seen.active
  /\ sup = "abort" => seen.active > 0

\* ... and without late requests the record is what the coordinator holds,
\* unless it could not be written.
RecordIsTheRestart ==
  /\ controlled => terminate /\ main # "running"
  /\ controlled /\ main # "handover" => handover = inProgress \/ unwritten

=============================================================================
