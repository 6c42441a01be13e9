---------------------------- MODULE InstanceLock ----------------------------
(***************************************************************************)
(* Single-instance arbitration of the UniClipboard daemon.                  *)
(*                                                                         *)
(* Every `uniclipd` process claims its profile through one flock(2) file    *)
(* before it opens anything else.  A contender that finds the lock busy     *)
(* reads the holder's PID file, decides whether it out-ranks the holder,    *)
(* and if so asks it to stop (SIGTERM) and later forces it (SIGKILL); then  *)
(* it waits for the lock on a detached thread until a deadline.  A wait     *)
(* that expires leaves its thread parked in flock(2): an orphan that may    *)
(* still win the lock and must then drop it.                                *)
(*                                                                         *)
(* Timeouts are untimed: a wait may expire at any moment, so every          *)
(* interleaving the real budgets allow is included.  Each element of Proc   *)
(* is one run of the daemon binary; a restart is another element.           *)
(***************************************************************************)
EXTENDS Naturals, FiniteSets

CONSTANTS
  Proc,        \* runs of the daemon binary on one profile
  Pid,         \* Pid[p]: p's process id; two runs may have one after the other
  Version,     \* Version[p]: rank of p's package version, 0 if unparseable
  MaxTime      \* bound of the wall clock, in distinguishable milliseconds

ASSUME ConstantsAssumption ==
  /\ Pid \in [Proc -> Nat \ {0}]
  /\ Version \in [Proc -> Nat]
  /\ MaxTime \in Nat

VARIABLES
  pc,       \* where each process is in run_async
  held,     \* open file descriptions that hold the flock: <<process, owner>>
  parked,   \* detached threads blocked in flock(2): <<process, wait>>
  holder,   \* PID metadata each contender read, NoMeta if none
  pidFile,  \* contents of .daemon-pid, NoMeta if absent or empty
  clock     \* wall clock

vars == <<pc, held, parked, holder, pidFile, clock>>

-----------------------------------------------------------------------------
(* Phases.  A wait has the name of the phase that spawned its thread.       *)

Wait == {"waitTerm", "waitKill", "waitLock"}

Claiming == {"try", "read", "judge", "term", "verify", "kill"} \cup Wait

\* The lock is held; storage is open until the engine has been shut down.
StorageOpen == {"claimed", "truncated", "booting", "serving", "hung", "closing"}
\* "failed": the start or the service failed; the engine is closed and the
\* status server alone waits for a signal or a retry.
Owning == StorageOpen \cup {"failed", "closed", "unpublished"}

\* Tokio's SIGTERM handler is installed and stays so until the process ends.
Handling == {"serving", "hung", "closing", "failed", "closed", "unpublished", "released"}

Phase == {"off", "refused", "released", "dead"} \cup Claiming \cup Owning

Alive(p) == pc[p] \notin {"off", "dead"}

\* The phases in which a daemon's PID file exists.
Published == {"booting", "serving", "hung", "closing", "failed", "closed"}

\* What a daemon writes about itself.  "by" names the run that wrote the
\* record; no decision of the code can see it.
Meta == [by : Proc, pid : Nat \ {0}, version : Nat, at : 0..MaxTime]
NoMeta == [pid |-> 0]

TypeOK ==
  /\ pc \in [Proc -> Phase]
  /\ held \subseteq Proc \X (Wait \cup {"own"})
  /\ parked \subseteq Proc \X Wait
  /\ holder \in [Proc -> Meta \cup {NoMeta}]
  /\ pidFile \in Meta \cup {NoMeta}
  /\ clock \in 0..MaxTime

Init ==
  /\ pc = [p \in Proc |-> "off"]
  /\ held = {}
  /\ parked = {}
  /\ holder = [p \in Proc |-> NoMeta]
  /\ pidFile = NoMeta
  /\ clock = 0

-----------------------------------------------------------------------------
(* Helpers.                                                                 *)

Goto(p, phase) == pc' = [pc EXCEPT ![p] = phase]

\* Spawn the detached thread of a wait and let p wait for it.
Park(p, wait) ==
  /\ Goto(p, wait)
  /\ parked' = parked \cup {<<p, wait>>}

\* Descriptors and threads of the processes in S: the kernel reclaims them.
Of(S, pairs) == {x \in pairs : x[1] \in S}

\* The live processes with the process id of metadata m.
Named(m) == {q \in Proc : Alive(q) /\ Pid[q] = m.pid}

\* verify_pid_identity: alive, and the executable is a uniclipd.  Every
\* process of this model is one; a foreign process counts as absent.
Active(m) == Named(m) # {}

\* A slip in the version comparison: the newest start wins regardless.
ShouldEvictByAge(p, m) == clock >= m.at

\* should_evict_holder: version, then start time, then pid, later wins.
ShouldEvict(p, m) ==
  \/ Version[p] > m.version
  \/ Version[p] = m.version /\ clock > m.at
  \/ Version[p] = m.version /\ clock = m.at /\ Pid[p] > m.pid

\* The processes in S end at once; their lock and threads go with them, the
\* PID file stays.  `to` is the phase the sender p moves to.
Killed(S, p, to) ==
  /\ pc' = [q \in Proc |-> IF q \in S THEN "dead" ELSE IF q = p THEN to ELSE pc[q]]
  /\ held' = held \ Of(S, held)

-----------------------------------------------------------------------------
(* Claiming the profile.                                                    *)

Launch(p) ==
  /\ pc[p] = "off"
  /\ \A q \in Proc : Pid[q] = Pid[p] => ~Alive(q)
  /\ Goto(p, "try")
  /\ UNCHANGED <<held, parked, holder, pidFile, clock>>

\* The fast path: a non-blocking flock.  A busy lock is the end of a process
\* started with the no-takeover variable; any process may be.
TryAcquire(p) ==
  /\ pc[p] = "try"
  /\ \/ /\ held = {}
        /\ held' = {<<p, "own">>}
        /\ Goto(p, "claimed")
     \/ /\ held # {}
        /\ Goto(p, "refused") \/ Goto(p, "read")
        /\ UNCHANGED held
  /\ UNCHANGED <<parked, holder, pidFile, clock>>

\* Read the holder's metadata; nothing readable, or our own pid, means a
\* plain wait.
ReadMeta(p) ==
  /\ pc[p] = "read"
  /\ holder' = [holder EXCEPT ![p] = pidFile]
  /\ \/ /\ pidFile.pid \in {0, Pid[p]}
        /\ Park(p, "waitLock")
     \/ /\ pidFile.pid \notin {0, Pid[p]}
        /\ Goto(p, "judge")
        /\ UNCHANGED parked
  /\ UNCHANGED <<held, pidFile, clock>>

Judge(p) ==
  /\ pc[p] = "judge"
  /\ \/ /\ Active(holder[p]) /\ ShouldEvict(p, holder[p])
        /\ Goto(p, "term")
        /\ UNCHANGED parked
     \/ /\ ~(Active(holder[p]) /\ ShouldEvict(p, holder[p]))
        /\ Park(p, "waitLock")
  /\ UNCHANGED <<held, holder, pidFile, clock>>

\* Where a request to stop takes a daemon that waits for one.
AfterRequest(phase) ==
  IF phase = "serving" THEN "closing" ELSE IF phase = "failed" THEN "closed" ELSE phase

\* SIGTERM: a serving daemon starts its teardown, one that has not installed
\* its handler dies, any other takes no notice.
Terminate(p) ==
  /\ pc[p] = "term"
  /\ LET hit   == Named(holder[p])
         dying == {q \in hit : pc[q] \notin Handling}
     IN /\ pc' = [q \in Proc |-> IF q = p THEN "waitTerm"
                                 ELSE IF q \in dying THEN "dead"
                                 ELSE IF q \in hit THEN AfterRequest(pc[q])
                                 ELSE pc[q]]
        /\ held' = held \ Of(dying, held)
        /\ parked' = (parked \ Of(dying, parked)) \cup {<<p, "waitTerm">>}
  /\ UNCHANGED <<holder, pidFile, clock>>

\* The kernel hands a free lock to any one parked thread.
Grant(p, wait) ==
  /\ <<p, wait>> \in parked
  /\ held = {}
  /\ held' = {<<p, wait>>}
  /\ parked' = parked \ {<<p, wait>>}
  /\ UNCHANGED <<pc, holder, pidFile, clock>>

\* A slip: the lock is accepted even after the wait was given up.
ReceiveLate(p, wait) ==
  /\ pc[p] \in {wait, "refused"}
  /\ <<p, wait>> \in held
  /\ held' = (held \ {<<p, wait>>}) \cup {<<p, "own">>}
  /\ Goto(p, "claimed")
  /\ UNCHANGED <<parked, holder, pidFile, clock>>

\* The thread sends the lock and the waiting process receives it.
Receive(p, wait) ==
  /\ pc[p] = wait
  /\ <<p, wait>> \in held
  /\ held' = (held \ {<<p, wait>>}) \cup {<<p, "own">>}
  /\ Goto(p, "claimed")
  /\ UNCHANGED <<parked, holder, pidFile, clock>>

\* The receiver is gone: the send fails and the lock is dropped.
DropOrphan(p, wait) ==
  /\ pc[p] # wait
  /\ <<p, wait>> \in held
  /\ held' = held \ {<<p, wait>>}
  /\ UNCHANGED <<pc, parked, holder, pidFile, clock>>

\* A slip: the cooperative wait has no deadline.
ExpireUnbounded(p, wait) ==
  /\ pc[p] = wait /\ wait # "waitLock"
  /\ IF wait = "waitTerm" THEN Goto(p, "verify") /\ UNCHANGED parked ELSE Park(p, "waitLock")
  /\ UNCHANGED <<held, holder, pidFile, clock>>

\* A wait runs out of budget: after the SIGTERM grace the holder is verified
\* again, after the SIGKILL grace p falls through to the cooperative wait,
\* and after that the claim is refused as AlreadyRunning.
Expire(p, wait) ==
  /\ pc[p] = wait
  /\ \/ wait = "waitTerm" /\ Goto(p, "verify")   /\ UNCHANGED parked
     \/ wait = "waitKill" /\ Park(p, "waitLock")
     \/ wait = "waitLock" /\ Goto(p, "refused")  /\ UNCHANGED parked
  /\ UNCHANGED <<held, holder, pidFile, clock>>

Reverify(p) ==
  /\ pc[p] = "verify"
  /\ \/ Active(holder[p])  /\ Goto(p, "kill") /\ UNCHANGED parked
     \/ ~Active(holder[p]) /\ Park(p, "waitLock")
  /\ UNCHANGED <<held, holder, pidFile, clock>>

\* A slip: the escalation waits again without forcing the holder.
ForceKillSkipped(p) ==
  /\ pc[p] = "kill"
  /\ Park(p, "waitKill")
  /\ UNCHANGED <<held, holder, pidFile, clock>>

ForceKill(p) ==
  /\ pc[p] = "kill"
  /\ LET hit == Named(holder[p])
     IN /\ Killed(hit, p, "waitKill")
        /\ parked' = (parked \ Of(hit, parked)) \cup {<<p, "waitKill">>}
  /\ UNCHANGED <<holder, pidFile, clock>>

-----------------------------------------------------------------------------
(* Owning the profile.                                                      *)

\* fs::write truncates the PID file, then fills it: a reader in between
\* finds an empty file.
TruncatePidFile(p) ==
  /\ pc[p] = "claimed"
  /\ pidFile' = NoMeta
  /\ Goto(p, "truncated")
  /\ UNCHANGED <<held, parked, holder, clock>>

\* A slip: the record names no run.
WritePidFileRaw(p) ==
  /\ pc[p] = "truncated"
  /\ pidFile' = [pid |-> Pid[p]]
  /\ Goto(p, "booting")
  /\ UNCHANGED <<held, parked, holder, clock>>

WritePidFile(p) ==
  /\ pc[p] = "truncated"
  /\ pidFile' = [by |-> p, pid |-> Pid[p], version |-> Version[p], at |-> clock]
  /\ Goto(p, "booting")
  /\ UNCHANGED <<held, parked, holder, clock>>

\* The startup server is bound and the shutdown signal is awaited.
InstallHandler(p) ==
  /\ pc[p] = "booting"
  /\ Goto(p, "serving")
  /\ UNCHANGED <<held, parked, holder, pidFile, clock>>

\* The daemon stops answering: no request to stop is acted upon any more.
Hang(p) ==
  /\ pc[p] \in {"serving", "closing"}
  /\ Goto(p, "hung")
  /\ UNCHANGED <<held, parked, holder, pidFile, clock>>

\* A slip: the lock is given up when the teardown starts.
StopEarlyRelease(p) ==
  /\ pc[p] \in {"booting", "serving"}
  /\ Goto(p, "closing")
  /\ held' = held \ {<<p, "own">>}
  /\ UNCHANGED <<parked, holder, pidFile, clock>>

\* Somebody asks the daemon to stop, or its startup fails after the PID file
\* was written.
Stop(p) ==
  /\ \/ pc[p] = "booting" /\ Goto(p, "closing")
     \/ pc[p] \in {"serving", "failed"} /\ Goto(p, AfterRequest(pc[p]))
  /\ UNCHANGED <<held, parked, holder, pidFile, clock>>

\* shutdown_until_released: the engine gives its storage up.  A run that ends
\* with an error keeps its status server up.
CloseEngine(p) ==
  /\ pc[p] = "closing"
  /\ Goto(p, "closed") \/ Goto(p, "failed")
  /\ UNCHANGED <<held, parked, holder, pidFile, clock>>

\* The PID file guard is dropped with run_async_with_diagnostics.
RemovePidFile(p) ==
  /\ pc[p] = "closed"
  /\ pidFile' = NoMeta
  /\ Goto(p, "unpublished")
  /\ UNCHANGED <<held, parked, holder, clock>>

\* A startup that fails before the PID file exists returns with the lock.
FailEarly(p) ==
  /\ pc[p] = "claimed"
  /\ Goto(p, "unpublished")
  /\ UNCHANGED <<held, parked, holder, pidFile, clock>>

\* The instance lock is dropped last, when run_async returns.
Release(p) ==
  /\ pc[p] = "unpublished"
  /\ held' = held \ {<<p, "own">>}
  /\ Goto(p, "released")
  /\ UNCHANGED <<parked, holder, pidFile, clock>>

\* The process ends by itself, or at any moment by a crash; either way the
\* kernel reclaims its locks and threads and leaves the PID file.
End(p) ==
  /\ Killed({p}, p, "dead")
  /\ parked' = parked \ Of({p}, parked)
  /\ UNCHANGED <<holder, pidFile, clock>>

\* A slip: whoever leaves removes the PID file on its way out.
ExitCleaningUp(p) ==
  /\ pc[p] \in {"refused", "released"}
  /\ Killed({p}, p, "dead")
  /\ parked' = parked \ Of({p}, parked)
  /\ pidFile' = NoMeta
  /\ UNCHANGED <<holder, clock>>

Exit(p) == pc[p] \in {"refused", "released"} /\ End(p)

Crash(p) == Alive(p) /\ End(p)

Tick ==
  /\ clock < MaxTime
  /\ clock' = clock + 1
  /\ UNCHANGED <<pc, held, parked, holder, pidFile>>

-----------------------------------------------------------------------------

\* What the code of one process does by itself.
Step(p) ==
  \/ TryAcquire(p) \/ ReadMeta(p) \/ Judge(p) \/ Terminate(p)
  \/ Reverify(p) \/ ForceKill(p)
  \/ TruncatePidFile(p) \/ WritePidFile(p) \/ InstallHandler(p)
  \/ CloseEngine(p) \/ RemovePidFile(p) \/ Release(p) \/ Exit(p)
  \/ \E w \in Wait : Grant(p, w) \/ Receive(p, w) \/ DropOrphan(p, w) \/ Expire(p, w)

\* What its environment may do to it.
Fate(p) == Launch(p) \/ Hang(p) \/ Stop(p) \/ FailEarly(p) \/ Crash(p)

Next == Tick \/ \E p \in Proc : Step(p) \/ Fate(p)

\* A running process takes its steps, its timers fire, and the kernel wakes
\* the threads it grants the lock to.
Fairness == \A p \in Proc : WF_vars(Step(p))

Spec == Init /\ [][Next]_vars
FairSpec == Spec /\ Fairness

-----------------------------------------------------------------------------
(* Safety.                                                                  *)

\* No two daemons ever have the profile's storage open, through evictions,
\* crashes, orphaned lock threads and teardowns: the lock is taken before
\* the engine host is prepared and dropped only after the engine has
\* released its storage (run_async).
OneDaemonServes ==
  \A p, q \in Proc : pc[p] \in StorageOpen /\ pc[q] \in StorageOpen => p = q

\* The PID file tells the truth about live daemons: from the moment it is
\* written until the guard removes it nobody else replaces or deletes it,
\* and the only live run it ever names is the owner of the profile.
PidFileNamesOwner ==
  /\ \A p \in Proc : pc[p] \in Published => pidFile # NoMeta /\ pidFile.by = p
  /\ pidFile # NoMeta => pc[pidFile.by] \in Published \cup {"dead"}

\* Downgrade protection: whoever a contender is about to signal, now or after
\* its grace period, is a daemon that once owned the profile, is not the
\* contender, and does not run a newer version (should_evict_holder).
VictimIsNotNewer ==
  \A p \in Proc :
    pc[p] \in {"term", "waitTerm", "verify", "kill"} =>
      \A q \in Named(holder[p]) :
        q # p /\ Version[q] <= Version[p] /\ pc[q] \in Published \cup {"unpublished", "released"}

\* Eviction is effective: a contender that read the record of a holder with
\* an older version enters its last waits, and is refused, only when that
\* holder is gone, hung or not (SIGTERM, second verification, SIGKILL).
OutrankedHolderIsGone ==
  \A p \in Proc :
    /\ pc[p] \in {"waitKill", "waitLock", "refused"}
    /\ holder[p] # NoMeta
    /\ holder[p].version < Version[p]
    => ~Alive(holder[p].by)

-----------------------------------------------------------------------------
(* What makes the properties above inductive.                               *)

\* At most one open file description holds the flock, and it is the owner's
\* exactly while it owns the profile.
HeldByOwner ==
  /\ \A x, y \in held : x = y
  /\ \A p \in Proc : <<p, "own">> \in held <=> pc[p] \in Owning

\* A record, on disk or read by a contender, tells the truth about a run
\* that has owned the profile.
Truthful(m) ==
  m # NoMeta => /\ m.pid = Pid[m.by]
                /\ m.version = Version[m.by]
                /\ pc[m.by] \in Published \cup {"unpublished", "released", "dead"}

RecordsAreTrue == Truthful(pidFile) /\ \A p \in Proc : Truthful(holder[p])

\* A contender reads one record at most, on its way to a signal it has read
\* one that is not its own, and after its judgement one that it out-ranks.
EvictionIsJustified ==
  \A p \in Proc :
    /\ pc[p] \in {"off", "try"} => holder[p] = NoMeta
    /\ pc[p] \in {"judge", "term", "waitTerm", "verify", "kill"}
         => holder[p] # NoMeta /\ holder[p].pid # Pid[p]
    /\ pc[p] \in {"term", "waitTerm", "verify", "kill"} => holder[p].version <= Version[p]

\* The judgement does not grow stale on its way to the signals: whoever was
\* out-ranked when it was judged is out-ranked after every wait.
VictimIsOutranked ==
  \A p \in Proc :
    pc[p] \in {"term", "waitTerm", "verify", "kill"} => ShouldEvict(p, holder[p])

\* The kernel gives no id to two live processes.
LivePidsDiffer ==
  \A p, q \in Proc : Alive(p) /\ Alive(q) /\ Pid[p] = Pid[q] => p = q

\* No id is given to two runs of the model.
DistinctPids == \A p, q \in Proc : Pid[p] = Pid[q] => p = q

-----------------------------------------------------------------------------
(* Liveness.                                                                *)

\* Every start is answered: the process owns the profile, is told that
\* another daemon is running, or has been ended (acquire_with_deadline).
EveryClaimIsAnswered ==
  \A p \in Proc : pc[p] \in Claiming ~> pc[p] \notin Claiming

-----------------------------------------------------------------------------
(* What the source's comments say and these steps do not keep.              *)

\* "A strictly-older [...] holder is SIGTERM'd -- escalating to SIGKILL -- so
\* the newcomer takes over deterministically, instead of waiting out
\* `deadline` and exiting `AlreadyRunning`" (instance_lock.rs): no newcomer
\* is refused while a daemon of an older version serves.
NewcomerTakesOver ==
  [][\A p, q \in Proc :
       pc[p] = "waitLock" /\ pc'[p] = "refused" /\ pc[q] = "serving"
         => Version[q] >= Version[p]]_vars

\* "a recycled PID must not be SIGKILL'd" (try_evict_outranked_holder): the
\* escalation never hits a serving daemon other than the one whose record
\* the contender read and asked to stop.
RecycledPidIsNotKilled ==
  [][\A p, q \in Proc :
       pc[p] = "kill" /\ pc'[p] = "waitKill" /\ pc[q] = "serving" /\ pc'[q] = "dead"
         => q = holder[p].by]_vars

-----------------------------------------------------------------------------
(* What the arbitration promises, seen from outside.                        *)

StandingOf(phase) ==
  CASE phase = "off"       -> "absent"
    [] phase \in Claiming  -> "asking"
    [] phase \in Owning    -> "owner"
    [] phase = "refused"   -> "denied"
    [] OTHER               -> "gone"

Standing == [p \in Proc |-> StandingOf(pc[p])]

Ownership == INSTANCE ProfileOwnership WITH Run <- Proc, standing <- Standing

\* Each step of the arbitration is a step of ProfileOwnership or invisible.
ImplementsOwnership == Ownership!Spec

=============================================================================
