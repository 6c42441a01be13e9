----------------------- MODULE OneshotRestartProofs -----------------------
(***************************************************************************)
(* Theorems about OneshotRestart, for any number of connections, restart    *)
(* requests and target residencies.  Each part of the inductive invariant   *)
(* is preserved by a lemma of its own; the theorems combine them.           *)
(***************************************************************************)
EXTENDS OneshotRestart, FiniteSetTheorems, TLAPS

IInv ==
  /\ TypeOK /\ LeasesAreCounted /\ ReadsAreSound /\ MutexDiscipline
  /\ FlagMatchesRestart /\ GenerationsGrow /\ AnswersAreTrue
  /\ DrainTracksRestart /\ FiredLast /\ NoSpuriousTermination /\ HandoverIsPromised

-----------------------------------------------------------------------------

\* A restart that was accepted is not the empty place of the coordinator.
LEMMA RestartExists == \A x \in Restart : x # NoRestart /\ x.generation \in Nat /\ x.generation > 0
BY DEF Restart, NoRestart

\* What kind of answer a request has says what else is known of it.
LEMMA AnswerKinds ==
  ASSUME TypeOK, NEW r \in Req
  PROVE  /\ req[r].is \in {"idle", "rejected", "arrived", "accepting", "accepted", "conflict"}
         /\ req[r].is \in {"accepting", "accepted", "conflict"} => req[r].restart \in Restart
         /\ req[r].is = "arrived" => req[r].target \in Target \cup {"oneshot"}
BY DEF TypeOK, Answer

\* Leases: the set of connections that hold one is finite, and the counter in
\* `acquire` and `drop` follows it.
LEMMA LeasesStep ==
  ASSUME TypeOK, LeasesAreCounted, Next, ConstantsAssumption
  PROVE  active' \in Nat /\ total' \in Nat /\ LeasesAreCounted'
<1> USE DEF TypeOK
<1>0. IsFiniteSet(Leased) /\ Cardinality(Leased) \in Nat
  BY FS_Subset, FS_CardinalityType DEF Leased, ConstantsAssumption
<1>1. ASSUME NEW c \in Conn, Admit(c) \/ Abandon(c)
      PROVE  active' \in Nat /\ total' \in Nat /\ LeasesAreCounted'
  <2>1. Leased' = Leased
    BY <1>1 DEF Admit, Abandon, Move, Leased
  <2>2. \A d \in Conn : conn[d] \in {"open", "gone"} => conn'[d] \in {"open", "gone"}
    BY <1>1 DEF Admit, Abandon, Move
  <2> QED BY <1>1, <2>1, <2>2 DEF Admit, Abandon, LeasesAreCounted
<1>2. ASSUME NEW c \in Conn, Count(c)
      PROVE  active' \in Nat /\ total' \in Nat /\ LeasesAreCounted'
  <2>1. Leased' = Leased \cup {c} /\ c \notin Leased
    BY <1>2 DEF Count, Move, Leased
  <2>2. Cardinality(Leased') = Cardinality(Leased) + 1
    BY <1>0, <2>1, FS_AddElement
  <2>3. \A d \in Conn : conn[d] \in {"open", "gone"} => conn'[d] \in {"open", "gone"}
    BY <1>2 DEF Count, Move
  <2> QED BY <1>2, <2>2, <2>3 DEF Count, LeasesAreCounted
<1>3. ASSUME NEW c \in Conn, Mint(c)
      PROVE  active' \in Nat /\ total' \in Nat /\ LeasesAreCounted'
  <2>1. Leased' = Leased /\ conn'[c] = "open"
    BY <1>3 DEF Mint, Move, Leased
  <2> QED BY <1>3, <2>1 DEF Mint, LeasesAreCounted
<1>4. ASSUME NEW c \in Conn, Drop(c)
      PROVE  active' \in Nat /\ total' \in Nat /\ LeasesAreCounted'
  <2>1. Leased' = Leased \ {c} /\ c \in Leased /\ conn'[c] = "gone"
    BY <1>4 DEF Drop, Move, Leased
  <2>2. Cardinality(Leased') = Cardinality(Leased) - 1 /\ Cardinality(Leased) # 0
    BY <1>0, <2>1, FS_RemoveElement, FS_EmptySet
  <2> QED BY <1>0, <1>4, <2>1, <2>2 DEF Drop, LeasesAreCounted
<1>5. ASSUME UNCHANGED leaseVars
      PROVE  active' \in Nat /\ total' \in Nat /\ LeasesAreCounted'
  BY <1>5 DEF leaseVars, LeasesAreCounted, Leased
<1> QED
  BY <1>1, <1>2, <1>3, <1>4, <1>5
  DEF Next, Connection, Handler, Loop, Exit, Arrive, Refuse, Request, Raise, ReadTotal,
      ReadActive, Decide, Bail, Abort, Lower, Poll, DrainElapses, GraceElapses, StopOtherwise,
      TakeTerminate, WriteHandover, Cancel, DisableLan, Finish

\* Every other variable keeps its type.
LEMMA TypeStep ==
  ASSUME TypeOK, LeasesAreCounted, Next, ConstantsAssumption
  PROVE  TypeOK'
<1>0. active' \in Nat /\ total' \in Nat
  BY LeasesStep
<1>1. ASSUME NEW c \in Conn, Connection(c) PROVE TypeOK'
  BY <1>0, <1>1 DEF Connection, Admit, Abandon, Count, Mint, Drop, Move, TypeOK, ConnPhase,
     restartVars, supVars, mainVars
<1>2. ASSUME NEW r \in Req, Arrive(r) PROVE TypeOK'
  BY <1>2 DEF Arrive, Answered, Answer, TypeOK, leaseVars, supVars, mainVars
<1>3. ASSUME NEW r \in Req, Refuse(r) PROVE TypeOK'
  BY <1>3 DEF Refuse, Answered, Answer, TypeOK, leaseVars, supVars, mainVars
<1>4. ASSUME NEW r \in Req, Request(r) PROVE TypeOK'
  <2>1. [target |-> req[r].target, generation |-> generation + 1] \in Restart
    BY <1>4 DEF Request, Restart, TypeOK
  <2> QED BY <1>4, <2>1 DEF Request, Answered, Answer, TypeOK, leaseVars, supVars, mainVars
<1>5. ASSUME NEW r \in Req, Raise(r) PROVE TypeOK'
  <2>1. req[r] \in [is : {"accepting", "accepted", "conflict"}, restart : Restart]
    BY <1>5 DEF Raise, TypeOK, Answer
  <2>2. [req[r] EXCEPT !.is = "accepted"] \in Answer
    BY <2>1 DEF Answer
  <2> QED BY <1>5, <2>2 DEF Raise, Answered, TypeOK, leaseVars, supVars, mainVars, Free
<1>6. ASSUME ReadTotal \/ ReadActive \/ Decide PROVE TypeOK'
  <2>1. CASE ReadTotal
    <3>1. (total > 0) \in BOOLEAN
      OBVIOUS
    <3>2. seen' \in [armed : BOOLEAN, active : Nat, quiescing : BOOLEAN]
      BY <2>1, <3>1, Zenon DEF ReadTotal, TypeOK
    <3> QED BY <2>1, <3>2 DEF ReadTotal, TypeOK, SupPhase, leaseVars, restartVars, mainVars
  <2>2. CASE ReadActive
    BY <2>2 DEF ReadActive, TypeOK, SupPhase, leaseVars, restartVars, mainVars
  <2>3. CASE Decide
    <3>1. /\ seen' \in [armed : BOOLEAN, active : Nat, quiescing : BOOLEAN]
          /\ sup' \in SupPhase /\ terminate' \in BOOLEAN /\ draining' \in BOOLEAN
      BY <2>3 DEF Decide, Drained, TypeOK, SupPhase
    <3> QED BY <2>3, <3>1 DEF Decide, TypeOK, leaseVars, restartVars, mainVars
  <2> QED BY <1>6, <2>1, <2>2, <2>3
<1>7. ASSUME Bail \/ Abort \/ Lower \/ Poll \/ DrainElapses \/ GraceElapses PROVE TypeOK'
  BY <1>7 DEF Bail, Abort, Lower, Poll, DrainElapses, GraceElapses, TypeOK, SupPhase,
     leaseVars, restartVars, mainVars
<1>8. ASSUME Exit \/ StopOtherwise PROVE TypeOK'
  <2>1. CASE WriteHandover
    <3>1. handover' \in Restart \cup {NoRestart} /\ unwritten' \in BOOLEAN
      BY <2>1 DEF WriteHandover, TypeOK
    <3> QED BY <2>1, <3>1 DEF WriteHandover, TypeOK, MainPhase, leaseVars, restartVars, supVars
  <2>2. CASE TakeTerminate \/ Cancel \/ DisableLan \/ Finish \/ StopOtherwise
    <3>1. cancel' \in BOOLEAN /\ controlled' \in BOOLEAN /\ main' \in MainPhase
      BY <2>2 DEF TakeTerminate, Cancel, DisableLan, Finish, StopOtherwise, TypeOK, MainPhase
    <3>2. UNCHANGED <<handover, unwritten, leaseVars, restartVars, supVars>>
      BY <2>2 DEF TakeTerminate, Cancel, DisableLan, Finish, StopOtherwise
    <3> QED BY <3>1, <3>2 DEF TypeOK, leaseVars, restartVars, supVars
  <2> QED BY <1>8, <2>1, <2>2 DEF Exit
<1> QED BY <1>1, <1>2, <1>3, <1>4, <1>5, <1>6, <1>7, <1>8 DEF Next, Handler, Loop

\* What a connection or a request has come to is not taken back: a lease that
\* was given back stays so, and so does an accepted restart.
LEMMA ConnLasts ==
  ASSUME TypeOK, Next, NEW c \in Conn
  PROVE  /\ conn[c] \in {"open", "gone"} => conn'[c] \in {"open", "gone"}
         /\ conn[c] = "gone" => conn'[c] = "gone"
<1>1. ASSUME NEW d \in Conn, Connection(d)
      PROVE  /\ conn[c] \in {"open", "gone"} => conn'[c] \in {"open", "gone"}
             /\ conn[c] = "gone" => conn'[c] = "gone"
  BY <1>1 DEF TypeOK, Connection, Admit, Abandon, Count, Mint, Drop, Move
<1>2. ASSUME UNCHANGED leaseVars
      PROVE  conn' = conn
  BY <1>2 DEF leaseVars
<1> QED
  BY <1>1, <1>2
  DEF Next, Handler, Loop, Exit, Arrive, Refuse, Request, Raise, ReadTotal, ReadActive, Decide,
      Bail, Abort, Lower, Poll, DrainElapses, GraceElapses, StopOtherwise, TakeTerminate,
      WriteHandover, Cancel, DisableLan, Finish

LEMMA AcceptedLasts ==
  ASSUME TypeOK, Next, NEW r \in Req, Accepted(r)
  PROVE  Accepted(r)' /\ req'[r].restart = req[r].restart
<1>1. ASSUME NEW s \in Req, Arrive(s) \/ Refuse(s) \/ Request(s)
      PROVE  req'[r] = req[r]
  <2>1. s # r /\ req[s].is \in {"idle", "arrived"}
    BY <1>1 DEF Arrive, Refuse, Request, Accepted
  <2> QED BY <1>1, <2>1 DEF Arrive, Refuse, Request, Answered, TypeOK
<1>2. ASSUME NEW s \in Req, Raise(s)
      PROVE  Accepted(r)' /\ req'[r].restart = req[r].restart
  <2>1. CASE s = r
    <3>1. req[r] \in [is : {"accepting", "accepted", "conflict"}, restart : Restart]
      BY <1>2, <2>1 DEF Raise, TypeOK, Answer
    <3>2. req'[r] = [req[r] EXCEPT !.is = "accepted"]
      BY <1>2, <2>1 DEF Raise, Answered, TypeOK
    <3> QED BY <3>1, <3>2 DEF Accepted
  <2>2. CASE s # r
    BY <1>2, <2>2 DEF Raise, Answered, TypeOK, Accepted
  <2> QED BY <2>1, <2>2
<1>3. ASSUME NEW d \in Conn, Connection(d)
      PROVE  req' = req
  BY <1>3 DEF Connection, Admit, Abandon, Count, Mint, Drop, restartVars
<1>4. CASE Loop \/ DrainElapses \/ GraceElapses \/ Exit \/ StopOtherwise
  <2>1. req' = req
    BY <1>4 DEF Loop, Exit, ReadTotal, ReadActive, Decide, Bail, Abort, Lower, Poll,
       DrainElapses, GraceElapses, StopOtherwise, TakeTerminate, WriteHandover, Cancel, DisableLan, Finish,
       restartVars
  <2> QED BY <2>1 DEF Accepted
<1> QED
  BY <1>1, <1>2, <1>3, <1>4 DEF Next, Handler, Accepted

-----------------------------------------------------------------------------

\* What the supervisor read of the leases still means something when it uses
\* it: the order of the two increments and of the two reads.
LEMMA ReadsStep ==
  ASSUME TypeOK, LeasesAreCounted, ReadsAreSound, Next, ConstantsAssumption
  PROVE  ReadsAreSound'
<1>1. CASE ReadTotal
  <2>1. sup' = "active" /\ seen'.armed = (total > 0) /\ conn' = conn
    BY <1>1 DEF ReadTotal, TypeOK, leaseVars
  <2> QED BY <2>1 DEF ReadsAreSound, LeasesAreCounted
<1>2. CASE ReadActive
  <2>1. sup = "active" /\ sup' = "decide" /\ conn' = conn
        /\ seen'.armed = seen.armed /\ seen'.active = active
    BY <1>2 DEF ReadActive, TypeOK, leaseVars
  <2>2. active = 0 => Leased = {}
    BY FS_Subset, FS_EmptySet DEF LeasesAreCounted, Leased, ConstantsAssumption
  <2>3. active = 0 /\ seen.armed => \E c \in Conn : conn[c] = "gone"
    BY <2>1, <2>2 DEF ReadsAreSound, Leased
  <2> QED BY <2>1, <2>3 DEF ReadsAreSound
<1>3. CASE Decide \/ Bail \/ Abort \/ Lower \/ Poll \/ DrainElapses \/ GraceElapses
  <2>1. sup' \notin {"active", "decide"}
    BY <1>3 DEF Decide, Bail, Abort, Lower, Poll, DrainElapses, GraceElapses
  <2> QED BY <2>1 DEF ReadsAreSound
<1>4. CASE UNCHANGED supVars
  BY <1>4, ConnLasts DEF supVars, ReadsAreSound
<1> QED
  BY <1>1, <1>2, <1>3, <1>4
  DEF Next, Handler, Connection, Admit, Abandon, Count, Mint, Drop, Loop, Exit, Arrive, Refuse,
      Request, Raise, StopOtherwise, TakeTerminate, WriteHandover, Cancel, DisableLan, Finish, supVars

\* Handlers and supervisor exclude each other inside the coordinator.
LEMMA MutexStep ==
  ASSUME TypeOK, MutexDiscipline, FlagMatchesRestart, Next
  PROVE  MutexDiscipline' /\ FlagMatchesRestart'
<1> USE DEF Free, Supervisor
<1>1. ASSUME NEW r \in Req, Arrive(r) \/ Refuse(r)
      PROVE  MutexDiscipline' /\ FlagMatchesRestart'
  <2>1. \A s \in Req : req'[s].is = "accepting" => req'[s] = req[s]
    BY <1>1 DEF Arrive, Refuse, Answered, TypeOK
  <2> QED BY <1>1, <2>1 DEF Arrive, Refuse, MutexDiscipline, FlagMatchesRestart, supVars
<1>2. ASSUME NEW r \in Req, Request(r)
      PROVE  MutexDiscipline' /\ FlagMatchesRestart'
  <2>1. mutex = Free /\ \A s \in Req : req[s].is # "accepting"
    BY <1>2 DEF Request, MutexDiscipline
  <2>2. \A s \in Req : s # r => req'[s] = req[s]
    BY <1>2 DEF Request, Answered, TypeOK
  <2>3. CASE inProgress = NoRestart
    <3>1. /\ mutex' = "handler" /\ sup' = sup
          /\ req'[r].restart = inProgress'
      BY <1>2, <2>3 DEF Request, Answered, TypeOK, supVars
    <3> QED BY <2>1, <2>2, <3>1 DEF MutexDiscipline, FlagMatchesRestart
  <2>4. CASE inProgress # NoRestart
    <3>1. /\ mutex' = mutex /\ sup' = sup /\ quiescing' = quiescing
          /\ inProgress' = inProgress /\ req'[r].is = "conflict"
      BY <1>2, <2>4 DEF Request, Answered, TypeOK, supVars
    <3> QED BY <2>1, <2>2, <3>1 DEF MutexDiscipline, FlagMatchesRestart
  <2> QED BY <2>3, <2>4
<1>3. ASSUME NEW r \in Req, Raise(r)
      PROVE  MutexDiscipline' /\ FlagMatchesRestart'
  <2>1. /\ inProgress = req[r].restart /\ mutex = "handler"
        /\ \A s \in Req : s # r => req[s].is # "accepting"
    BY <1>3 DEF Raise, MutexDiscipline
  <2>2. inProgress # NoRestart
    BY <1>3, <2>1, AnswerKinds, RestartExists DEF Raise
  <2>3. req[r] \in [is : {"accepting", "accepted", "conflict"}, restart : Restart]
    BY <1>3 DEF Raise, TypeOK, Answer
  <2>4. req'[r].is = "accepted" /\ \A s \in Req : s # r => req'[s] = req[s]
    BY <1>3, <2>3 DEF Raise, Answered, TypeOK
  <2> QED BY <1>3, <2>1, <2>2, <2>4 DEF Raise, MutexDiscipline, FlagMatchesRestart, supVars
<1>4. CASE Abort
  BY <1>4 DEF Abort, MutexDiscipline, FlagMatchesRestart
<1>5. CASE Lower
  BY <1>5 DEF Lower, MutexDiscipline, FlagMatchesRestart
<1>6. CASE ReadTotal \/ ReadActive \/ Decide \/ Bail \/ Poll \/ DrainElapses \/ GraceElapses
  <2>1. sup # "lower" /\ sup' # "lower" /\ UNCHANGED restartVars
    BY <1>6 DEF ReadTotal, ReadActive, Decide, Bail, Poll, DrainElapses, GraceElapses
  <2> QED BY <2>1 DEF restartVars, MutexDiscipline, FlagMatchesRestart
<1>7. CASE UNCHANGED <<restartVars, sup>>
  BY <1>7 DEF restartVars, MutexDiscipline, FlagMatchesRestart
<1> QED
  BY <1>1, <1>2, <1>3, <1>4, <1>5, <1>6, <1>7
  DEF Next, Handler, Connection, Admit, Abandon, Count, Mint, Drop, Loop, Exit, StopOtherwise,
      TakeTerminate, WriteHandover, Cancel, DisableLan, Finish, supVars

\* Only an accepted restart ever stands in the coordinator, and no other can
\* take its generation.
LEMMA GenerationStep ==
  ASSUME TypeOK, MutexDiscipline, GenerationsGrow, AnswersAreTrue, Next
  PROVE  GenerationsGrow' /\ AnswersAreTrue'
<1>1. ASSUME NEW r \in Req, Arrive(r) \/ Refuse(r)
      PROVE  GenerationsGrow' /\ AnswersAreTrue'
  <2>1. /\ \A s \in Req : s # r => req'[s] = req[s]
        /\ req'[r].is \in {"arrived", "rejected"}
        /\ req[r].is \in {"idle", "arrived"}
        /\ UNCHANGED <<inProgress, generation, quiescing>>
    BY <1>1 DEF Arrive, Refuse, Answered, TypeOK
  <2>2. \A s \in Req : Accepted(s)' <=> Accepted(s)
    BY <2>1 DEF Accepted
  <2> QED BY <2>1, <2>2 DEF Accepted, GenerationsGrow, AnswersAreTrue
<1>2. ASSUME NEW r \in Req, Request(r), inProgress = NoRestart
      PROVE  GenerationsGrow' /\ AnswersAreTrue'
  <2>1. /\ \A s \in Req : s # r => req'[s] = req[s]
        /\ req'[r].is = "accepting" /\ req'[r].restart = inProgress'
        /\ inProgress'.generation = generation + 1
        /\ generation' = generation + 1 /\ quiescing' = quiescing
        /\ req[r].is = "arrived"
    BY <1>2 DEF Request, Answered, TypeOK
  <2>2. \A s \in Req : Accepted(s)' <=> Accepted(s) \/ s = r
    BY <2>1 DEF Accepted
  <2>3. \A s \in Req : Accepted(s) => req[s].restart.generation \in Nat
    BY AnswerKinds, RestartExists DEF Accepted
  <2>4. GenerationsGrow'
    <3>1. \A s \in Req : Accepted(s)' => req'[s].restart.generation <= generation'
      BY <2>1, <2>2, <2>3 DEF GenerationsGrow, TypeOK
    <3>2. generation' > 0
      BY <2>1 DEF TypeOK
    <3> QED BY <2>1, <2>2, <3>1, <3>2 DEF GenerationsGrow
  <2>5. \A s, u \in Req : Accepted(s)' /\ Accepted(u)' /\ s # u
          => req'[s].restart.generation # req'[u].restart.generation
    BY <2>1, <2>2, <2>3 DEF GenerationsGrow, AnswersAreTrue, TypeOK
  <2>6. ASSUME NEW s \in Req, req'[s].is = "conflict"
        PROVE  \E u \in Req : Accepted(u)' /\ req'[u].restart = req'[s].restart
    <3>1. s # r /\ req[s].is = "conflict" /\ req'[s] = req[s]
      BY <2>1, <2>6
    <3>2. PICK u \in Req : Accepted(u) /\ req[u].restart = req[s].restart
      BY <3>1 DEF AnswersAreTrue
    <3>3. u # r
      BY <2>1, <3>2 DEF Accepted
    <3> QED BY <2>1, <2>2, <3>1, <3>2, <3>3
  <2> QED BY <2>4, <2>5, <2>6 DEF AnswersAreTrue
<1>3. ASSUME NEW r \in Req, Request(r), inProgress # NoRestart
      PROVE  GenerationsGrow' /\ AnswersAreTrue'
  <2>1. /\ \A s \in Req : s # r => req'[s] = req[s]
        /\ req'[r].is = "conflict" /\ req'[r].restart = inProgress
        /\ UNCHANGED <<inProgress, generation, quiescing>>
        /\ req[r].is = "arrived"
    BY <1>3 DEF Request, Answered, TypeOK
  <2>2. \A s \in Req : Accepted(s)' <=> Accepted(s)
    BY <2>1 DEF Accepted
  <2>3. \A s \in Req : Accepted(s) => req'[s] = req[s]
    BY <2>1 DEF Accepted
  <2>4. GenerationsGrow'
    BY <2>1, <2>2, <2>3 DEF GenerationsGrow
  <2>5. PICK w \in Req : Accepted(w) /\ req[w].restart = inProgress
    BY <1>3 DEF GenerationsGrow
  <2>6. AnswersAreTrue'
    BY <2>1, <2>2, <2>3, <2>5 DEF AnswersAreTrue
  <2> QED BY <2>4, <2>6
<1>4. ASSUME NEW r \in Req, Raise(r)
      PROVE  GenerationsGrow' /\ AnswersAreTrue'
  <2>1. req[r].is = "accepting" /\ req[r] \in [is : {"accepting", "accepted", "conflict"}, restart : Restart]
    BY <1>4 DEF Raise, TypeOK, Answer
  <2>2. /\ \A s \in Req : s # r => req'[s] = req[s]
        /\ req'[r].is = "accepted" /\ req'[r].restart = req[r].restart
        /\ inProgress' = inProgress /\ generation' = generation
    BY <1>4, <2>1 DEF Raise, Answered, TypeOK
  <2>3. \A s \in Req : (Accepted(s)' <=> Accepted(s)) /\ req'[s].restart = req[s].restart
    BY <2>1, <2>2 DEF Accepted
  <2>4. generation > 0
    BY <2>1, RestartExists DEF GenerationsGrow, Accepted, TypeOK
  <2>5. GenerationsGrow'
    BY <2>2, <2>3, <2>4 DEF GenerationsGrow
  <2>6. \A s \in Req : req'[s].is = "conflict" => req[s].is = "conflict"
    BY <2>2
  <2> QED BY <2>3, <2>5, <2>6 DEF AnswersAreTrue
<1>5. CASE Abort \/ Lower
  BY <1>5 DEF Abort, Lower, GenerationsGrow, AnswersAreTrue, Accepted
<1>6. CASE UNCHANGED restartVars
  BY <1>6 DEF restartVars, GenerationsGrow, AnswersAreTrue, Accepted
<1> QED
  BY <1>1, <1>2, <1>3, <1>4, <1>5, <1>6
  DEF Next, Handler, Connection, Admit, Abandon, Count, Mint, Drop, Loop, Exit, ReadTotal,
      ReadActive, Decide, Bail, Poll, DrainElapses, GraceElapses, StopOtherwise,
      TakeTerminate, WriteHandover, Cancel, DisableLan, Finish

\* The drain deadline follows the flag as the supervisor last read it, and
\* the supervisor fires once and last.
LEMMA SupervisorStep ==
  ASSUME TypeOK, DrainTracksRestart, FiredLast, Next
  PROVE  DrainTracksRestart' /\ FiredLast'
<1>1. CASE Decide
  <2>1. /\ seen'.quiescing = quiescing /\ seen'.active = seen.active
        /\ draining' = quiescing /\ sup = "decide"
        /\ terminate' = Drained(quiescing)
        /\ Drained(quiescing) => sup' = "done"
        /\ ~Drained(quiescing) => sup' = "select"
        /\ UNCHANGED <<main, handover>>
    BY <1>1 DEF Decide, TypeOK, mainVars
  <2>2. seen.active \in Nat /\ (quiescing /\ ~Drained(quiescing) => seen.active > 0)
    BY DEF TypeOK, Drained
  <2> QED BY <2>1, <2>2 DEF DrainTracksRestart, FiredLast
<1>2. CASE ReadTotal \/ ReadActive \/ Bail \/ Poll \/ DrainElapses \/ GraceElapses \/ Abort \/ Lower
  <2>1. sup' # "select" /\ sup # "done" /\ UNCHANGED <<terminate, main, handover>>
    BY <1>2 DEF ReadTotal, ReadActive, Bail, Poll, DrainElapses, GraceElapses, Abort, Lower, mainVars
  <2> QED BY <2>1 DEF DrainTracksRestart, FiredLast
<1>3. CASE Exit \/ StopOtherwise
  <2>1. UNCHANGED supVars
    BY <1>3 DEF Exit, StopOtherwise, TakeTerminate, WriteHandover, Cancel, DisableLan, Finish
  <2>2. DrainTracksRestart'
    BY <2>1 DEF supVars, DrainTracksRestart
  <2>3. FiredLast'
    BY <1>3, <2>1 DEF supVars, FiredLast, Exit, StopOtherwise, TakeTerminate, WriteHandover, Cancel, DisableLan, Finish
  <2> QED BY <2>2, <2>3
<1>4. CASE UNCHANGED <<supVars, mainVars>>
  BY <1>4 DEF supVars, mainVars, DrainTracksRestart, FiredLast
<1> QED
  BY <1>1, <1>2, <1>3, <1>4
  DEF Next, Handler, Connection, Admit, Abandon, Count, Mint, Drop, Loop, Arrive, Refuse,
      Request, Raise

\* Why the supervisor fired stays true.
LEMMA TerminationStep ==
  ASSUME TypeOK, ReadsAreSound, GenerationsGrow, NoSpuriousTermination, Next
  PROVE  NoSpuriousTermination'
<1>1. CASE Decide
  <2>1. terminate' => graceExpired \/ generation > 0 \/ \E c \in Conn : conn[c] = "gone"
    BY <1>1 DEF Decide, Drained, ReadsAreSound, GenerationsGrow
  <2>2. UNCHANGED <<graceExpired, generation, conn>>
    BY <1>1 DEF Decide, restartVars, leaseVars
  <2> QED BY <2>1, <2>2 DEF NoSpuriousTermination
<1>2. CASE ~Decide
  <2>1. terminate' = terminate
    BY <1>2 DEF Next, Handler, Connection, Admit, Abandon, Count, Mint, Drop, Loop, Exit, Arrive,
       Refuse, Request, Raise, ReadTotal, ReadActive, Bail, Abort, Lower, Poll, DrainElapses,
       GraceElapses, StopOtherwise, TakeTerminate, WriteHandover, Cancel, DisableLan, Finish, supVars
  <2>2. graceExpired => graceExpired'
    BY <1>2 DEF Next, Handler, Connection, Admit, Abandon, Count, Mint, Drop, Loop, Exit, Arrive,
       Refuse, Request, Raise, ReadTotal, ReadActive, Bail, Abort, Lower, Poll, DrainElapses,
       GraceElapses, StopOtherwise, TakeTerminate, WriteHandover, Cancel, DisableLan, Finish, supVars
  <2>3. generation > 0 => generation' > 0
    <3>1. generation' \in {generation, generation + 1}
      BY <1>2 DEF Next, Handler, Connection, Admit, Abandon, Count, Mint, Drop, Loop, Exit, Arrive,
         Refuse, Request, Raise, ReadTotal, ReadActive, Bail, Abort, Lower, Poll, DrainElapses,
         GraceElapses, StopOtherwise, TakeTerminate, WriteHandover, Cancel, DisableLan, Finish, restartVars
    <3> QED BY <3>1 DEF TypeOK
  <2> QED BY <2>1, <2>2, <2>3, ConnLasts DEF NoSpuriousTermination
<1> QED BY <1>1, <1>2

\* A record on disk is not overtaken: the supervisor that could abort the
\* restart is gone, and a second request cannot replace it.
LEMMA HandoverStep ==
  ASSUME TypeOK, GenerationsGrow, FiredLast, HandoverIsPromised, Next
  PROVE  HandoverIsPromised'
<1>1. CASE WriteHandover
  <2>1. handover' \in {inProgress, handover} /\ UNCHANGED restartVars
    BY <1>1 DEF WriteHandover
  <2> QED BY <2>1 DEF restartVars, GenerationsGrow, HandoverIsPromised, Accepted
<1>2. CASE ~WriteHandover
  <2>1. handover' = handover
    BY <1>2 DEF Next, Handler, Connection, Admit, Abandon, Count, Mint, Drop, Loop, Exit, Arrive,
       Refuse, Request, Raise, ReadTotal, ReadActive, Decide, Bail, Abort, Lower, Poll,
       DrainElapses, GraceElapses, StopOtherwise, TakeTerminate, Cancel, DisableLan, Finish, mainVars
  <2>2. SUFFICES ASSUME handover # NoRestart PROVE HandoverIsPromised'
    BY <2>1 DEF HandoverIsPromised
  <2>3. sup = "done" /\ inProgress = handover
    BY <2>2 DEF FiredLast, HandoverIsPromised
  <2>4. inProgress' = inProgress
    BY <1>2, <2>2, <2>3 DEF Next, Handler, Connection, Admit, Abandon, Count, Mint, Drop, Loop,
       Exit, Arrive, Refuse, Request, Raise, ReadTotal, ReadActive, Decide, Bail, Abort, Lower,
       Poll, DrainElapses, GraceElapses, StopOtherwise, TakeTerminate, Cancel, DisableLan, Finish, restartVars
  <2>5. PICK r \in Req : Accepted(r) /\ req[r].restart = handover
    BY <2>2 DEF HandoverIsPromised
  <2>6. Accepted(r)' /\ req'[r].restart = req[r].restart
    BY <2>5, AcceptedLasts
  <2> QED BY <2>1, <2>3, <2>4, <2>5, <2>6 DEF HandoverIsPromised
<1> QED BY <1>1, <1>2

-----------------------------------------------------------------------------

\* The invariant holds before anything has happened.
LEMMA InitialState == ASSUME ConstantsAssumption, Init PROVE IInv
<1>1. TypeOK
  BY DEF Init, TypeOK, ConnPhase, SupPhase, MainPhase, Answer, NoRestart
<1>2. LeasesAreCounted
  <2>1. Leased = {}
    BY DEF Init, Leased
  <2> QED BY <2>1, FS_EmptySet DEF Init, LeasesAreCounted
<1>3. ReadsAreSound /\ MutexDiscipline /\ FlagMatchesRestart
  BY DEF Init, ReadsAreSound, MutexDiscipline, FlagMatchesRestart, Free, Supervisor
<1>4. GenerationsGrow /\ AnswersAreTrue
  BY DEF Init, GenerationsGrow, AnswersAreTrue, Accepted
<1>5. DrainTracksRestart /\ FiredLast /\ NoSpuriousTermination /\ HandoverIsPromised
  BY DEF Init, DrainTracksRestart, FiredLast, NoSpuriousTermination, HandoverIsPromised
<1> QED BY <1>1, <1>2, <1>3, <1>4, <1>5 DEF IInv

\* Every step, and every stutter, preserves it.
LEMMA Preserved == ASSUME ConstantsAssumption, IInv, [Next]_vars PROVE IInv'
<1>1. CASE Next
  <2>1. TypeOK' /\ LeasesAreCounted' /\ ReadsAreSound'
    BY <1>1, TypeStep, LeasesStep, ReadsStep DEF IInv
  <2>2. MutexDiscipline' /\ FlagMatchesRestart' /\ GenerationsGrow' /\ AnswersAreTrue'
    BY <1>1, MutexStep, GenerationStep DEF IInv
  <2>3. DrainTracksRestart' /\ FiredLast' /\ NoSpuriousTermination' /\ HandoverIsPromised'
    BY <1>1, SupervisorStep, TerminationStep, HandoverStep DEF IInv
  <2> QED BY <2>1, <2>2, <2>3 DEF IInv
<1>2. CASE UNCHANGED vars
  BY <1>2 DEF vars, leaseVars, restartVars, supVars, mainVars, IInv, TypeOK, LeasesAreCounted,
     Leased, ReadsAreSound, MutexDiscipline, FlagMatchesRestart, GenerationsGrow, AnswersAreTrue,
     Accepted, DrainTracksRestart, FiredLast, NoSpuriousTermination, HandoverIsPromised
<1> QED BY <1>1, <1>2

\* The inductive invariant: what each read, lock and flag still tells its
\* reader, in every reachable state.
THEOREM Invariance == Spec => []IInv
<1>1. Init => IInv
  BY InitialState, ConstantsAssumption
<1>2. IInv /\ [Next]_vars => IInv'
  BY Preserved, ConstantsAssumption
<1> QED BY <1>1, <1>2, PTL DEF Spec

\* Every variable keeps its type; `active`, an unsigned counter in the code,
\* never goes below zero.
THEOREM TypeCorrect == Spec => []TypeOK
BY Invariance, PTL DEF IInv

\* The supervisor never takes the daemon from under its first client.
THEOREM FirstClientIsSafe == Spec => []NoSpuriousTermination
BY Invariance, PTL DEF IInv

\* Outside the coordinator's critical sections the flag the gates read says
\* whether a restart is in flight.
THEOREM FlagIsTrue == Spec => []FlagMatchesRestart
BY Invariance, PTL DEF IInv

\* The answers restart_handler gives never contradict each other.
THEOREM FirstRequestWins == Spec => []AnswersAreTrue
BY Invariance, PTL DEF IInv

\* A waiting supervisor drains exactly the restart it has seen.
THEOREM DrainIsBounded == Spec => []DrainTracksRestart
BY Invariance, PTL DEF IInv

\* A handover record is an accepted restart that still stands.
THEOREM HandoverIsSound == Spec => []HandoverIsPromised
BY Invariance, PTL DEF IInv

-----------------------------------------------------------------------------
(* The daemon implements RestartPromise.                                     *)

\* Every step is a step of RestartPromise, or leaves what it speaks of alone.
LEMMA PromiseStep ==
  ASSUME IInv, [Next]_vars
  PROVE  Promise!Next \/ UNCHANGED <<inProgress, generation, handover>>
<1> DEFINE Goal == Promise!Next \/ UNCHANGED <<inProgress, generation, handover>>
<1>1. ASSUME NEW r \in Req, Request(r) PROVE Goal
  <2>1. CASE inProgress = NoRestart
    BY <1>1, <2>1 DEF Request, mainVars, Promise!Next, Promise!Accept
  <2>2. CASE inProgress # NoRestart
    BY <1>1, <2>2 DEF Request, mainVars
  <2> QED BY <2>1, <2>2
<1>2. CASE Abort
  <2>1. handover = NoRestart
    BY <1>2 DEF Abort, IInv, FiredLast
  <2> QED BY <1>2, <2>1 DEF Abort, mainVars, Promise!Next, Promise!GiveUp
<1>3. CASE WriteHandover
  <2>1. handover = NoRestart
    BY <1>3 DEF WriteHandover, IInv, FiredLast
  <2> QED BY <1>3, <2>1 DEF WriteHandover, restartVars, Promise!Next, Promise!HandOver
<1>4. ASSUME NEW c \in Conn, Connection(c) PROVE Goal
  BY <1>4 DEF Connection, Admit, Abandon, Count, Mint, Drop, restartVars, mainVars
<1>5. ASSUME NEW r \in Req, Arrive(r) \/ Refuse(r) \/ Raise(r) PROVE Goal
  BY <1>5 DEF Arrive, Refuse, Raise, mainVars
<1>6. CASE ReadTotal \/ ReadActive \/ Decide \/ Bail \/ Lower \/ Poll \/ DrainElapses \/ GraceElapses
  BY <1>6 DEF ReadTotal, ReadActive, Decide, Bail, Lower, Poll, DrainElapses, GraceElapses,
     restartVars, mainVars
<1>7. CASE TakeTerminate \/ Cancel \/ DisableLan \/ Finish \/ StopOtherwise
  BY <1>7 DEF TakeTerminate, Cancel, DisableLan, Finish, StopOtherwise, restartVars
<1>8. CASE UNCHANGED vars
  BY <1>8 DEF vars, restartVars, mainVars
<1> QED BY <1>1, <1>2, <1>3, <1>4, <1>5, <1>6, <1>7, <1>8 DEF Next, Handler, Loop, Exit

\* For any number of connections and requests: a restart is accepted once and
\* alone, given up only before it is handed over, and handed over for good.
THEOREM RestartsAreKept == Spec => RestartIsAPromise
<1>1. Init => Promise!Init
  BY DEF Init, Promise!Init
<1>2. IInv /\ [Next]_vars => [Promise!Next]_<<inProgress, generation, handover>>
  BY PromiseStep
<1> QED BY <1>1, <1>2, Invariance, PTL DEF Spec, RestartIsAPromise, Promise!Spec

-----------------------------------------------------------------------------
(* What the source's comments promise and one step breaks: without that      *)
(* step the promise holds.                                                    *)

\* A step that drops no lease in the tick leaves the supervisor's last look
\* a lower bound.
LEMMA TickStep ==
  ASSUME TypeOK, TypeOK', AbortsFindLeases, [Next]_vars, [NoDropInTheTick]_vars
  PROVE  AbortsFindLeases'
<1> USE DEF AbortsFindLeases
<1>t. /\ active \in Nat /\ active' \in Nat
      /\ seen \in [armed : BOOLEAN, active : Nat, quiescing : BOOLEAN]
  BY DEF TypeOK
<1>1. ASSUME NEW c \in Conn, Connection(c) PROVE AbortsFindLeases'
  <2>1. UNCHANGED <<sup, seen>>
    BY <1>1 DEF Connection, Admit, Abandon, Count, Mint, Drop, supVars
  <2>2. sup \in {"decide", "select", "abort"} => active' >= active
    <3>1. CASE NoDropInTheTick
      BY <3>1 DEF NoDropInTheTick
    <3>2. CASE UNCHANGED vars
      BY <3>2, <1>t DEF vars, leaseVars
    <3> QED BY <3>1, <3>2
  <2> QED BY <2>1, <2>2, <1>t
<1>2. ASSUME NEW r \in Req, Arrive(r) \/ Handler(r) PROVE AbortsFindLeases'
  BY <1>2 DEF Arrive, Handler, Refuse, Request, Raise, supVars, leaseVars
<1>3. CASE ReadTotal \/ Bail \/ Lower \/ Poll \/ GraceElapses
  BY <1>3, <1>t DEF ReadTotal, Bail, Lower, Poll, GraceElapses, leaseVars
<1>4. CASE ReadActive
  BY <1>4, <1>t DEF ReadActive, leaseVars
<1>5. CASE Decide
  BY <1>5, <1>t DEF Decide, leaseVars
<1>6. CASE DrainElapses
  BY <1>6, <1>t DEF DrainElapses, leaseVars
<1>7. CASE Abort
  BY <1>7 DEF Abort, leaseVars
<1>8. CASE Exit \/ StopOtherwise
  BY <1>8 DEF Exit, TakeTerminate, WriteHandover, Cancel, DisableLan, Finish, StopOtherwise, supVars, leaseVars
<1>9. CASE UNCHANGED vars
  BY <1>9 DEF vars, supVars, leaseVars
<1> QED BY <1>1, <1>2, <1>3, <1>4, <1>5, <1>6, <1>7, <1>8, <1>9 DEF Next, Loop

\* A lease that drains between the supervisor's last look and its abort is
\* all that makes it give up a restart nobody holds: when none does, every
\* abort finds a lease held.
THEOREM OnlyTheTickIsMissed == Spec /\ DropsAreSeen => []AbortsFindLeases
<1>1. Init => AbortsFindLeases
  BY DEF Init, AbortsFindLeases
<1>2. TypeOK /\ TypeOK' /\ AbortsFindLeases /\ [Next]_vars /\ [NoDropInTheTick]_vars
        => AbortsFindLeases'
  BY TickStep
<1> QED BY <1>1, <1>2, TypeCorrect, PTL DEF Spec, DropsAreSeen

\* Once the record is written the restart it holds neither changes nor goes.
LEMMA RecordStep ==
  ASSUME IInv, RecordIsTheRestart, [Next]_vars, [NoneAcceptedLate]_vars
  PROVE  RecordIsTheRestart'
<1> USE DEF RecordIsTheRestart
<1>t. /\ controlled => main # "running"
      /\ controlled => sup = "done"
      /\ \A r \in Req : req[r].is = "accepting" => mutex = "handler"
  BY DEF IInv, FiredLast, MutexDiscipline
<1>0. ASSUME NEW c \in Conn, Connection(c) PROVE RecordIsTheRestart'
  BY <1>0 DEF Connection, Admit, Abandon, Count, Mint, Drop, restartVars, supVars, mainVars
<1>1. ASSUME NEW r \in Req, Arrive(r) \/ Refuse(r) \/ Raise(r) PROVE RecordIsTheRestart'
  BY <1>1 DEF Arrive, Refuse, Raise, supVars, mainVars
<1>2. ASSUME NEW r \in Req, Request(r) PROVE RecordIsTheRestart'
  <2>1. UNCHANGED <<controlled, main, handover, unwritten, terminate>>
    BY <1>2 DEF Request, supVars, mainVars
  <2>2. ASSUME controlled, main # "handover" PROVE inProgress' = inProgress
    <3>1. main \in {"cancelling", "disabling", "closing"}
      BY <1>t, <1>2, <2>2 DEF IInv, TypeOK, MainPhase, Request, Up
    <3>2. ~Accepted(r) /\ req' # req
      BY <1>2 DEF Request, Accepted, Answered, IInv, TypeOK
    <3>3. ~Accepted(r)'
      BY <3>1, <3>2 DEF NoneAcceptedLate, vars, restartVars
    <3>4. req[r] \in Answer /\ req \in [Req -> Answer]
      BY DEF IInv, TypeOK
    <3> QED BY <1>2, <3>3, <3>4 DEF Request, Accepted, Answered
  <2> QED BY <2>1, <2>2
<1>3. CASE ReadTotal \/ ReadActive \/ Bail \/ Lower \/ Poll \/ DrainElapses \/ GraceElapses
  BY <1>3 DEF ReadTotal, ReadActive, Bail, Lower, Poll, DrainElapses, GraceElapses, restartVars, mainVars
<1>4. CASE Decide
  BY <1>4, <1>t DEF Decide, restartVars, mainVars
<1>5. CASE Abort
  BY <1>5, <1>t DEF Abort, mainVars
<1>6. CASE Exit \/ StopOtherwise
  BY <1>6, <1>t DEF Exit, TakeTerminate, WriteHandover, Cancel, DisableLan, Finish, StopOtherwise, restartVars, supVars
<1>7. CASE UNCHANGED vars
  BY <1>7 DEF vars, restartVars, supVars, mainVars
<1> QED BY <1>0, <1>1, <1>2, <1>3, <1>4, <1>5, <1>6, <1>7 DEF Next, Handler, Loop

\* A request accepted after the main loop looked is all that is forgotten
\* without a word: when there is none, a restart that still stands at the end
\* of a daemon that ended itself is the one its successor will read, or its
\* record could not be written and the daemon has logged that.
THEOREM OnlyLateRequestsAreForgotten ==
  Spec /\ RequestsPrecedeTheRecord => []RestartIsHandedOver
<1>1. Init => RecordIsTheRestart
  BY DEF Init, RecordIsTheRestart
<1>2. IInv /\ RecordIsTheRestart /\ [Next]_vars /\ [NoneAcceptedLate]_vars
        => RecordIsTheRestart'
  BY RecordStep
<1>3. RecordIsTheRestart => RestartIsHandedOver
  BY DEF RecordIsTheRestart, RestartIsHandedOver
<1> QED BY <1>1, <1>2, <1>3, Invariance, PTL DEF Spec, RequestsPrecedeTheRecord

=============================================================================
