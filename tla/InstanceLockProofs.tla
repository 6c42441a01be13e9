------------------------- MODULE InstanceLockProofs -------------------------
(***************************************************************************)
(* Proofs about InstanceLock, for any set of runs, versions and ids.        *)
(***************************************************************************)
EXTENDS InstanceLock, TLAPS

\* Types are preserved by every step, whatever the constants are.
THEOREM TypeCorrect == Spec => []TypeOK
  <1>1. Init => TypeOK
    BY ConstantsAssumption DEF Init, TypeOK, Phase, Meta, NoMeta
  <1>2. TypeOK /\ [Next]_vars => TypeOK'
    <2> SUFFICES ASSUME TypeOK, [Next]_vars PROVE TypeOK'
      OBVIOUS
    <2> USE ConstantsAssumption DEF TypeOK, Goto, Park
    <2>1. CASE Tick
      BY <2>1 DEF Tick
    <2>2. ASSUME NEW p \in Proc, Step(p) PROVE TypeOK'
      <3>1. CASE TryAcquire(p)
        BY <3>1 DEF TryAcquire, Phase, Claiming, Owning, StorageOpen
      <3>2. CASE ReadMeta(p)
        BY <3>2 DEF ReadMeta, Phase, Claiming, Wait
      <3>3. CASE Judge(p)
        BY <3>3 DEF Judge, Phase, Claiming, Wait
      <3>4. CASE Terminate(p)
        <4>1. \A q \in Proc : AfterRequest(pc[q]) \in Phase
          BY DEF AfterRequest, Phase, Owning, StorageOpen
        <4>. QED
          BY <3>4, <4>1 DEF Terminate, Phase, Claiming, Wait, Of
      <3>5. CASE Reverify(p)
        BY <3>5 DEF Reverify, Phase, Claiming, Wait
      <3>6. CASE ForceKill(p)
        BY <3>6 DEF ForceKill, Killed, Phase, Claiming, Wait, Of
      <3>7. CASE TruncatePidFile(p)
        BY <3>7 DEF TruncatePidFile, Phase, Owning, StorageOpen
      <3>8. CASE WritePidFile(p)
        BY <3>8 DEF WritePidFile, Meta, Phase, Owning, StorageOpen
      <3>9. CASE InstallHandler(p)
        BY <3>9 DEF InstallHandler, Phase, Owning, StorageOpen
      <3>10. CASE CloseEngine(p)
        BY <3>10 DEF CloseEngine, Phase, Owning
      <3>11. CASE RemovePidFile(p)
        BY <3>11 DEF RemovePidFile, Phase, Owning
      <3>12. CASE Release(p)
        BY <3>12 DEF Release, Phase
      <3>13. CASE Exit(p)
        BY <3>13 DEF Exit, End, Killed, Of, Phase
      <3>14. ASSUME NEW w \in Wait, Grant(p, w) \/ Receive(p, w) \/ DropOrphan(p, w) \/ Expire(p, w)
             PROVE TypeOK'
        <4>1. CASE Grant(p, w)
          BY <4>1 DEF Grant
        <4>2. CASE Receive(p, w)
          BY <4>2 DEF Receive, Phase, Owning, StorageOpen
        <4>3. CASE DropOrphan(p, w)
          BY <4>3 DEF DropOrphan
        <4>4. CASE Expire(p, w)
          BY <4>4 DEF Expire, Phase, Claiming, Wait
        <4>. QED
          BY <3>14, <4>1, <4>2, <4>3, <4>4
      <3>. QED
        BY <2>2, <3>1, <3>2, <3>3, <3>4, <3>5, <3>6, <3>7, <3>8, <3>9, <3>10,
           <3>11, <3>12, <3>13, <3>14 DEF Step
    <2>3. ASSUME NEW p \in Proc, Fate(p) PROVE TypeOK'
      <3>1. CASE Launch(p)
        BY <3>1 DEF Launch, Phase, Claiming
      <3>2. CASE Hang(p)
        BY <3>2 DEF Hang, Phase, Owning, StorageOpen
      <3>3. CASE Stop(p)
        BY <3>3 DEF Stop, AfterRequest, Phase, Owning, StorageOpen
      <3>4. CASE FailEarly(p)
        BY <3>4 DEF FailEarly, Phase, Owning
      <3>5. CASE Crash(p)
        BY <3>5 DEF Crash, End, Killed, Of, Phase
      <3>. QED
        BY <2>3, <3>1, <3>2, <3>3, <3>4, <3>5 DEF Fate
    <2>4. CASE UNCHANGED vars
      BY <2>4 DEF vars
    <2>. QED
      BY <2>1, <2>2, <2>3, <2>4 DEF Next
  <1>. QED
    BY <1>1, <1>2, PTL DEF Spec

\* Every step keeps the lock with the owner.
LEMMA HeldByOwnerStep ==
  ASSUME TypeOK, HeldByOwner, [Next]_vars
  PROVE  HeldByOwner'
  <1> USE ConstantsAssumption DEF TypeOK, Goto, Park, Phase, Claiming, Owning, StorageOpen, Wait, HeldByOwner
  <1>1. CASE Tick
    BY <1>1 DEF Tick
  <1>2. ASSUME NEW p \in Proc, Step(p) PROVE HeldByOwner'
    <2>1. CASE TryAcquire(p)
      BY <2>1 DEF TryAcquire
    <2>2. CASE ReadMeta(p)
      BY <2>2 DEF ReadMeta
    <2>3. CASE Judge(p)
      BY <2>3 DEF Judge
    <2>4. CASE Terminate(p)
      BY <2>4 DEF Terminate, Of, Named, AfterRequest, Alive, Handling
    <2>5. CASE Reverify(p)
      BY <2>5 DEF Reverify
    <2>6. CASE ForceKill(p)
      BY <2>6 DEF ForceKill, Killed, Of, Named, Alive
    <2>7. CASE TruncatePidFile(p)
      BY <2>7 DEF TruncatePidFile
    <2>8. CASE WritePidFile(p)
      BY <2>8 DEF WritePidFile
    <2>9. CASE InstallHandler(p)
      BY <2>9 DEF InstallHandler
    <2>10. CASE CloseEngine(p)
      BY <2>10 DEF CloseEngine
    <2>11. CASE RemovePidFile(p)
      BY <2>11 DEF RemovePidFile
    <2>12. CASE Release(p)
      BY <2>12 DEF Release
    <2>13. CASE Exit(p)
      BY <2>13 DEF Exit, End, Killed, Of
    <2>14. ASSUME NEW w \in Wait, Grant(p, w) \/ Receive(p, w) \/ DropOrphan(p, w) \/ Expire(p, w)
           PROVE  HeldByOwner'
      <3>1. CASE Grant(p, w)
        BY <3>1 DEF Grant
      <3>2. CASE Receive(p, w)
        BY <3>2 DEF Receive
      <3>3. CASE DropOrphan(p, w)
        BY <3>3 DEF DropOrphan
      <3>4. CASE Expire(p, w)
        BY <3>4 DEF Expire
      <3>. QED
        BY <2>14, <3>1, <3>2, <3>3, <3>4
    <2>. QED
      BY <1>2, <2>1, <2>2, <2>3, <2>4, <2>5, <2>6, <2>7, <2>8, <2>9, <2>10, <2>11, <2>12, <2>13, <2>14 DEF Step
  <1>3. ASSUME NEW p \in Proc, Fate(p) PROVE HeldByOwner'
    <2>1. CASE Launch(p)
      BY <2>1 DEF Launch
    <2>2. CASE Hang(p)
      BY <2>2 DEF Hang
    <2>3. CASE Stop(p)
      BY <2>3 DEF Stop, AfterRequest
    <2>4. CASE FailEarly(p)
      BY <2>4 DEF FailEarly
    <2>5. CASE Crash(p)
      BY <2>5 DEF Crash, End, Killed, Of
    <2>. QED
      BY <1>3, <2>1, <2>2, <2>3, <2>4, <2>5 DEF Fate
  <1>4. CASE UNCHANGED vars
    BY <1>4 DEF vars
  <1>. QED
    BY <1>1, <1>2, <1>3, <1>4 DEF Next

\* Two owners are one.
LEMMA SoleOwner ==
  ASSUME HeldByOwner, NEW p \in Proc, NEW q \in Proc, pc[p] \in Owning, pc[q] \in Owning
  PROVE  p = q
  <1>1. <<p, "own">> \in held /\ <<q, "own">> \in held
    BY DEF HeldByOwner
  <1>2. <<p, "own">> = <<q, "own">>
    BY <1>1 DEF HeldByOwner
  <1>. QED
    BY <1>2

\* Every step keeps the PID file to the owner.
LEMMA PidFileStep ==
  ASSUME TypeOK, HeldByOwner, PidFileNamesOwner, [Next]_vars
  PROVE  PidFileNamesOwner'
  <1> USE ConstantsAssumption DEF TypeOK, Goto, Park, Phase, Claiming, Owning, StorageOpen, Wait, HeldByOwner, PidFileNamesOwner, Published, Meta, NoMeta
  <1>1. CASE Tick
    BY <1>1 DEF Tick
  <1>2. ASSUME NEW p \in Proc, Step(p) PROVE PidFileNamesOwner'
    <2>1. CASE TryAcquire(p)
      BY <2>1 DEF TryAcquire
    <2>2. CASE ReadMeta(p)
      BY <2>2 DEF ReadMeta
    <2>3. CASE Judge(p)
      BY <2>3 DEF Judge
    <2>4. CASE Terminate(p)
      BY <2>4 DEF Terminate, Of, Named, AfterRequest, Alive, Handling
    <2>5. CASE Reverify(p)
      BY <2>5 DEF Reverify
    <2>6. CASE ForceKill(p)
      BY <2>6 DEF ForceKill, Killed, Of, Named, Alive
    <2>7. CASE TruncatePidFile(p)
      <3>1. \A q \in Proc : pc[q] \in Owning => q = p
        BY <2>7, SoleOwner DEF TruncatePidFile
      <3>. QED
        BY <2>7, <3>1 DEF TruncatePidFile
    <2>8. CASE WritePidFile(p)
      <3>1. \A q \in Proc : pc[q] \in Owning => q = p
        BY <2>8, SoleOwner DEF WritePidFile
      <3>. QED
        BY <2>8, <3>1 DEF WritePidFile
    <2>9. CASE InstallHandler(p)
      BY <2>9 DEF InstallHandler
    <2>10. CASE CloseEngine(p)
      BY <2>10 DEF CloseEngine
    <2>11. CASE RemovePidFile(p)
      BY <2>11 DEF RemovePidFile
    <2>12. CASE Release(p)
      BY <2>12 DEF Release
    <2>13. CASE Exit(p)
      BY <2>13 DEF Exit, End, Killed, Of
    <2>14. ASSUME NEW w \in Wait, Grant(p, w) \/ Receive(p, w) \/ DropOrphan(p, w) \/ Expire(p, w)
           PROVE  PidFileNamesOwner'
      <3>1. CASE Grant(p, w)
        BY <3>1 DEF Grant
      <3>2. CASE Receive(p, w)
        BY <3>2 DEF Receive
      <3>3. CASE DropOrphan(p, w)
        BY <3>3 DEF DropOrphan
      <3>4. CASE Expire(p, w)
        BY <3>4 DEF Expire
      <3>. QED
        BY <2>14, <3>1, <3>2, <3>3, <3>4
    <2>. QED
      BY <1>2, <2>1, <2>2, <2>3, <2>4, <2>5, <2>6, <2>7, <2>8, <2>9, <2>10, <2>11, <2>12, <2>13, <2>14 DEF Step
  <1>3. ASSUME NEW p \in Proc, Fate(p) PROVE PidFileNamesOwner'
    <2>1. CASE Launch(p)
      BY <2>1 DEF Launch
    <2>2. CASE Hang(p)
      BY <2>2 DEF Hang
    <2>3. CASE Stop(p)
      BY <2>3 DEF Stop, AfterRequest
    <2>4. CASE FailEarly(p)
      BY <2>4 DEF FailEarly
    <2>5. CASE Crash(p)
      BY <2>5 DEF Crash, End, Killed, Of
    <2>. QED
      BY <1>3, <2>1, <2>2, <2>3, <2>4, <2>5 DEF Fate
  <1>4. CASE UNCHANGED vars
    BY <1>4 DEF vars
  <1>. QED
    BY <1>1, <1>2, <1>3, <1>4 DEF Next

\* Every step keeps the records truthful.
LEMMA RecordsStep ==
  ASSUME TypeOK, RecordsAreTrue, [Next]_vars
  PROVE  RecordsAreTrue'
  <1> USE ConstantsAssumption DEF TypeOK, Goto, Park, Phase, Claiming, Owning, StorageOpen, Wait, RecordsAreTrue, Truthful, Published, Meta, NoMeta
  <1>1. CASE Tick
    BY <1>1 DEF Tick
  <1>2. ASSUME NEW p \in Proc, Step(p) PROVE RecordsAreTrue'
    <2>1. CASE TryAcquire(p)
      BY <2>1 DEF TryAcquire
    <2>2. CASE ReadMeta(p)
      BY <2>2 DEF ReadMeta
    <2>3. CASE Judge(p)
      BY <2>3 DEF Judge
    <2>4. CASE Terminate(p)
      BY <2>4 DEF Terminate, Of, Named, AfterRequest, Alive, Handling
    <2>5. CASE Reverify(p)
      BY <2>5 DEF Reverify
    <2>6. CASE ForceKill(p)
      BY <2>6 DEF ForceKill, Killed, Of, Named, Alive
    <2>7. CASE TruncatePidFile(p)
      BY <2>7 DEF TruncatePidFile
    <2>8. CASE WritePidFile(p)
      BY <2>8 DEF WritePidFile
    <2>9. CASE InstallHandler(p)
      BY <2>9 DEF InstallHandler
    <2>10. CASE CloseEngine(p)
      BY <2>10 DEF CloseEngine
    <2>11. CASE RemovePidFile(p)
      BY <2>11 DEF RemovePidFile
    <2>12. CASE Release(p)
      BY <2>12 DEF Release
    <2>13. CASE Exit(p)
      BY <2>13 DEF Exit, End, Killed, Of
    <2>14. ASSUME NEW w \in Wait, Grant(p, w) \/ Receive(p, w) \/ DropOrphan(p, w) \/ Expire(p, w)
           PROVE  RecordsAreTrue'
      <3>1. CASE Grant(p, w)
        BY <3>1 DEF Grant
      <3>2. CASE Receive(p, w)
        BY <3>2 DEF Receive
      <3>3. CASE DropOrphan(p, w)
        BY <3>3 DEF DropOrphan
      <3>4. CASE Expire(p, w)
        BY <3>4 DEF Expire
      <3>. QED
        BY <2>14, <3>1, <3>2, <3>3, <3>4
    <2>. QED
      BY <1>2, <2>1, <2>2, <2>3, <2>4, <2>5, <2>6, <2>7, <2>8, <2>9, <2>10, <2>11, <2>12, <2>13, <2>14 DEF Step
  <1>3. ASSUME NEW p \in Proc, Fate(p) PROVE RecordsAreTrue'
    <2>1. CASE Launch(p)
      BY <2>1 DEF Launch
    <2>2. CASE Hang(p)
      BY <2>2 DEF Hang
    <2>3. CASE Stop(p)
      BY <2>3 DEF Stop, AfterRequest
    <2>4. CASE FailEarly(p)
      BY <2>4 DEF FailEarly
    <2>5. CASE Crash(p)
      BY <2>5 DEF Crash, End, Killed, Of
    <2>. QED
      BY <1>3, <2>1, <2>2, <2>3, <2>4, <2>5 DEF Fate
  <1>4. CASE UNCHANGED vars
    BY <1>4 DEF vars
  <1>. QED
    BY <1>1, <1>2, <1>3, <1>4 DEF Next

\* Every step keeps evictions justified.
LEMMA EvictionStep ==
  ASSUME TypeOK, EvictionIsJustified, [Next]_vars
  PROVE  EvictionIsJustified'
  <1> USE ConstantsAssumption DEF TypeOK, Goto, Park, Phase, Claiming, Owning, StorageOpen, Wait, EvictionIsJustified, Meta, NoMeta, ShouldEvict
  <1>1. CASE Tick
    BY <1>1 DEF Tick
  <1>2. ASSUME NEW p \in Proc, Step(p) PROVE EvictionIsJustified'
    <2>1. CASE TryAcquire(p)
      BY <2>1 DEF TryAcquire
    <2>2. CASE ReadMeta(p)
      BY <2>2 DEF ReadMeta
    <2>3. CASE Judge(p)
      BY <2>3 DEF Judge
    <2>4. CASE Terminate(p)
      BY <2>4 DEF Terminate, Of, Named, AfterRequest, Alive, Handling
    <2>5. CASE Reverify(p)
      BY <2>5 DEF Reverify
    <2>6. CASE ForceKill(p)
      BY <2>6 DEF ForceKill, Killed, Of, Named, Alive
    <2>7. CASE TruncatePidFile(p)
      BY <2>7 DEF TruncatePidFile
    <2>8. CASE WritePidFile(p)
      BY <2>8 DEF WritePidFile
    <2>9. CASE InstallHandler(p)
      BY <2>9 DEF InstallHandler
    <2>10. CASE CloseEngine(p)
      BY <2>10 DEF CloseEngine
    <2>11. CASE RemovePidFile(p)
      BY <2>11 DEF RemovePidFile
    <2>12. CASE Release(p)
      BY <2>12 DEF Release
    <2>13. CASE Exit(p)
      BY <2>13 DEF Exit, End, Killed, Of
    <2>14. ASSUME NEW w \in Wait, Grant(p, w) \/ Receive(p, w) \/ DropOrphan(p, w) \/ Expire(p, w)
           PROVE  EvictionIsJustified'
      <3>1. CASE Grant(p, w)
        BY <3>1 DEF Grant
      <3>2. CASE Receive(p, w)
        BY <3>2 DEF Receive
      <3>3. CASE DropOrphan(p, w)
        BY <3>3 DEF DropOrphan
      <3>4. CASE Expire(p, w)
        BY <3>4 DEF Expire
      <3>. QED
        BY <2>14, <3>1, <3>2, <3>3, <3>4
    <2>. QED
      BY <1>2, <2>1, <2>2, <2>3, <2>4, <2>5, <2>6, <2>7, <2>8, <2>9, <2>10, <2>11, <2>12, <2>13, <2>14 DEF Step
  <1>3. ASSUME NEW p \in Proc, Fate(p) PROVE EvictionIsJustified'
    <2>1. CASE Launch(p)
      BY <2>1 DEF Launch
    <2>2. CASE Hang(p)
      BY <2>2 DEF Hang
    <2>3. CASE Stop(p)
      BY <2>3 DEF Stop, AfterRequest
    <2>4. CASE FailEarly(p)
      BY <2>4 DEF FailEarly
    <2>5. CASE Crash(p)
      BY <2>5 DEF Crash, End, Killed, Of
    <2>. QED
      BY <1>3, <2>1, <2>2, <2>3, <2>4, <2>5 DEF Fate
  <1>4. CASE UNCHANGED vars
    BY <1>4 DEF vars
  <1>. QED
    BY <1>1, <1>2, <1>3, <1>4 DEF Next

\* Every step keeps an evicted holder gone.
LEMMA GoneStep ==
  ASSUME TypeOK, DistinctPids, RecordsAreTrue, EvictionIsJustified, OutrankedHolderIsGone, [Next]_vars
  PROVE  OutrankedHolderIsGone'
  <1> USE ConstantsAssumption DEF TypeOK, Goto, Park, Phase, Claiming, Owning, StorageOpen, Wait, OutrankedHolderIsGone, DistinctPids, RecordsAreTrue, Truthful, EvictionIsJustified, Published, Meta, NoMeta, ShouldEvict, Active, Named, Alive
  <1>1. CASE Tick
    BY <1>1 DEF Tick
  <1>2. ASSUME NEW p \in Proc, Step(p) PROVE OutrankedHolderIsGone'
    <2>1. CASE TryAcquire(p)
      BY <2>1 DEF TryAcquire
    <2>2. CASE ReadMeta(p)
      BY <2>2 DEF ReadMeta
    <2>3. CASE Judge(p)
      BY <2>3 DEF Judge
    <2>4. CASE Terminate(p)
      BY <2>4 DEF Terminate, Of, Named, AfterRequest, Alive, Handling
    <2>5. CASE Reverify(p)
      BY <2>5 DEF Reverify
    <2>6. CASE ForceKill(p)
      BY <2>6 DEF ForceKill, Killed, Of, Named, Alive
    <2>7. CASE TruncatePidFile(p)
      BY <2>7 DEF TruncatePidFile
    <2>8. CASE WritePidFile(p)
      BY <2>8 DEF WritePidFile
    <2>9. CASE InstallHandler(p)
      BY <2>9 DEF InstallHandler
    <2>10. CASE CloseEngine(p)
      BY <2>10 DEF CloseEngine
    <2>11. CASE RemovePidFile(p)
      BY <2>11 DEF RemovePidFile
    <2>12. CASE Release(p)
      BY <2>12 DEF Release
    <2>13. CASE Exit(p)
      BY <2>13 DEF Exit, End, Killed, Of
    <2>14. ASSUME NEW w \in Wait, Grant(p, w) \/ Receive(p, w) \/ DropOrphan(p, w) \/ Expire(p, w)
           PROVE  OutrankedHolderIsGone'
      <3>1. CASE Grant(p, w)
        BY <3>1 DEF Grant
      <3>2. CASE Receive(p, w)
        BY <3>2 DEF Receive
      <3>3. CASE DropOrphan(p, w)
        BY <3>3 DEF DropOrphan
      <3>4. CASE Expire(p, w)
        BY <3>4 DEF Expire
      <3>. QED
        BY <2>14, <3>1, <3>2, <3>3, <3>4
    <2>. QED
      BY <1>2, <2>1, <2>2, <2>3, <2>4, <2>5, <2>6, <2>7, <2>8, <2>9, <2>10, <2>11, <2>12, <2>13, <2>14 DEF Step
  <1>3. ASSUME NEW p \in Proc, Fate(p) PROVE OutrankedHolderIsGone'
    <2>1. CASE Launch(p)
      BY <2>1 DEF Launch
    <2>2. CASE Hang(p)
      BY <2>2 DEF Hang
    <2>3. CASE Stop(p)
      BY <2>3 DEF Stop, AfterRequest
    <2>4. CASE FailEarly(p)
      BY <2>4 DEF FailEarly
    <2>5. CASE Crash(p)
      BY <2>5 DEF Crash, End, Killed, Of
    <2>. QED
      BY <1>3, <2>1, <2>2, <2>3, <2>4, <2>5 DEF Fate
  <1>4. CASE UNCHANGED vars
    BY <1>4 DEF vars
  <1>. QED
    BY <1>1, <1>2, <1>3, <1>4 DEF Next

\* Every step keeps the ids of live processes distinct.
LEMMA LivePidsStep ==
  ASSUME TypeOK, LivePidsDiffer, [Next]_vars
  PROVE  LivePidsDiffer'
  <1> USE ConstantsAssumption DEF TypeOK, Goto, Park, Phase, Claiming, Owning, StorageOpen, Wait, LivePidsDiffer, Alive
  <1>1. CASE Tick
    BY <1>1 DEF Tick
  <1>2. ASSUME NEW p \in Proc, Step(p) PROVE LivePidsDiffer'
    <2>1. CASE TryAcquire(p)
      BY <2>1 DEF TryAcquire
    <2>2. CASE ReadMeta(p)
      BY <2>2 DEF ReadMeta
    <2>3. CASE Judge(p)
      BY <2>3 DEF Judge
    <2>4. CASE Terminate(p)
      BY <2>4 DEF Terminate, Of, Named, AfterRequest, Handling
    <2>5. CASE Reverify(p)
      BY <2>5 DEF Reverify
    <2>6. CASE ForceKill(p)
      BY <2>6 DEF ForceKill, Killed, Of, Named
    <2>7. CASE TruncatePidFile(p)
      BY <2>7 DEF TruncatePidFile
    <2>8. CASE WritePidFile(p)
      BY <2>8 DEF WritePidFile
    <2>9. CASE InstallHandler(p)
      BY <2>9 DEF InstallHandler
    <2>10. CASE CloseEngine(p)
      BY <2>10 DEF CloseEngine
    <2>11. CASE RemovePidFile(p)
      BY <2>11 DEF RemovePidFile
    <2>12. CASE Release(p)
      BY <2>12 DEF Release
    <2>13. CASE Exit(p)
      BY <2>13 DEF Exit, End, Killed, Of
    <2>14. ASSUME NEW w \in Wait, Grant(p, w) \/ Receive(p, w) \/ DropOrphan(p, w) \/ Expire(p, w)
           PROVE  LivePidsDiffer'
      <3>1. CASE Grant(p, w)
        BY <3>1 DEF Grant
      <3>2. CASE Receive(p, w)
        BY <3>2 DEF Receive
      <3>3. CASE DropOrphan(p, w)
        BY <3>3 DEF DropOrphan
      <3>4. CASE Expire(p, w)
        BY <3>4 DEF Expire
      <3>. QED
        BY <2>14, <3>1, <3>2, <3>3, <3>4
    <2>. QED
      BY <1>2, <2>1, <2>2, <2>3, <2>4, <2>5, <2>6, <2>7, <2>8, <2>9, <2>10, <2>11, <2>12, <2>13, <2>14 DEF Step
  <1>3. ASSUME NEW p \in Proc, Fate(p) PROVE LivePidsDiffer'
    <2>1. CASE Launch(p)
      BY <2>1 DEF Launch
    <2>2. CASE Hang(p)
      BY <2>2 DEF Hang
    <2>3. CASE Stop(p)
      BY <2>3 DEF Stop, AfterRequest
    <2>4. CASE FailEarly(p)
      BY <2>4 DEF FailEarly
    <2>5. CASE Crash(p)
      BY <2>5 DEF Crash, End, Killed, Of
    <2>. QED
      BY <1>3, <2>1, <2>2, <2>3, <2>4, <2>5 DEF Fate
  <1>4. CASE UNCHANGED vars
    BY <1>4 DEF vars
  <1>. QED
    BY <1>1, <1>2, <1>3, <1>4 DEF Next

\* Time does not take a judgement back.
LEMMA JudgementLasts ==
  ASSUME TypeOK, NEW p \in Proc, NEW m \in Meta, ShouldEvict(p, m), clock' = clock + 1
  PROVE  ShouldEvict(p, m)'
  BY ConstantsAssumption DEF TypeOK, ShouldEvict, Meta

\* Whoever is being evicted is out-ranked still.
LEMMA OutrankedStep ==
  ASSUME TypeOK, EvictionIsJustified, VictimIsOutranked, [Next]_vars
  PROVE  VictimIsOutranked'
  <1> USE ConstantsAssumption DEF TypeOK, Goto, Park, Phase, Claiming, Owning, StorageOpen, Wait, VictimIsOutranked
  <1>0. clock' = clock /\ holder' = holder => \A p \in Proc : ShouldEvict(p, holder[p])' <=> ShouldEvict(p, holder[p])
    BY DEF ShouldEvict
  <1>1. CASE Tick
    BY <1>1, JudgementLasts DEF Tick, EvictionIsJustified
  <1>2. ASSUME NEW p \in Proc, Step(p) PROVE VictimIsOutranked'
    <2>1. CASE TryAcquire(p)
      BY <2>1, <1>0 DEF TryAcquire
    <2>2. CASE ReadMeta(p)
      <3>1. ASSUME NEW q \in Proc, q # p
            PROVE  holder'[q] = holder[q] /\ pc'[q] = pc[q] /\ clock' = clock
        BY <2>2, <3>1 DEF ReadMeta
      <3>2. pc'[p] \in {"judge", "waitLock"}
        BY <2>2 DEF ReadMeta
      <3>3. \A q \in Proc : q # p => (ShouldEvict(q, holder[q])' <=> ShouldEvict(q, holder[q]))
        BY <3>1 DEF ShouldEvict
      <3>. QED BY <3>1, <3>2, <3>3
    <2>3. CASE Judge(p)
      BY <2>3, <1>0 DEF Judge
    <2>4. CASE Terminate(p)
      BY <2>4, <1>0 DEF Terminate, Of, Named, AfterRequest, Alive, Handling
    <2>5. CASE Reverify(p)
      BY <2>5, <1>0 DEF Reverify
    <2>6. CASE ForceKill(p)
      BY <2>6, <1>0 DEF ForceKill, Killed, Of, Named, Alive
    <2>7. CASE TruncatePidFile(p)
      BY <2>7, <1>0 DEF TruncatePidFile
    <2>8. CASE WritePidFile(p)
      BY <2>8, <1>0 DEF WritePidFile
    <2>9. CASE InstallHandler(p)
      BY <2>9, <1>0 DEF InstallHandler
    <2>10. CASE CloseEngine(p)
      BY <2>10, <1>0 DEF CloseEngine
    <2>11. CASE RemovePidFile(p)
      BY <2>11, <1>0 DEF RemovePidFile
    <2>12. CASE Release(p)
      BY <2>12, <1>0 DEF Release
    <2>13. CASE Exit(p)
      BY <2>13, <1>0 DEF Exit, End, Killed, Of
    <2>14. ASSUME NEW w \in Wait, Grant(p, w) \/ Receive(p, w) \/ DropOrphan(p, w) \/ Expire(p, w)
           PROVE  VictimIsOutranked'
      <3>1. CASE Grant(p, w)
        BY <3>1, <1>0 DEF Grant
      <3>2. CASE Receive(p, w)
        BY <3>2, <1>0 DEF Receive
      <3>3. CASE DropOrphan(p, w)
        BY <3>3, <1>0 DEF DropOrphan
      <3>4. CASE Expire(p, w)
        BY <3>4, <1>0 DEF Expire
      <3>. QED
        BY <2>14, <3>1, <3>2, <3>3, <3>4
    <2>. QED
      BY <1>2, <2>1, <2>2, <2>3, <2>4, <2>5, <2>6, <2>7, <2>8, <2>9, <2>10, <2>11, <2>12, <2>13, <2>14 DEF Step
  <1>3. ASSUME NEW p \in Proc, Fate(p) PROVE VictimIsOutranked'
    <2>1. CASE Launch(p)
      BY <2>1, <1>0 DEF Launch
    <2>2. CASE Hang(p)
      BY <2>2, <1>0 DEF Hang
    <2>3. CASE Stop(p)
      BY <2>3, <1>0 DEF Stop, AfterRequest
    <2>4. CASE FailEarly(p)
      BY <2>4, <1>0 DEF FailEarly
    <2>5. CASE Crash(p)
      BY <2>5, <1>0 DEF Crash, End, Killed, Of
    <2>. QED
      BY <1>3, <2>1, <2>2, <2>3, <2>4, <2>5 DEF Fate
  <1>4. CASE UNCHANGED vars
    BY <1>4, <1>0 DEF vars
  <1>. QED
    BY <1>1, <1>2, <1>3, <1>4 DEF Next

\* The escalation forces q, a serving daemon, on behalf of p.
Forced(p, q) ==
  pc[p] = "kill" /\ pc'[p] = "waitKill" /\ pc[q] = "serving" /\ pc'[q] = "dead"

LEMMA RecycledStep ==
  ASSUME TypeOK, RecordsAreTrue, EvictionIsJustified, DistinctPids, [Next]_vars
  PROVE  \A p, q \in Proc : Forced(p, q) => q = holder[p].by
  <1> DEFINE Goal == \A p, q \in Proc : Forced(p, q) => q = holder[p].by
  <1> USE ConstantsAssumption DEF TypeOK, Goto, Park, Phase, Claiming, Owning, StorageOpen, Wait, Forced
  <1>1. CASE Tick
    BY <1>1 DEF Tick
  <1>2. ASSUME NEW p \in Proc, Step(p) PROVE Goal
    <2>1. CASE TryAcquire(p)
      BY <2>1 DEF TryAcquire
    <2>2. CASE ReadMeta(p)
      BY <2>2 DEF ReadMeta
    <2>3. CASE Judge(p)
      BY <2>3 DEF Judge
    <2>4. CASE Terminate(p)
      BY <2>4 DEF Terminate, Of, Named, AfterRequest, Alive, Handling
    <2>5. CASE Reverify(p)
      BY <2>5 DEF Reverify
    <2>6. CASE ForceKill(p)
      <3>1. holder[p] \in Meta /\ holder[p].by \in Proc /\ holder[p].pid = Pid[holder[p].by]
        BY <2>6 DEF ForceKill, EvictionIsJustified, RecordsAreTrue, Truthful, Meta
      <3>2. \A q \in Named(holder[p]) : q = holder[p].by
        BY <3>1 DEF Named, DistinctPids
      <3>3. ASSUME NEW r \in Proc, NEW q \in Proc, Forced(r, q) PROVE r = p /\ q \in Named(holder[p])
        BY <2>6, <3>3 DEF ForceKill, Killed
      <3>. QED BY <3>2, <3>3
    <2>7. CASE TruncatePidFile(p)
      BY <2>7 DEF TruncatePidFile
    <2>8. CASE WritePidFile(p)
      BY <2>8 DEF WritePidFile
    <2>9. CASE InstallHandler(p)
      BY <2>9 DEF InstallHandler
    <2>10. CASE CloseEngine(p)
      BY <2>10 DEF CloseEngine
    <2>11. CASE RemovePidFile(p)
      BY <2>11 DEF RemovePidFile
    <2>12. CASE Release(p)
      BY <2>12 DEF Release
    <2>13. CASE Exit(p)
      BY <2>13 DEF Exit, End, Killed, Of
    <2>14. ASSUME NEW w \in Wait, Grant(p, w) \/ Receive(p, w) \/ DropOrphan(p, w) \/ Expire(p, w)
           PROVE  Goal
      <3>1. CASE Grant(p, w)
        BY <3>1 DEF Grant
      <3>2. CASE Receive(p, w)
        BY <3>2 DEF Receive
      <3>3. CASE DropOrphan(p, w)
        BY <3>3 DEF DropOrphan
      <3>4. CASE Expire(p, w)
        BY <3>4 DEF Expire
      <3>. QED
        BY <2>14, <3>1, <3>2, <3>3, <3>4
    <2>. QED
      BY <1>2, <2>1, <2>2, <2>3, <2>4, <2>5, <2>6, <2>7, <2>8, <2>9, <2>10, <2>11, <2>12, <2>13, <2>14 DEF Step
  <1>3. ASSUME NEW p \in Proc, Fate(p) PROVE Goal
    <2>1. CASE Launch(p)
      BY <2>1 DEF Launch
    <2>2. CASE Hang(p)
      BY <2>2 DEF Hang
    <2>3. CASE Stop(p)
      BY <2>3 DEF Stop, AfterRequest
    <2>4. CASE FailEarly(p)
      BY <2>4 DEF FailEarly
    <2>5. CASE Crash(p)
      BY <2>5 DEF Crash, End, Killed, Of
    <2>. QED
      BY <1>3, <2>1, <2>2, <2>3, <2>4, <2>5 DEF Fate
  <1>4. CASE UNCHANGED vars
    BY <1>4 DEF vars
  <1>. QED
    BY <1>1, <1>2, <1>3, <1>4 DEF Next

\* The initial state satisfies all of it.
LEMMA InitialState ==
  Init => /\ HeldByOwner /\ PidFileNamesOwner /\ RecordsAreTrue
          /\ EvictionIsJustified /\ OutrankedHolderIsGone /\ LivePidsDiffer
  BY DEF Init, HeldByOwner, PidFileNamesOwner, RecordsAreTrue, Truthful, EvictionIsJustified,
         OutrankedHolderIsGone, LivePidsDiffer, Alive, Owning, StorageOpen, Published, NoMeta

\* At any time at most one daemon has the profile's storage open.
THEOREM OneDaemon == Spec => []OneDaemonServes
  <1>1. HeldByOwner => OneDaemonServes
    BY SoleOwner DEF OneDaemonServes, Owning
  <1>. QED
    BY <1>1, InitialState, TypeCorrect, HeldByOwnerStep, PTL DEF Spec

\* The lock belongs to the owner of the profile and to nobody else.
THEOREM LockBelongsToOwner == Spec => []HeldByOwner
  BY InitialState, TypeCorrect, HeldByOwnerStep, PTL DEF Spec

\* The PID file names the owner, or a run that crashed.
THEOREM PidFileTruth == Spec => []PidFileNamesOwner
  BY InitialState, TypeCorrect, LockBelongsToOwner, PidFileStep, PTL DEF Spec

\* Records are truthful and evictions justified in every reachable state.
LEMMA Justified == Spec => [](RecordsAreTrue /\ EvictionIsJustified)
  BY InitialState, TypeCorrect, RecordsStep, EvictionStep, PTL DEF Spec

\* A contender never signals a newer version, itself, or a run that has not
\* owned the profile, as long as process ids are not recycled.
THEOREM DowngradeProtection == DistinctPids => (Spec => []VictimIsNotNewer)
  <1> SUFFICES ASSUME DistinctPids PROVE Spec => []VictimIsNotNewer
    OBVIOUS
  <1>1. TypeOK /\ RecordsAreTrue /\ EvictionIsJustified => VictimIsNotNewer
    BY ConstantsAssumption
    DEF TypeOK, RecordsAreTrue, Truthful, EvictionIsJustified, VictimIsNotNewer, DistinctPids,
        Named, Alive, Meta, NoMeta
  <1>. QED
    BY <1>1, TypeCorrect, Justified, PTL

\* An out-ranked holder is gone before its evictor waits on or is refused.
THEOREM EvictionIsEffective == DistinctPids => (Spec => []OutrankedHolderIsGone)
  <1> SUFFICES ASSUME DistinctPids PROVE Spec => []OutrankedHolderIsGone
    OBVIOUS
  <1>1. TypeOK /\ RecordsAreTrue /\ EvictionIsJustified /\ OutrankedHolderIsGone /\ [Next]_vars
        => OutrankedHolderIsGone'
    BY GoneStep
  <1>. QED
    BY <1>1, InitialState, TypeCorrect, Justified, PTL DEF Spec

\* The judgement that sent a contender after a holder still holds at each of its
\* signals, however long it waited and whatever the clock did meanwhile
\* (should_evict_holder, try_evict_outranked_holder).
THEOREM JudgementStaysTrue == Spec => []VictimIsOutranked
  <1>1. Init => VictimIsOutranked
    BY DEF Init, VictimIsOutranked
  <1>. QED
    BY <1>1, TypeCorrect, Justified, OutrankedStep, PTL DEF Spec

\* A recycled process id is the only thing that misleads the escalation: where no
\* id is given out twice, the serving daemon that is killed is the one whose
\* record was read ("a recycled PID must not be SIGKILL'd").
THEOREM OnlyRecyclingMisleads == DistinctPids => (Spec => RecycledPidIsNotKilled)
  <1> SUFFICES ASSUME DistinctPids PROVE Spec => RecycledPidIsNotKilled
    OBVIOUS
  <1>1. TypeOK /\ RecordsAreTrue /\ EvictionIsJustified /\ [Next]_vars
        => [\A p, q \in Proc :
              pc[p] = "kill" /\ pc'[p] = "waitKill" /\ pc[q] = "serving" /\ pc'[q] = "dead"
                => q = holder[p].by]_vars
    BY RecycledStep DEF Forced
  <1>. QED
    BY <1>1, TypeCorrect, Justified, PTL DEF Spec, RecycledPidIsNotKilled

-----------------------------------------------------------------------------
(* The arbitration implements ProfileOwnership.                             *)

\* Who does not change phase does not change standing.
LEMMA StandingKept ==
  ASSUME \A q \in Proc : StandingOf(pc'[q]) = StandingOf(pc[q])
  PROVE  Standing' = Standing
  BY DEF Standing

\* One run that changes phase changes its own standing only.
LEMMA StandingMoves ==
  ASSUME NEW p \in Proc, NEW s, StandingOf(pc'[p]) = s,
         \A q \in Proc \ {p} : StandingOf(pc'[q]) = StandingOf(pc[q])
  PROVE  Standing' = [Standing EXCEPT ![p] = s]
  BY DEF Standing

\* A claim that gets the lock is an Own of the abstract specification.
LEMMA Owned ==
  ASSUME NEW p \in Proc, StandingOf(pc[p]) = "asking", StandingOf(pc'[p]) = "owner",
         \A q \in Proc : pc[q] \notin Owning,
         \A q \in Proc \ {p} : StandingOf(pc'[q]) = StandingOf(pc[q])
  PROVE  Ownership!Next
  <1>1. Standing' = [Standing EXCEPT ![p] = "owner"]
    BY StandingMoves
  <1>2. Standing[p] = "asking" /\ \A q \in Proc : Standing[q] # "owner"
    BY DEF Standing, StandingOf
  <1>. QED
    BY <1>1, <1>2 DEF Ownership!Next, Ownership!Own, Ownership!Becomes

\* A claim that is refused is a Deny.
LEMMA Denied ==
  ASSUME NEW p \in Proc, StandingOf(pc[p]) = "asking", StandingOf(pc'[p]) = "denied",
         \A q \in Proc \ {p} : StandingOf(pc'[q]) = StandingOf(pc[q])
  PROVE  Ownership!Next
  <1>1. Standing' = [Standing EXCEPT ![p] = "denied"] /\ Standing[p] = "asking"
    BY StandingMoves DEF Standing
  <1>. QED
    BY <1>1 DEF Ownership!Next, Ownership!Deny, Ownership!Becomes

\* A run that ends either leaves, or had already left.
LEMMA Ended ==
  ASSUME TypeOK, NEW p \in Proc, Alive(p), End(p)
  PROVE  Ownership!Next \/ Standing' = Standing
  <1>1. StandingOf(pc'[p]) = "gone" /\ StandingOf(pc[p]) \in {"asking", "owner", "denied", "gone"}
    BY DEF End, Killed, Alive, Phase, StandingOf, Claiming, Owning, StorageOpen, Wait, TypeOK, Goto, Park
  <1>2. \A q \in Proc \ {p} : StandingOf(pc'[q]) = StandingOf(pc[q])
    BY DEF End, Killed, TypeOK
  <1>3. Standing' = [Standing EXCEPT ![p] = "gone"] /\ Standing[p] = StandingOf(pc[p])
    BY <1>1, <1>2, StandingMoves DEF Standing
  <1>4. CASE Standing[p] = "gone"
    BY <1>3, <1>4 DEF Standing
  <1>5. CASE Standing[p] # "gone"
    BY <1>1, <1>3, <1>5 DEF Ownership!Next, Ownership!Leave, Ownership!Becomes
  <1>. QED
    BY <1>4, <1>5

\* Every step is a step of ProfileOwnership, or leaves every standing alone.
LEMMA OwnershipStep ==
  ASSUME TypeOK, HeldByOwner, EvictionIsJustified, LivePidsDiffer, [Next]_vars
  PROVE  Ownership!Next \/ Standing' = Standing
  <1> DEFINE Goal == Ownership!Next \/ Standing' = Standing
  <1>0. ASSUME NEW p \in Proc, StandingOf(pc[p]) \in {"asking", "owner", "denied"},
               StandingOf(pc'[p]) = "gone",
               \A q \in Proc \ {p} : StandingOf(pc'[q]) = StandingOf(pc[q])
        PROVE  Goal
    <2>1. Standing' = [Standing EXCEPT ![p] = "gone"]
      BY <1>0, StandingMoves
    <2>2. Standing[p] = StandingOf(pc[p])
      BY DEF Standing
    <2>. QED
      BY <1>0, <2>1, <2>2 DEF Ownership!Next, Ownership!Leave, Ownership!Becomes
  <1>1. CASE Tick
    BY <1>1, StandingKept DEF Tick
  <1>2. ASSUME NEW p \in Proc, Step(p) PROVE Goal
    <2>1. CASE TryAcquire(p)
      <3>1. CASE pc'[p] = "claimed"
        <4>1. \A q \in Proc : pc[q] \notin Owning
          BY <2>1, <3>1 DEF TryAcquire, HeldByOwner, Goto, TypeOK
        <4>. QED
          BY <2>1, <3>1, <4>1, Owned DEF TryAcquire, StandingOf, Claiming, Owning, StorageOpen, Wait, TypeOK, Goto, Park
      <3>2. CASE pc'[p] = "read"
        <4>1. \A q \in Proc : StandingOf(pc'[q]) = StandingOf(pc[q])
          BY <2>1, <3>2 DEF TryAcquire, StandingOf, Claiming, Owning, StorageOpen, Wait, TypeOK, Goto, Park
        <4>. QED
          BY <4>1, StandingKept
      <3>3. CASE pc'[p] = "refused"
        BY <2>1, <3>3, Denied DEF TryAcquire, StandingOf, Claiming, Owning, StorageOpen, Wait, TypeOK, Goto, Park
      <3>. QED
        BY <2>1, <3>1, <3>2, <3>3 DEF TryAcquire, Goto, TypeOK
    <2>2. CASE ReadMeta(p)
      <3>1. \A q \in Proc : StandingOf(pc'[q]) = StandingOf(pc[q])
        BY <2>2 DEF ReadMeta, StandingOf, Claiming, Owning, StorageOpen, Wait, TypeOK, Goto, Park
      <3>. QED
        BY <3>1, StandingKept
    <2>3. CASE Judge(p)
      <3>1. \A q \in Proc : StandingOf(pc'[q]) = StandingOf(pc[q])
        BY <2>3 DEF Judge, StandingOf, Claiming, Owning, StorageOpen, Wait, TypeOK, Goto, Park
      <3>. QED
        BY <3>1, StandingKept
    <2>4. CASE Terminate(p)
      <3> DEFINE hit == Named(holder[p])
                 dying == {q \in hit : pc[q] \notin Handling}
      <3>1. p \notin hit
        BY <2>4 DEF Terminate, EvictionIsJustified, Named
      <3>2. \A q \in Proc \ dying : StandingOf(pc'[q]) = StandingOf(pc[q])
        BY <2>4, <3>1 DEF Terminate, AfterRequest, StandingOf, Claiming, Owning, StorageOpen, Wait, TypeOK, Goto, Park
      <3>3. CASE dying = {}
        BY <3>2, <3>3, StandingKept
      <3>4. ASSUME NEW q \in dying PROVE Goal
        <4>1. \A r \in dying : r = q
          BY DEF Named, LivePidsDiffer
        <4>2. q \in Proc /\ pc'[q] = "dead" /\ pc[q] \notin {"off", "dead", "released"}
          BY <2>4, <3>1, <4>1 DEF Terminate, Named, Alive, Handling, TypeOK
        <4>3. StandingOf(pc[q]) \in {"asking", "owner", "denied"} /\ StandingOf(pc'[q]) = "gone"
          BY <4>2 DEF StandingOf, Claiming, Owning, StorageOpen, Wait, TypeOK, Goto, Park, Phase
        <4>. QED
          BY <1>0, <3>2, <4>1, <4>2, <4>3
      <3>. QED
        BY <3>3, <3>4
    <2>5. CASE Reverify(p)
      <3>1. \A q \in Proc : StandingOf(pc'[q]) = StandingOf(pc[q])
        BY <2>5 DEF Reverify, StandingOf, Claiming, Owning, StorageOpen, Wait, TypeOK, Goto, Park
      <3>. QED
        BY <3>1, StandingKept
    <2>6. CASE ForceKill(p)
      <3> DEFINE hit == Named(holder[p])
      <3>1. p \notin hit
        BY <2>6 DEF ForceKill, EvictionIsJustified, Named
      <3>2. \A q \in Proc \ hit : StandingOf(pc'[q]) = StandingOf(pc[q])
        BY <2>6, <3>1 DEF ForceKill, Killed, StandingOf, Claiming, Owning, StorageOpen, Wait, TypeOK, Goto, Park
      <3>3. CASE hit = {}
        BY <3>2, <3>3, StandingKept
      <3>4. ASSUME NEW q \in hit PROVE Goal
        <4>1. \A r \in hit : r = q
          BY DEF Named, LivePidsDiffer
        <4>2. q \in Proc /\ pc'[q] = "dead" /\ pc[q] \notin {"off", "dead"}
          BY <2>6, <3>1, <4>1 DEF ForceKill, Killed, Named, Alive, TypeOK
        <4>3. StandingOf(pc'[q]) = "gone"
          BY <4>2 DEF StandingOf, Claiming, Owning, StorageOpen, Wait, TypeOK, Goto, Park, Phase
        <4>4. CASE pc[q] = "released"
          <5>1. StandingOf(pc[q]) = "gone"
            BY <4>4 DEF StandingOf, Claiming, Owning, StorageOpen, Wait, TypeOK, Goto, Park
          <5>. QED
            BY <3>2, <4>1, <4>3, <5>1, StandingKept
        <4>5. CASE pc[q] # "released"
          <5>1. StandingOf(pc[q]) \in {"asking", "owner", "denied"}
            BY <4>2, <4>5 DEF StandingOf, Claiming, Owning, StorageOpen, Wait, TypeOK, Goto, Park, Phase
          <5>. QED
            BY <1>0, <3>2, <4>1, <4>2, <4>3, <5>1
        <4>. QED
          BY <4>4, <4>5
      <3>. QED
        BY <3>3, <3>4
    <2>7. CASE TruncatePidFile(p)
      <3>1. \A q \in Proc : StandingOf(pc'[q]) = StandingOf(pc[q])
        BY <2>7 DEF TruncatePidFile, StandingOf, Claiming, Owning, StorageOpen, Wait, TypeOK, Goto, Park
      <3>. QED
        BY <3>1, StandingKept
    <2>8. CASE WritePidFile(p)
      <3>1. \A q \in Proc : StandingOf(pc'[q]) = StandingOf(pc[q])
        BY <2>8 DEF WritePidFile, StandingOf, Claiming, Owning, StorageOpen, Wait, TypeOK, Goto, Park
      <3>. QED
        BY <3>1, StandingKept
    <2>9. CASE InstallHandler(p)
      <3>1. \A q \in Proc : StandingOf(pc'[q]) = StandingOf(pc[q])
        BY <2>9 DEF InstallHandler, StandingOf, Claiming, Owning, StorageOpen, Wait, TypeOK, Goto, Park
      <3>. QED
        BY <3>1, StandingKept
    <2>10. CASE CloseEngine(p)
      <3>1. \A q \in Proc : StandingOf(pc'[q]) = StandingOf(pc[q])
        BY <2>10 DEF CloseEngine, StandingOf, Claiming, Owning, StorageOpen, Wait, TypeOK, Goto, Park
      <3>. QED
        BY <3>1, StandingKept
    <2>11. CASE RemovePidFile(p)
      <3>1. \A q \in Proc : StandingOf(pc'[q]) = StandingOf(pc[q])
        BY <2>11 DEF RemovePidFile, StandingOf, Claiming, Owning, StorageOpen, Wait, TypeOK, Goto, Park
      <3>. QED
        BY <3>1, StandingKept
    <2>12. CASE Release(p)
      BY <2>12, <1>0 DEF Release, StandingOf, Claiming, Owning, StorageOpen, Wait, TypeOK, Goto, Park
    <2>13. CASE Exit(p)
      BY <2>13, Ended DEF Exit, Alive
    <2>14. ASSUME NEW w \in Wait, Grant(p, w) \/ Receive(p, w) \/ DropOrphan(p, w) \/ Expire(p, w)
           PROVE  Goal
      <3>1. CASE Grant(p, w) \/ DropOrphan(p, w)
        BY <3>1, StandingKept DEF Grant, DropOrphan
      <3>2. CASE Receive(p, w)
        <4>1. \A q \in Proc : pc[q] \notin Owning
          BY <3>2 DEF Receive, HeldByOwner, Wait
        <4>. QED
          BY <3>2, <4>1, Owned DEF Receive, StandingOf, Claiming, Owning, StorageOpen, Wait, TypeOK, Goto, Park
      <3>3. CASE Expire(p, w)
        <4>1. CASE pc'[p] = "refused"
          BY <3>3, <4>1, Denied DEF Expire, StandingOf, Claiming, Owning, StorageOpen, Wait, TypeOK, Goto, Park
        <4>2. CASE pc'[p] # "refused"
          <5>1. \A q \in Proc : StandingOf(pc'[q]) = StandingOf(pc[q])
            BY <3>3, <4>2 DEF Expire, StandingOf, Claiming, Owning, StorageOpen, Wait, TypeOK, Goto, Park
          <5>. QED
            BY <5>1, StandingKept
        <4>. QED
          BY <4>1, <4>2
      <3>. QED
        BY <2>14, <3>1, <3>2, <3>3
    <2>. QED
      BY <1>2, <2>1, <2>2, <2>3, <2>4, <2>5, <2>6, <2>7, <2>8, <2>9, <2>10, <2>11, <2>12, <2>13, <2>14 DEF Step
  <1>3. ASSUME NEW p \in Proc, Fate(p) PROVE Goal
    <2>1. CASE Launch(p)
      <3>1. StandingOf(pc'[p]) = "asking" /\ StandingOf(pc[p]) = "absent"
        BY <2>1 DEF Launch, StandingOf, Claiming, Owning, StorageOpen, Wait, TypeOK, Goto, Park
      <3>2. \A q \in Proc \ {p} : StandingOf(pc'[q]) = StandingOf(pc[q])
        BY <2>1 DEF Launch, StandingOf, Claiming, Owning, StorageOpen, Wait, TypeOK, Goto, Park
      <3>3. Standing' = [Standing EXCEPT ![p] = "asking"] /\ Standing[p] = "absent"
        BY <3>1, <3>2, StandingMoves DEF Standing
      <3>. QED
        BY <3>3 DEF Ownership!Next, Ownership!Ask, Ownership!Becomes
    <2>2. CASE Hang(p)
      <3>1. \A q \in Proc : StandingOf(pc'[q]) = StandingOf(pc[q])
        BY <2>2 DEF Hang, StandingOf, Claiming, Owning, StorageOpen, Wait, TypeOK, Goto, Park
      <3>. QED
        BY <3>1, StandingKept
    <2>3. CASE Stop(p)
      <3>1. \A q \in Proc : StandingOf(pc'[q]) = StandingOf(pc[q])
        BY <2>3 DEF Stop, AfterRequest, StandingOf, Claiming, Owning, StorageOpen, Wait, TypeOK, Goto, Park
      <3>. QED
        BY <3>1, StandingKept
    <2>4. CASE FailEarly(p)
      <3>1. \A q \in Proc : StandingOf(pc'[q]) = StandingOf(pc[q])
        BY <2>4 DEF FailEarly, StandingOf, Claiming, Owning, StorageOpen, Wait, TypeOK, Goto, Park
      <3>. QED
        BY <3>1, StandingKept
    <2>5. CASE Crash(p)
      BY <2>5, Ended DEF Crash
    <2>. QED
      BY <1>3, <2>1, <2>2, <2>3, <2>4, <2>5 DEF Fate
  <1>4. CASE UNCHANGED vars
    BY <1>4, StandingKept DEF vars
  <1>. QED
    BY <1>1, <1>2, <1>3, <1>4 DEF Next

\* The arbitration implements what the single-instance rule promises.
THEOREM ArbitrationIsOwnership == Spec => ImplementsOwnership
  <1>1. Init => Ownership!Init
    <2>1. StandingOf("off") = "absent"
      BY DEF StandingOf, Claiming, Owning, StorageOpen, Wait
    <2>. QED
      BY <2>1 DEF Init, Ownership!Init, Standing
  <1>2. TypeOK /\ HeldByOwner /\ EvictionIsJustified /\ LivePidsDiffer /\ [Next]_vars
        => [Ownership!Next]_Standing
    BY OwnershipStep
  <1>. QED
    BY <1>1, <1>2, InitialState, TypeCorrect, LockBelongsToOwner, Justified, LivePidsStep, PTL
    DEF Spec, ImplementsOwnership, Ownership!Spec

=============================================================================
