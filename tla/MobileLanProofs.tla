-------------------------- MODULE MobileLanProofs --------------------------
(***************************************************************************)
(* For any ports and any number of changes: the types, at most one         *)
(* listener at a time, and a status that is true whenever nobody           *)
(* reconciles.                                                             *)
(***************************************************************************)
EXTENDS MobileLan, TLAPS

-----------------------------------------------------------------------------
(* The types, a group of variables at a time.                              *)

TypeData ==
  /\ wanted \in Targets /\ writes \in 0..MaxWrites /\ recovered \in BOOLEAN
  /\ target \in [Tasks -> Targets]
  /\ owed \in BOOLEAN

TypeEvents == events \in Seq(Events)

TypeControl ==
  /\ phase \in {"starting", "running", "stopping", "leaving", "gone"}
  /\ cancelled \in BOOLEAN /\ serving \in BOOLEAN
  /\ work \in [Tasks -> {"rest", "ask", "wait"} \cup Inside]
  /\ lock \in Tasks \cup {Off}

TypeListener ==
  /\ record \in Targets
  /\ server \in [Ports -> {"none", "listening", "draining"}]
  /\ busy \in [Ports -> BOOLEAN]
  /\ status \in Statuses

LEMMA TypeParts == TypeOK <=> TypeData /\ TypeEvents /\ TypeControl /\ TypeListener
  BY DEF TypeOK, TypeData, TypeEvents, TypeControl, TypeListener

\* What the events are.
LEMMA EventKinds ==
  /\ \A t \in Targets : Change(t) \in Events
  /\ Recovery \in Events /\ Refresh \in Events
  /\ \A e \in Events : e.target \in Targets
  BY DEF Events, Change, Recovery, Refresh, Targets

\* Taking and appending keep a queue of events one.
LEMMA QueueOps ==
  ASSUME events \in Seq(Events)
  PROVE  /\ \A e \in Events : Append(events, e) \in Seq(Events)
         /\ events # <<>> => Tail(events) \in Seq(Events) /\ Head(events) \in Events
         /\ \A e \in Events : <<e>> \in Seq(Events)
  OBVIOUS

\* A step keeps the type of the event stream.
LEMMA EventsTyped ==
  ASSUME TypeData, TypeEvents, [Next]_vars
  PROVE  TypeEvents'
  <1>0. CASE UNCHANGED vars
    BY <1>0, QueueOps, EventKinds DEF vars, TypeEvents
  <1>1. ASSUME NEW t \in Targets, Write(t) PROVE TypeEvents'
    BY <1>1, QueueOps, EventKinds DEF Write, Goto, settings, life, controller, TypeEvents
  <1>2. CASE Recover
    BY <1>2, QueueOps, EventKinds DEF Recover, Goto, settings, life, controller, TypeEvents
  <1>3. CASE Burst
    BY <1>3, QueueOps, EventKinds DEF Burst, Goto, settings, life, controller, TypeEvents
  <1>4. ASSUME NEW p \in Ports, Request(p) PROVE TypeEvents'
    BY <1>4, QueueOps, EventKinds DEF Request, Goto, settings, life, controller, TypeEvents
  <1>5. ASSUME NEW p \in Ports, Answer(p) PROVE TypeEvents'
    BY <1>5, QueueOps, EventKinds DEF Answer, Goto, settings, life, controller, TypeEvents
  <1>6. CASE TakeChange
    BY <1>6, QueueOps, EventKinds DEF TakeChange, Goto, settings, life, controller, TypeEvents
  <1>7. CASE TakeRecovery
    BY <1>7, QueueOps, EventKinds DEF TakeRecovery, Goto, settings, life, controller, TypeEvents
  <1>8. CASE TakeRefresh
    BY <1>8, QueueOps, EventKinds DEF TakeRefresh, Goto, settings, life, controller, TypeEvents
  <1>9. CASE Quit
    BY <1>9, QueueOps, EventKinds DEF Quit, Goto, settings, life, controller, TypeEvents
  <1>10. ASSUME NEW t \in Tasks, Asked(t) PROVE TypeEvents'
    BY <1>10, QueueOps, EventKinds DEF Asked, Goto, settings, life, controller, TypeEvents
  <1>11. ASSUME NEW t \in Tasks, AskFailed(t) PROVE TypeEvents'
    BY <1>11, QueueOps, EventKinds DEF AskFailed, Goto, settings, life, controller, TypeEvents
  <1>12. ASSUME NEW t \in Tasks, Reached(t) PROVE TypeEvents'
    BY <1>12, QueueOps, EventKinds DEF Reached, Goto, settings, life, controller, TypeEvents
  <1>13. ASSUME NEW t \in Tasks, Stop(t) PROVE TypeEvents'
    BY <1>13, QueueOps, EventKinds DEF Stop, Goto, settings, life, controller, TypeEvents
  <1>14. ASSUME NEW t \in Tasks, Start(t) PROVE TypeEvents'
    BY <1>14, QueueOps, EventKinds DEF Start, Goto, settings, life, controller, TypeEvents
  <1>15. ASSUME NEW t \in Tasks, Joined(t) PROVE TypeEvents'
    BY <1>15, QueueOps, EventKinds DEF Joined, Goto, settings, life, controller, TypeEvents
  <1>16. ASSUME NEW t \in Tasks, PublishStopped(t) PROVE TypeEvents'
    BY <1>16, QueueOps, EventKinds DEF PublishStopped, Goto, settings, life, controller, TypeEvents
  <1>17. ASSUME NEW t \in Tasks, Bind(t) PROVE TypeEvents'
    BY <1>17, QueueOps, EventKinds DEF Bind, Goto, settings, life, controller, TypeEvents
  <1>18. ASSUME NEW t \in Tasks, BindFails(t) PROVE TypeEvents'
    BY <1>18, QueueOps, EventKinds DEF BindFails, Goto, settings, life, controller, TypeEvents
  <1>19. ASSUME NEW t \in Tasks, PublishListening(t) PROVE TypeEvents'
    BY <1>19, QueueOps, EventKinds DEF PublishListening, Goto, settings, life, controller, TypeEvents
  <1>20. ASSUME NEW t \in Tasks, PublishFailed(t) PROVE TypeEvents'
    BY <1>20, QueueOps, EventKinds DEF PublishFailed, Goto, settings, life, controller, TypeEvents
  <1>21. CASE Run
    BY <1>21, QueueOps, EventKinds DEF Run, Goto, settings, life, controller, TypeEvents
  <1>22. CASE Disabled
    BY <1>22, QueueOps, EventKinds DEF Disabled, Goto, settings, life, controller, TypeEvents
  <1>23. CASE Leave
    BY <1>23, QueueOps, EventKinds DEF Leave, Goto, settings, life, controller, TypeEvents
  <1>24. CASE EndRun
    BY <1>24, QueueOps, EventKinds DEF EndRun, Goto, settings, life, controller, TypeEvents
  <1> QED
    BY <1>0, <1>1, <1>2, <1>3, <1>4, <1>5, <1>6, <1>7, <1>8, <1>9, <1>10, <1>11, <1>12, <1>13, <1>14, <1>15, <1>16, <1>17, <1>18, <1>19, <1>20, <1>21, <1>22, <1>23, <1>24
    DEF Next, World, Take, Reconcile, HostStep

\* A step keeps the types of the settings and the targets.
LEMMA DataTyped ==
  ASSUME TypeData, TypeEvents, [Next]_vars
  PROVE  TypeData'
  <1>0. CASE UNCHANGED vars
    BY <1>0, ConstantsAssumption DEF vars, TypeData
  <1>1. ASSUME NEW t \in Targets, Write(t) PROVE TypeData'
    <2>1. writes' \in 0..MaxWrites BY <1>1, ConstantsAssumption DEF Write, TypeData
    <2>2. owed' \in BOOLEAN BY <1>1 DEF Write
    <2> QED BY <2>1, <2>2, <1>1 DEF Write, TypeData
  <1>2. CASE Recover
    BY <1>2, ConstantsAssumption DEF Recover, Goto, settings, life, controller, TypeData
  <1>3. CASE Burst
    BY <1>3, ConstantsAssumption DEF Burst, Goto, settings, life, controller, TypeData
  <1>4. ASSUME NEW p \in Ports, Request(p) PROVE TypeData'
    BY <1>4, ConstantsAssumption DEF Request, Goto, settings, life, controller, TypeData
  <1>5. ASSUME NEW p \in Ports, Answer(p) PROVE TypeData'
    BY <1>5, ConstantsAssumption DEF Answer, Goto, settings, life, controller, TypeData
  <1>6. CASE TakeChange
    <2>1. Head(events).target \in Targets BY <1>6, QueueOps, EventKinds DEF TakeChange, TypeEvents
    <2> QED BY <2>1, <1>6 DEF TakeChange, TypeData, settings, Tasks
  <1>7. CASE TakeRecovery
    BY <1>7, ConstantsAssumption DEF TakeRecovery, Goto, settings, life, controller, TypeData
  <1>8. CASE TakeRefresh
    BY <1>8, ConstantsAssumption DEF TakeRefresh, Goto, settings, life, controller, TypeData
  <1>9. CASE Quit
    BY <1>9, ConstantsAssumption DEF Quit, Goto, settings, life, controller, TypeData
  <1>10. ASSUME NEW t \in Tasks, Asked(t) PROVE TypeData'
    BY <1>10 DEF Asked, TypeData, settings, Targets
  <1>11. ASSUME NEW t \in Tasks, AskFailed(t) PROVE TypeData'
    BY <1>11 DEF AskFailed, TypeData, settings, Targets
  <1>12. ASSUME NEW t \in Tasks, Reached(t) PROVE TypeData'
    BY <1>12, ConstantsAssumption DEF Reached, Goto, settings, life, controller, TypeData
  <1>13. ASSUME NEW t \in Tasks, Stop(t) PROVE TypeData'
    BY <1>13, ConstantsAssumption DEF Stop, Goto, settings, life, controller, TypeData
  <1>14. ASSUME NEW t \in Tasks, Start(t) PROVE TypeData'
    BY <1>14, ConstantsAssumption DEF Start, Goto, settings, life, controller, TypeData
  <1>15. ASSUME NEW t \in Tasks, Joined(t) PROVE TypeData'
    BY <1>15, ConstantsAssumption DEF Joined, Goto, settings, life, controller, TypeData
  <1>16. ASSUME NEW t \in Tasks, PublishStopped(t) PROVE TypeData'
    BY <1>16, ConstantsAssumption DEF PublishStopped, Goto, settings, life, controller, TypeData
  <1>17. ASSUME NEW t \in Tasks, Bind(t) PROVE TypeData'
    BY <1>17, ConstantsAssumption DEF Bind, Goto, settings, life, controller, TypeData
  <1>18. ASSUME NEW t \in Tasks, BindFails(t) PROVE TypeData'
    BY <1>18, ConstantsAssumption DEF BindFails, Goto, settings, life, controller, TypeData
  <1>19. ASSUME NEW t \in Tasks, PublishListening(t) PROVE TypeData'
    BY <1>19, ConstantsAssumption DEF PublishListening, Goto, settings, life, controller, TypeData
  <1>20. ASSUME NEW t \in Tasks, PublishFailed(t) PROVE TypeData'
    BY <1>20, ConstantsAssumption DEF PublishFailed, Goto, settings, life, controller, TypeData
  <1>21. CASE Run
    BY <1>21, ConstantsAssumption DEF Run, Goto, settings, life, controller, TypeData
  <1>22. CASE Disabled
    BY <1>22, ConstantsAssumption DEF Disabled, Goto, settings, life, controller, TypeData
  <1>23. CASE Leave
    BY <1>23, ConstantsAssumption DEF Leave, Goto, settings, life, controller, TypeData
  <1>24. CASE EndRun
    BY <1>24 DEF EndRun, TypeData, settings, Targets
  <1> QED
    BY <1>0, <1>1, <1>2, <1>3, <1>4, <1>5, <1>6, <1>7, <1>8, <1>9, <1>10, <1>11, <1>12, <1>13, <1>14, <1>15, <1>16, <1>17, <1>18, <1>19, <1>20, <1>21, <1>22, <1>23, <1>24
    DEF Next, World, Take, Reconcile, HostStep

\* A step keeps the types of the control.
LEMMA ControlTyped ==
  ASSUME TypeControl, [Next]_vars
  PROVE  TypeControl'
  <1>0. CASE UNCHANGED vars
    BY <1>0 DEF vars, TypeControl, Inside, Tasks
  <1>1. ASSUME NEW t \in Targets, Write(t) PROVE TypeControl'
    BY <1>1 DEF Write, Goto, settings, life, controller, TypeControl, Inside, Tasks
  <1>2. CASE Recover
    BY <1>2 DEF Recover, Goto, settings, life, controller, TypeControl, Inside, Tasks
  <1>3. CASE Burst
    BY <1>3 DEF Burst, Goto, settings, life, controller, TypeControl, Inside, Tasks
  <1>4. ASSUME NEW p \in Ports, Request(p) PROVE TypeControl'
    BY <1>4 DEF Request, Goto, settings, life, controller, TypeControl, Inside, Tasks
  <1>5. ASSUME NEW p \in Ports, Answer(p) PROVE TypeControl'
    BY <1>5 DEF Answer, Goto, settings, life, controller, TypeControl, Inside, Tasks
  <1>6. CASE TakeChange
    BY <1>6 DEF TakeChange, Goto, settings, life, controller, TypeControl, Inside, Tasks
  <1>7. CASE TakeRecovery
    BY <1>7 DEF TakeRecovery, Goto, settings, life, controller, TypeControl, Inside, Tasks
  <1>8. CASE TakeRefresh
    BY <1>8 DEF TakeRefresh, Goto, settings, life, controller, TypeControl, Inside, Tasks
  <1>9. CASE Quit
    BY <1>9 DEF Quit, Goto, settings, life, controller, TypeControl, Inside, Tasks
  <1>10. ASSUME NEW t \in Tasks, Asked(t) PROVE TypeControl'
    BY <1>10 DEF Asked, Goto, settings, life, controller, TypeControl, Inside, Tasks
  <1>11. ASSUME NEW t \in Tasks, AskFailed(t) PROVE TypeControl'
    BY <1>11 DEF AskFailed, Goto, settings, life, controller, TypeControl, Inside, Tasks
  <1>12. ASSUME NEW t \in Tasks, Reached(t) PROVE TypeControl'
    BY <1>12 DEF Reached, Goto, settings, life, controller, TypeControl, Inside, Tasks
  <1>13. ASSUME NEW t \in Tasks, Stop(t) PROVE TypeControl'
    BY <1>13 DEF Stop, Goto, settings, life, controller, TypeControl, Inside, Tasks
  <1>14. ASSUME NEW t \in Tasks, Start(t) PROVE TypeControl'
    BY <1>14 DEF Start, Goto, settings, life, controller, TypeControl, Inside, Tasks
  <1>15. ASSUME NEW t \in Tasks, Joined(t) PROVE TypeControl'
    BY <1>15 DEF Joined, Goto, settings, life, controller, TypeControl, Inside, Tasks
  <1>16. ASSUME NEW t \in Tasks, PublishStopped(t) PROVE TypeControl'
    BY <1>16 DEF PublishStopped, Goto, settings, life, controller, TypeControl, Inside, Tasks
  <1>17. ASSUME NEW t \in Tasks, Bind(t) PROVE TypeControl'
    BY <1>17 DEF Bind, Goto, settings, life, controller, TypeControl, Inside, Tasks
  <1>18. ASSUME NEW t \in Tasks, BindFails(t) PROVE TypeControl'
    BY <1>18 DEF BindFails, Goto, settings, life, controller, TypeControl, Inside, Tasks
  <1>19. ASSUME NEW t \in Tasks, PublishListening(t) PROVE TypeControl'
    BY <1>19 DEF PublishListening, Goto, settings, life, controller, TypeControl, Inside, Tasks
  <1>20. ASSUME NEW t \in Tasks, PublishFailed(t) PROVE TypeControl'
    BY <1>20 DEF PublishFailed, Goto, settings, life, controller, TypeControl, Inside, Tasks
  <1>21. CASE Run
    BY <1>21 DEF Run, Goto, settings, life, controller, TypeControl, Inside, Tasks
  <1>22. CASE Disabled
    BY <1>22 DEF Disabled, Goto, settings, life, controller, TypeControl, Inside, Tasks
  <1>23. CASE Leave
    BY <1>23 DEF Leave, Goto, settings, life, controller, TypeControl, Inside, Tasks
  <1>24. CASE EndRun
    BY <1>24 DEF EndRun, Goto, settings, life, controller, TypeControl, Inside, Tasks
  <1> QED
    BY <1>0, <1>1, <1>2, <1>3, <1>4, <1>5, <1>6, <1>7, <1>8, <1>9, <1>10, <1>11, <1>12, <1>13, <1>14, <1>15, <1>16, <1>17, <1>18, <1>19, <1>20, <1>21, <1>22, <1>23, <1>24
    DEF Next, World, Take, Reconcile, HostStep

\* A step keeps the types of the listener.
LEMMA ListenerTyped ==
  ASSUME TypeData, TypeListener, AimsAtPort, [Next]_vars
  PROVE  TypeListener'
  <1>0. CASE UNCHANGED vars
    BY <1>0 DEF vars, TypeListener
  <1>1. ASSUME NEW t \in Targets, Write(t) PROVE TypeListener'
    BY <1>1 DEF Write, Goto, settings, life, controller, TypeListener
  <1>2. CASE Recover
    BY <1>2 DEF Recover, Goto, settings, life, controller, TypeListener
  <1>3. CASE Burst
    BY <1>3 DEF Burst, Goto, settings, life, controller, TypeListener
  <1>4. ASSUME NEW p \in Ports, Request(p) PROVE TypeListener'
    BY <1>4 DEF Request, Goto, settings, life, controller, TypeListener
  <1>5. ASSUME NEW p \in Ports, Answer(p) PROVE TypeListener'
    BY <1>5 DEF Answer, Goto, settings, life, controller, TypeListener
  <1>6. CASE TakeChange
    BY <1>6 DEF TakeChange, Goto, settings, life, controller, TypeListener
  <1>7. CASE TakeRecovery
    BY <1>7 DEF TakeRecovery, Goto, settings, life, controller, TypeListener
  <1>8. CASE TakeRefresh
    BY <1>8 DEF TakeRefresh, Goto, settings, life, controller, TypeListener
  <1>9. CASE Quit
    BY <1>9 DEF Quit, Goto, settings, life, controller, TypeListener
  <1>10. ASSUME NEW t \in Tasks, Asked(t) PROVE TypeListener'
    BY <1>10 DEF Asked, Goto, settings, life, controller, TypeListener
  <1>11. ASSUME NEW t \in Tasks, AskFailed(t) PROVE TypeListener'
    BY <1>11 DEF AskFailed, Goto, settings, life, controller, TypeListener
  <1>12. ASSUME NEW t \in Tasks, Reached(t) PROVE TypeListener'
    BY <1>12 DEF Reached, Goto, settings, life, controller, TypeListener
  <1>13. ASSUME NEW t \in Tasks, Stop(t) PROVE TypeListener'
    BY <1>13 DEF Stop, Goto, TypeListener, Targets
  <1>14. ASSUME NEW t \in Tasks, Start(t) PROVE TypeListener'
    BY <1>14 DEF Start, Goto, settings, life, controller, TypeListener
  <1>15. ASSUME NEW t \in Tasks, Joined(t) PROVE TypeListener'
    BY <1>15 DEF Joined, Goto, settings, life, controller, TypeListener
  <1>16. ASSUME NEW t \in Tasks, PublishStopped(t) PROVE TypeListener'
    BY <1>16 DEF PublishStopped, TypeListener, Statuses
  <1>17. ASSUME NEW t \in Tasks, Bind(t) PROVE TypeListener'
    BY <1>17 DEF Bind, Goto, settings, life, controller, TypeListener
  <1>18. ASSUME NEW t \in Tasks, BindFails(t) PROVE TypeListener'
    BY <1>18 DEF BindFails, Goto, settings, life, controller, TypeListener
  <1>19. ASSUME NEW t \in Tasks, PublishListening(t) PROVE TypeListener'
    <2>1. target[t] \in Ports BY <1>19 DEF PublishListening, AimsAtPort
    <2>2. Listening(target[t]) \in Statuses BY <2>1 DEF Statuses
    <2> QED BY <2>1, <2>2, <1>19 DEF PublishListening, TypeListener, Targets
  <1>20. ASSUME NEW t \in Tasks, PublishFailed(t) PROVE TypeListener'
    BY <1>20 DEF PublishFailed, TypeListener, Statuses, controller
  <1>21. CASE Run
    BY <1>21 DEF Run, Goto, settings, life, controller, TypeListener
  <1>22. CASE Disabled
    BY <1>22 DEF Disabled, Goto, settings, life, controller, TypeListener
  <1>23. CASE Leave
    BY <1>23 DEF Leave, Goto, settings, life, controller, TypeListener
  <1>24. CASE EndRun
    BY <1>24 DEF EndRun, Goto, settings, life, controller, TypeListener
  <1> QED
    BY <1>0, <1>1, <1>2, <1>3, <1>4, <1>5, <1>6, <1>7, <1>8, <1>9, <1>10, <1>11, <1>12, <1>13, <1>14, <1>15, <1>16, <1>17, <1>18, <1>19, <1>20, <1>21, <1>22, <1>23, <1>24
    DEF Next, World, Take, Reconcile, HostStep

-----------------------------------------------------------------------------
(* The mutex and the places.                                               *)

\* A step keeps the mutex with the task that is inside.
LEMMA MutexKept ==
  ASSUME TypeControl, HostAtRest, MutexIsHeld, [Next]_vars
  PROVE  MutexIsHeld'
  <1>0. CASE UNCHANGED vars
    BY <1>0, ConstantsAssumption DEF vars, MutexIsHeld, HostAtRest, TypeControl, Inside
  <1>1. ASSUME NEW t \in Targets, Write(t) PROVE MutexIsHeld'
    BY <1>1, ConstantsAssumption DEF Write, Goto, settings, life, controller, MutexIsHeld, HostAtRest, TypeControl, Inside
  <1>2. CASE Recover
    BY <1>2, ConstantsAssumption DEF Recover, Goto, settings, life, controller, MutexIsHeld, HostAtRest, TypeControl, Inside
  <1>3. CASE Burst
    BY <1>3, ConstantsAssumption DEF Burst, Goto, settings, life, controller, MutexIsHeld, HostAtRest, TypeControl, Inside
  <1>4. ASSUME NEW p \in Ports, Request(p) PROVE MutexIsHeld'
    BY <1>4, ConstantsAssumption DEF Request, Goto, settings, life, controller, MutexIsHeld, HostAtRest, TypeControl, Inside
  <1>5. ASSUME NEW p \in Ports, Answer(p) PROVE MutexIsHeld'
    BY <1>5, ConstantsAssumption DEF Answer, Goto, settings, life, controller, MutexIsHeld, HostAtRest, TypeControl, Inside
  <1>6. CASE TakeChange
    BY <1>6, ConstantsAssumption DEF TakeChange, Goto, settings, life, controller, MutexIsHeld, HostAtRest, TypeControl, Inside
  <1>7. CASE TakeRecovery
    BY <1>7, ConstantsAssumption DEF TakeRecovery, Goto, settings, life, controller, MutexIsHeld, HostAtRest, TypeControl, Inside
  <1>8. CASE TakeRefresh
    BY <1>8, ConstantsAssumption DEF TakeRefresh, Goto, settings, life, controller, MutexIsHeld, HostAtRest, TypeControl, Inside
  <1>9. CASE Quit
    BY <1>9, ConstantsAssumption DEF Quit, Goto, settings, life, controller, MutexIsHeld, HostAtRest, TypeControl, Inside
  <1>10. ASSUME NEW t \in Tasks, Asked(t) PROVE MutexIsHeld'
    BY <1>10, ConstantsAssumption DEF Asked, Goto, settings, life, controller, MutexIsHeld, HostAtRest, TypeControl, Inside
  <1>11. ASSUME NEW t \in Tasks, AskFailed(t) PROVE MutexIsHeld'
    BY <1>11, ConstantsAssumption DEF AskFailed, Goto, settings, life, controller, MutexIsHeld, HostAtRest, TypeControl, Inside
  <1>12. ASSUME NEW t \in Tasks, Reached(t) PROVE MutexIsHeld'
    BY <1>12, ConstantsAssumption DEF Reached, Goto, settings, life, controller, MutexIsHeld, HostAtRest, TypeControl, Inside
  <1>13. ASSUME NEW t \in Tasks, Stop(t) PROVE MutexIsHeld'
    BY <1>13, ConstantsAssumption DEF Stop, Goto, settings, life, controller, MutexIsHeld, HostAtRest, TypeControl, Inside
  <1>14. ASSUME NEW t \in Tasks, Start(t) PROVE MutexIsHeld'
    BY <1>14, ConstantsAssumption DEF Start, Goto, settings, life, controller, MutexIsHeld, HostAtRest, TypeControl, Inside
  <1>15. ASSUME NEW t \in Tasks, Joined(t) PROVE MutexIsHeld'
    BY <1>15, ConstantsAssumption DEF Joined, Goto, settings, life, controller, MutexIsHeld, HostAtRest, TypeControl, Inside
  <1>16. ASSUME NEW t \in Tasks, PublishStopped(t) PROVE MutexIsHeld'
    BY <1>16, ConstantsAssumption DEF PublishStopped, Goto, settings, life, controller, MutexIsHeld, HostAtRest, TypeControl, Inside
  <1>17. ASSUME NEW t \in Tasks, Bind(t) PROVE MutexIsHeld'
    BY <1>17, ConstantsAssumption DEF Bind, Goto, settings, life, controller, MutexIsHeld, HostAtRest, TypeControl, Inside
  <1>18. ASSUME NEW t \in Tasks, BindFails(t) PROVE MutexIsHeld'
    BY <1>18, ConstantsAssumption DEF BindFails, Goto, settings, life, controller, MutexIsHeld, HostAtRest, TypeControl, Inside
  <1>19. ASSUME NEW t \in Tasks, PublishListening(t) PROVE MutexIsHeld'
    BY <1>19, ConstantsAssumption DEF PublishListening, Goto, settings, life, controller, MutexIsHeld, HostAtRest, TypeControl, Inside
  <1>20. ASSUME NEW t \in Tasks, PublishFailed(t) PROVE MutexIsHeld'
    BY <1>20, ConstantsAssumption DEF PublishFailed, Goto, settings, life, controller, MutexIsHeld, HostAtRest, TypeControl, Inside
  <1>21. CASE Run
    BY <1>21, ConstantsAssumption DEF Run, Goto, settings, life, controller, MutexIsHeld, HostAtRest, TypeControl, Inside
  <1>22. CASE Disabled
    BY <1>22, ConstantsAssumption DEF Disabled, Goto, settings, life, controller, MutexIsHeld, HostAtRest, TypeControl, Inside
  <1>23. CASE Leave
    BY <1>23, ConstantsAssumption DEF Leave, Goto, settings, life, controller, MutexIsHeld, HostAtRest, TypeControl, Inside
  <1>24. CASE EndRun
    BY <1>24, ConstantsAssumption DEF EndRun, Goto, settings, life, controller, MutexIsHeld, HostAtRest, TypeControl, Inside
  <1> QED
    BY <1>0, <1>1, <1>2, <1>3, <1>4, <1>5, <1>6, <1>7, <1>8, <1>9, <1>10, <1>11, <1>12, <1>13, <1>14, <1>15, <1>16, <1>17, <1>18, <1>19, <1>20, <1>21, <1>22, <1>23, <1>24
    DEF Next, World, Take, Reconcile, HostStep

\* A step leaves the host at rest while it runs.
LEMMA HostRestKept ==
  ASSUME TypeControl, HostAtRest, [Next]_vars
  PROVE  HostAtRest'
  <1>0. CASE UNCHANGED vars
    BY <1>0, ConstantsAssumption DEF vars, HostAtRest, TypeControl, Tasks
  <1>1. ASSUME NEW t \in Targets, Write(t) PROVE HostAtRest'
    BY <1>1, ConstantsAssumption DEF Write, Goto, settings, life, controller, HostAtRest, TypeControl, Tasks
  <1>2. CASE Recover
    BY <1>2, ConstantsAssumption DEF Recover, Goto, settings, life, controller, HostAtRest, TypeControl, Tasks
  <1>3. CASE Burst
    BY <1>3, ConstantsAssumption DEF Burst, Goto, settings, life, controller, HostAtRest, TypeControl, Tasks
  <1>4. ASSUME NEW p \in Ports, Request(p) PROVE HostAtRest'
    BY <1>4, ConstantsAssumption DEF Request, Goto, settings, life, controller, HostAtRest, TypeControl, Tasks
  <1>5. ASSUME NEW p \in Ports, Answer(p) PROVE HostAtRest'
    BY <1>5, ConstantsAssumption DEF Answer, Goto, settings, life, controller, HostAtRest, TypeControl, Tasks
  <1>6. CASE TakeChange
    BY <1>6, ConstantsAssumption DEF TakeChange, Goto, settings, life, controller, HostAtRest, TypeControl, Tasks
  <1>7. CASE TakeRecovery
    BY <1>7, ConstantsAssumption DEF TakeRecovery, Goto, settings, life, controller, HostAtRest, TypeControl, Tasks
  <1>8. CASE TakeRefresh
    BY <1>8, ConstantsAssumption DEF TakeRefresh, Goto, settings, life, controller, HostAtRest, TypeControl, Tasks
  <1>9. CASE Quit
    BY <1>9, ConstantsAssumption DEF Quit, Goto, settings, life, controller, HostAtRest, TypeControl, Tasks
  <1>10. ASSUME NEW t \in Tasks, Asked(t) PROVE HostAtRest'
    BY <1>10, ConstantsAssumption DEF Asked, Goto, settings, life, controller, HostAtRest, TypeControl, Tasks
  <1>11. ASSUME NEW t \in Tasks, AskFailed(t) PROVE HostAtRest'
    BY <1>11, ConstantsAssumption DEF AskFailed, Goto, settings, life, controller, HostAtRest, TypeControl, Tasks
  <1>12. ASSUME NEW t \in Tasks, Reached(t) PROVE HostAtRest'
    BY <1>12, ConstantsAssumption DEF Reached, Goto, settings, life, controller, HostAtRest, TypeControl, Tasks
  <1>13. ASSUME NEW t \in Tasks, Stop(t) PROVE HostAtRest'
    BY <1>13, ConstantsAssumption DEF Stop, Goto, settings, life, controller, HostAtRest, TypeControl, Tasks
  <1>14. ASSUME NEW t \in Tasks, Start(t) PROVE HostAtRest'
    BY <1>14, ConstantsAssumption DEF Start, Goto, settings, life, controller, HostAtRest, TypeControl, Tasks
  <1>15. ASSUME NEW t \in Tasks, Joined(t) PROVE HostAtRest'
    BY <1>15, ConstantsAssumption DEF Joined, Goto, settings, life, controller, HostAtRest, TypeControl, Tasks
  <1>16. ASSUME NEW t \in Tasks, PublishStopped(t) PROVE HostAtRest'
    BY <1>16, ConstantsAssumption DEF PublishStopped, Goto, settings, life, controller, HostAtRest, TypeControl, Tasks
  <1>17. ASSUME NEW t \in Tasks, Bind(t) PROVE HostAtRest'
    BY <1>17, ConstantsAssumption DEF Bind, Goto, settings, life, controller, HostAtRest, TypeControl, Tasks
  <1>18. ASSUME NEW t \in Tasks, BindFails(t) PROVE HostAtRest'
    BY <1>18, ConstantsAssumption DEF BindFails, Goto, settings, life, controller, HostAtRest, TypeControl, Tasks
  <1>19. ASSUME NEW t \in Tasks, PublishListening(t) PROVE HostAtRest'
    BY <1>19, ConstantsAssumption DEF PublishListening, Goto, settings, life, controller, HostAtRest, TypeControl, Tasks
  <1>20. ASSUME NEW t \in Tasks, PublishFailed(t) PROVE HostAtRest'
    BY <1>20, ConstantsAssumption DEF PublishFailed, Goto, settings, life, controller, HostAtRest, TypeControl, Tasks
  <1>21. CASE Run
    BY <1>21, ConstantsAssumption DEF Run, Goto, settings, life, controller, HostAtRest, TypeControl, Tasks
  <1>22. CASE Disabled
    BY <1>22, ConstantsAssumption DEF Disabled, Goto, settings, life, controller, HostAtRest, TypeControl, Tasks
  <1>23. CASE Leave
    BY <1>23, ConstantsAssumption DEF Leave, Goto, settings, life, controller, HostAtRest, TypeControl, Tasks
  <1>24. CASE EndRun
    BY <1>24, ConstantsAssumption DEF EndRun, Goto, settings, life, controller, HostAtRest, TypeControl, Tasks
  <1> QED
    BY <1>0, <1>1, <1>2, <1>3, <1>4, <1>5, <1>6, <1>7, <1>8, <1>9, <1>10, <1>11, <1>12, <1>13, <1>14, <1>15, <1>16, <1>17, <1>18, <1>19, <1>20, <1>21, <1>22, <1>23, <1>24
    DEF Next, World, Take, Reconcile, HostStep

\* A step that passes the stop has a port to go to.
LEMMA AimKept ==
  ASSUME TypeControl, TypeData, TypeEvents, HostAtRest, AimsAtPort, [Next]_vars
  PROVE  AimsAtPort'
  <1>0. CASE UNCHANGED vars
    BY <1>0 DEF vars, AimsAtPort, TypeControl, TypeData, HostAtRest, Targets
  <1>1. ASSUME NEW t \in Targets, Write(t) PROVE AimsAtPort'
    BY <1>1 DEF Write, Goto, settings, life, controller, AimsAtPort, TypeControl, TypeData, HostAtRest, Targets
  <1>2. CASE Recover
    BY <1>2 DEF Recover, Goto, settings, life, controller, AimsAtPort, TypeControl, TypeData, HostAtRest, Targets
  <1>3. CASE Burst
    BY <1>3 DEF Burst, Goto, settings, life, controller, AimsAtPort, TypeControl, TypeData, HostAtRest, Targets
  <1>4. ASSUME NEW p \in Ports, Request(p) PROVE AimsAtPort'
    BY <1>4 DEF Request, Goto, settings, life, controller, AimsAtPort, TypeControl, TypeData, HostAtRest, Targets
  <1>5. ASSUME NEW p \in Ports, Answer(p) PROVE AimsAtPort'
    BY <1>5 DEF Answer, Goto, settings, life, controller, AimsAtPort, TypeControl, TypeData, HostAtRest, Targets
  <1>6. CASE TakeChange
    BY <1>6 DEF TakeChange, Goto, settings, life, controller, AimsAtPort, TypeControl, TypeData, HostAtRest, Targets
  <1>7. CASE TakeRecovery
    BY <1>7 DEF TakeRecovery, Goto, settings, life, controller, AimsAtPort, TypeControl, TypeData, HostAtRest, Targets
  <1>8. CASE TakeRefresh
    BY <1>8 DEF TakeRefresh, Goto, settings, life, controller, AimsAtPort, TypeControl, TypeData, HostAtRest, Targets
  <1>9. CASE Quit
    BY <1>9 DEF Quit, Goto, settings, life, controller, AimsAtPort, TypeControl, TypeData, HostAtRest, Targets
  <1>10. ASSUME NEW t \in Tasks, Asked(t) PROVE AimsAtPort'
    BY <1>10 DEF Asked, Goto, settings, life, controller, AimsAtPort, TypeControl, TypeData, HostAtRest, Targets
  <1>11. ASSUME NEW t \in Tasks, AskFailed(t) PROVE AimsAtPort'
    BY <1>11 DEF AskFailed, Goto, settings, life, controller, AimsAtPort, TypeControl, TypeData, HostAtRest, Targets
  <1>12. ASSUME NEW t \in Tasks, Reached(t) PROVE AimsAtPort'
    BY <1>12 DEF Reached, Goto, settings, life, controller, AimsAtPort, TypeControl, TypeData, HostAtRest, Targets
  <1>13. ASSUME NEW t \in Tasks, Stop(t) PROVE AimsAtPort'
    BY <1>13 DEF Stop, Goto, settings, life, controller, AimsAtPort, TypeControl, TypeData, HostAtRest, Targets
  <1>14. ASSUME NEW t \in Tasks, Start(t) PROVE AimsAtPort'
    BY <1>14 DEF Start, Goto, settings, life, controller, AimsAtPort, TypeControl, TypeData, HostAtRest, Targets
  <1>15. ASSUME NEW t \in Tasks, Joined(t) PROVE AimsAtPort'
    BY <1>15 DEF Joined, Goto, settings, life, controller, AimsAtPort, TypeControl, TypeData, HostAtRest, Targets
  <1>16. ASSUME NEW t \in Tasks, PublishStopped(t) PROVE AimsAtPort'
    BY <1>16 DEF PublishStopped, Goto, settings, life, controller, AimsAtPort, TypeControl, TypeData, HostAtRest, Targets
  <1>17. ASSUME NEW t \in Tasks, Bind(t) PROVE AimsAtPort'
    BY <1>17 DEF Bind, Goto, settings, life, controller, AimsAtPort, TypeControl, TypeData, HostAtRest, Targets
  <1>18. ASSUME NEW t \in Tasks, BindFails(t) PROVE AimsAtPort'
    BY <1>18 DEF BindFails, Goto, settings, life, controller, AimsAtPort, TypeControl, TypeData, HostAtRest, Targets
  <1>19. ASSUME NEW t \in Tasks, PublishListening(t) PROVE AimsAtPort'
    BY <1>19 DEF PublishListening, Goto, settings, life, controller, AimsAtPort, TypeControl, TypeData, HostAtRest, Targets
  <1>20. ASSUME NEW t \in Tasks, PublishFailed(t) PROVE AimsAtPort'
    BY <1>20 DEF PublishFailed, Goto, settings, life, controller, AimsAtPort, TypeControl, TypeData, HostAtRest, Targets
  <1>21. CASE Run
    BY <1>21 DEF Run, Goto, settings, life, controller, AimsAtPort, TypeControl, TypeData, HostAtRest, Targets
  <1>22. CASE Disabled
    BY <1>22 DEF Disabled, Goto, settings, life, controller, AimsAtPort, TypeControl, TypeData, HostAtRest, Targets
  <1>23. CASE Leave
    BY <1>23 DEF Leave, Goto, settings, life, controller, AimsAtPort, TypeControl, TypeData, HostAtRest, Targets
  <1>24. CASE EndRun
    BY <1>24 DEF EndRun, Goto, settings, life, controller, AimsAtPort, TypeControl, TypeData, HostAtRest, Targets
  <1> QED
    BY <1>0, <1>1, <1>2, <1>3, <1>4, <1>5, <1>6, <1>7, <1>8, <1>9, <1>10, <1>11, <1>12, <1>13, <1>14, <1>15, <1>16, <1>17, <1>18, <1>19, <1>20, <1>21, <1>22, <1>23, <1>24
    DEF Next, World, Take, Reconcile, HostStep

-----------------------------------------------------------------------------
(* What serves.                                                            *)

\* A step leaves the record telling all there is while the mutex is free.
LEMMA FreeKept ==
  ASSUME TypeData, TypeControl, TypeListener, MutexIsHeld, AimsAtPort, FreeShape, HeldShape, [Next]_vars
  PROVE  FreeShape'
  <1>0. CASE UNCHANGED vars
    BY <1>0, ConstantsAssumption DEF vars, FreeShape, HeldShape, MutexIsHeld, TypeControl, TypeListener, TypeData, NoneServes, Only, Alive, Inside, Targets
  <1>1. ASSUME NEW t \in Targets, Write(t) PROVE FreeShape'
    BY <1>1, ConstantsAssumption DEF Write, Goto, settings, life, controller, FreeShape, HeldShape, MutexIsHeld, TypeControl, TypeListener, TypeData, NoneServes, Only, Alive, Inside, Targets
  <1>2. CASE Recover
    BY <1>2, ConstantsAssumption DEF Recover, Goto, settings, life, controller, FreeShape, HeldShape, MutexIsHeld, TypeControl, TypeListener, TypeData, NoneServes, Only, Alive, Inside, Targets
  <1>3. CASE Burst
    BY <1>3, ConstantsAssumption DEF Burst, Goto, settings, life, controller, FreeShape, HeldShape, MutexIsHeld, TypeControl, TypeListener, TypeData, NoneServes, Only, Alive, Inside, Targets
  <1>4. ASSUME NEW p \in Ports, Request(p) PROVE FreeShape'
    BY <1>4, ConstantsAssumption DEF Request, Goto, settings, life, controller, FreeShape, HeldShape, MutexIsHeld, TypeControl, TypeListener, TypeData, NoneServes, Only, Alive, Inside, Targets
  <1>5. ASSUME NEW p \in Ports, Answer(p) PROVE FreeShape'
    BY <1>5, ConstantsAssumption DEF Answer, Goto, settings, life, controller, FreeShape, HeldShape, MutexIsHeld, TypeControl, TypeListener, TypeData, NoneServes, Only, Alive, Inside, Targets
  <1>6. CASE TakeChange
    BY <1>6, ConstantsAssumption DEF TakeChange, Goto, settings, life, controller, FreeShape, HeldShape, MutexIsHeld, TypeControl, TypeListener, TypeData, NoneServes, Only, Alive, Inside, Targets
  <1>7. CASE TakeRecovery
    BY <1>7, ConstantsAssumption DEF TakeRecovery, Goto, settings, life, controller, FreeShape, HeldShape, MutexIsHeld, TypeControl, TypeListener, TypeData, NoneServes, Only, Alive, Inside, Targets
  <1>8. CASE TakeRefresh
    BY <1>8, ConstantsAssumption DEF TakeRefresh, Goto, settings, life, controller, FreeShape, HeldShape, MutexIsHeld, TypeControl, TypeListener, TypeData, NoneServes, Only, Alive, Inside, Targets
  <1>9. CASE Quit
    BY <1>9, ConstantsAssumption DEF Quit, Goto, settings, life, controller, FreeShape, HeldShape, MutexIsHeld, TypeControl, TypeListener, TypeData, NoneServes, Only, Alive, Inside, Targets
  <1>10. ASSUME NEW t \in Tasks, Asked(t) PROVE FreeShape'
    BY <1>10, ConstantsAssumption DEF Asked, Goto, settings, life, controller, FreeShape, HeldShape, MutexIsHeld, TypeControl, TypeListener, TypeData, NoneServes, Only, Alive, Inside, Targets
  <1>11. ASSUME NEW t \in Tasks, AskFailed(t) PROVE FreeShape'
    BY <1>11, ConstantsAssumption DEF AskFailed, Goto, settings, life, controller, FreeShape, HeldShape, MutexIsHeld, TypeControl, TypeListener, TypeData, NoneServes, Only, Alive, Inside, Targets
  <1>12. ASSUME NEW t \in Tasks, Reached(t) PROVE FreeShape'
    BY <1>12, ConstantsAssumption DEF Reached, Goto, settings, life, controller, FreeShape, HeldShape, MutexIsHeld, TypeControl, TypeListener, TypeData, NoneServes, Only, Alive, Inside, Targets
  <1>13. ASSUME NEW t \in Tasks, Stop(t) PROVE FreeShape'
    BY <1>13, ConstantsAssumption DEF Stop, Goto, settings, life, controller, FreeShape, HeldShape, MutexIsHeld, TypeControl, TypeListener, TypeData, NoneServes, Only, Alive, Inside, Targets
  <1>14. ASSUME NEW t \in Tasks, Start(t) PROVE FreeShape'
    BY <1>14, ConstantsAssumption DEF Start, Goto, settings, life, controller, FreeShape, HeldShape, MutexIsHeld, TypeControl, TypeListener, TypeData, NoneServes, Only, Alive, Inside, Targets
  <1>15. ASSUME NEW t \in Tasks, Joined(t) PROVE FreeShape'
    BY <1>15, ConstantsAssumption DEF Joined, Goto, settings, life, controller, FreeShape, HeldShape, MutexIsHeld, TypeControl, TypeListener, TypeData, NoneServes, Only, Alive, Inside, Targets
  <1>16. ASSUME NEW t \in Tasks, PublishStopped(t) PROVE FreeShape'
    BY <1>16, ConstantsAssumption DEF PublishStopped, Goto, settings, life, controller, FreeShape, HeldShape, MutexIsHeld, TypeControl, TypeListener, TypeData, NoneServes, Only, Alive, Inside, Targets
  <1>17. ASSUME NEW t \in Tasks, Bind(t) PROVE FreeShape'
    BY <1>17, ConstantsAssumption DEF Bind, Goto, settings, life, controller, FreeShape, HeldShape, MutexIsHeld, TypeControl, TypeListener, TypeData, NoneServes, Only, Alive, Inside, Targets
  <1>18. ASSUME NEW t \in Tasks, BindFails(t) PROVE FreeShape'
    BY <1>18, ConstantsAssumption DEF BindFails, Goto, settings, life, controller, FreeShape, HeldShape, MutexIsHeld, TypeControl, TypeListener, TypeData, NoneServes, Only, Alive, Inside, Targets
  <1>19. ASSUME NEW t \in Tasks, PublishListening(t) PROVE FreeShape'
    <2>1. /\ target[t] \in Ports /\ record' = target[t] /\ status' = Listening(target[t])
          /\ UNCHANGED <<server, phase>> /\ Alive
      BY <1>19 DEF PublishListening, AimsAtPort, life
    <2>2. Only(target[t], "listening")
      BY <1>19, <2>1 DEF PublishListening, HeldShape
    <2>3. Only(record, "listening")'
      BY <2>1, <2>2 DEF Only
    <2> QED BY <2>1, <2>3, ConstantsAssumption DEF FreeShape, Only
  <1>20. ASSUME NEW t \in Tasks, PublishFailed(t) PROVE FreeShape'
    BY <1>20, ConstantsAssumption DEF PublishFailed, Goto, settings, life, controller, FreeShape, HeldShape, MutexIsHeld, TypeControl, TypeListener, TypeData, NoneServes, Only, Alive, Inside, Targets
  <1>21. CASE Run
    BY <1>21, ConstantsAssumption DEF Run, Goto, settings, life, controller, FreeShape, HeldShape, MutexIsHeld, TypeControl, TypeListener, TypeData, NoneServes, Only, Alive, Inside, Targets
  <1>22. CASE Disabled
    BY <1>22, ConstantsAssumption DEF Disabled, Goto, settings, life, controller, FreeShape, HeldShape, MutexIsHeld, TypeControl, TypeListener, TypeData, NoneServes, Only, Alive, Inside, Targets
  <1>23. CASE Leave
    BY <1>23, ConstantsAssumption DEF Leave, Goto, settings, life, controller, FreeShape, HeldShape, MutexIsHeld, TypeControl, TypeListener, TypeData, NoneServes, Only, Alive, Inside, Targets
  <1>24. CASE EndRun
    BY <1>24, ConstantsAssumption DEF EndRun, Goto, settings, life, controller, FreeShape, HeldShape, MutexIsHeld, TypeControl, TypeListener, TypeData, NoneServes, Only, Alive, Inside, Targets
  <1> QED
    BY <1>0, <1>1, <1>2, <1>3, <1>4, <1>5, <1>6, <1>7, <1>8, <1>9, <1>10, <1>11, <1>12, <1>13, <1>14, <1>15, <1>16, <1>17, <1>18, <1>19, <1>20, <1>21, <1>22, <1>23, <1>24
    DEF Next, World, Take, Reconcile, HostStep

\* A step leaves what serves to the place of the holder.
LEMMA HeldKept ==
  ASSUME TypeData, TypeControl, TypeListener, MutexIsHeld, HostAtRest, AimsAtPort, FreeShape, HeldShape, [Next]_vars
  PROVE  HeldShape'
  <1>0. CASE UNCHANGED vars
    BY <1>0, ConstantsAssumption DEF vars, FreeShape, HeldShape, MutexIsHeld, HostAtRest, AimsAtPort, TypeControl, TypeListener, TypeData, NoneServes, Only, Alive, Inside, Targets
  <1>1. ASSUME NEW t \in Targets, Write(t) PROVE HeldShape'
    BY <1>1, ConstantsAssumption DEF Write, Goto, settings, life, controller, FreeShape, HeldShape, MutexIsHeld, HostAtRest, AimsAtPort, TypeControl, TypeListener, TypeData, NoneServes, Only, Alive, Inside, Targets
  <1>2. CASE Recover
    BY <1>2, ConstantsAssumption DEF Recover, Goto, settings, life, controller, FreeShape, HeldShape, MutexIsHeld, HostAtRest, AimsAtPort, TypeControl, TypeListener, TypeData, NoneServes, Only, Alive, Inside, Targets
  <1>3. CASE Burst
    BY <1>3, ConstantsAssumption DEF Burst, Goto, settings, life, controller, FreeShape, HeldShape, MutexIsHeld, HostAtRest, AimsAtPort, TypeControl, TypeListener, TypeData, NoneServes, Only, Alive, Inside, Targets
  <1>4. ASSUME NEW p \in Ports, Request(p) PROVE HeldShape'
    BY <1>4, ConstantsAssumption DEF Request, Goto, settings, life, controller, FreeShape, HeldShape, MutexIsHeld, HostAtRest, AimsAtPort, TypeControl, TypeListener, TypeData, NoneServes, Only, Alive, Inside, Targets
  <1>5. ASSUME NEW p \in Ports, Answer(p) PROVE HeldShape'
    BY <1>5, ConstantsAssumption DEF Answer, Goto, settings, life, controller, FreeShape, HeldShape, MutexIsHeld, HostAtRest, AimsAtPort, TypeControl, TypeListener, TypeData, NoneServes, Only, Alive, Inside, Targets
  <1>6. CASE TakeChange
    BY <1>6, ConstantsAssumption DEF TakeChange, Goto, settings, life, controller, FreeShape, HeldShape, MutexIsHeld, HostAtRest, AimsAtPort, TypeControl, TypeListener, TypeData, NoneServes, Only, Alive, Inside, Targets
  <1>7. CASE TakeRecovery
    BY <1>7, ConstantsAssumption DEF TakeRecovery, Goto, settings, life, controller, FreeShape, HeldShape, MutexIsHeld, HostAtRest, AimsAtPort, TypeControl, TypeListener, TypeData, NoneServes, Only, Alive, Inside, Targets
  <1>8. CASE TakeRefresh
    BY <1>8, ConstantsAssumption DEF TakeRefresh, Goto, settings, life, controller, FreeShape, HeldShape, MutexIsHeld, HostAtRest, AimsAtPort, TypeControl, TypeListener, TypeData, NoneServes, Only, Alive, Inside, Targets
  <1>9. CASE Quit
    BY <1>9, ConstantsAssumption DEF Quit, Goto, settings, life, controller, FreeShape, HeldShape, MutexIsHeld, HostAtRest, AimsAtPort, TypeControl, TypeListener, TypeData, NoneServes, Only, Alive, Inside, Targets
  <1>10. ASSUME NEW t \in Tasks, Asked(t) PROVE HeldShape'
    BY <1>10, ConstantsAssumption DEF Asked, Goto, settings, life, controller, FreeShape, HeldShape, MutexIsHeld, HostAtRest, AimsAtPort, TypeControl, TypeListener, TypeData, NoneServes, Only, Alive, Inside, Targets
  <1>11. ASSUME NEW t \in Tasks, AskFailed(t) PROVE HeldShape'
    BY <1>11, ConstantsAssumption DEF AskFailed, Goto, settings, life, controller, FreeShape, HeldShape, MutexIsHeld, HostAtRest, AimsAtPort, TypeControl, TypeListener, TypeData, NoneServes, Only, Alive, Inside, Targets
  <1>12. ASSUME NEW t \in Tasks, Reached(t) PROVE HeldShape'
    BY <1>12, ConstantsAssumption DEF Reached, Goto, settings, life, controller, FreeShape, HeldShape, MutexIsHeld, HostAtRest, AimsAtPort, TypeControl, TypeListener, TypeData, NoneServes, Only, Alive, Inside, Targets
  <1>13. ASSUME NEW t \in Tasks, Stop(t) PROVE HeldShape'
    BY <1>13, ConstantsAssumption DEF Stop, Goto, settings, life, controller, FreeShape, HeldShape, MutexIsHeld, HostAtRest, AimsAtPort, TypeControl, TypeListener, TypeData, NoneServes, Only, Alive, Inside, Targets
  <1>14. ASSUME NEW t \in Tasks, Start(t) PROVE HeldShape'
    BY <1>14, ConstantsAssumption DEF Start, Goto, settings, life, controller, FreeShape, HeldShape, MutexIsHeld, HostAtRest, AimsAtPort, TypeControl, TypeListener, TypeData, NoneServes, Only, Alive, Inside, Targets
  <1>15. ASSUME NEW t \in Tasks, Joined(t) PROVE HeldShape'
    BY <1>15, ConstantsAssumption DEF Joined, Goto, settings, life, controller, FreeShape, HeldShape, MutexIsHeld, HostAtRest, AimsAtPort, TypeControl, TypeListener, TypeData, NoneServes, Only, Alive, Inside, Targets
  <1>16. ASSUME NEW t \in Tasks, PublishStopped(t) PROVE HeldShape'
    BY <1>16, ConstantsAssumption DEF PublishStopped, Goto, settings, life, controller, FreeShape, HeldShape, MutexIsHeld, HostAtRest, AimsAtPort, TypeControl, TypeListener, TypeData, NoneServes, Only, Alive, Inside, Targets
  <1>17. ASSUME NEW t \in Tasks, Bind(t) PROVE HeldShape'
    BY <1>17, ConstantsAssumption DEF Bind, Goto, settings, life, controller, FreeShape, HeldShape, MutexIsHeld, HostAtRest, AimsAtPort, TypeControl, TypeListener, TypeData, NoneServes, Only, Alive, Inside, Targets
  <1>18. ASSUME NEW t \in Tasks, BindFails(t) PROVE HeldShape'
    BY <1>18, ConstantsAssumption DEF BindFails, Goto, settings, life, controller, FreeShape, HeldShape, MutexIsHeld, HostAtRest, AimsAtPort, TypeControl, TypeListener, TypeData, NoneServes, Only, Alive, Inside, Targets
  <1>19. ASSUME NEW t \in Tasks, PublishListening(t) PROVE HeldShape'
    BY <1>19, ConstantsAssumption DEF PublishListening, Goto, settings, life, controller, FreeShape, HeldShape, MutexIsHeld, HostAtRest, AimsAtPort, TypeControl, TypeListener, TypeData, NoneServes, Only, Alive, Inside, Targets
  <1>20. ASSUME NEW t \in Tasks, PublishFailed(t) PROVE HeldShape'
    BY <1>20, ConstantsAssumption DEF PublishFailed, Goto, settings, life, controller, FreeShape, HeldShape, MutexIsHeld, HostAtRest, AimsAtPort, TypeControl, TypeListener, TypeData, NoneServes, Only, Alive, Inside, Targets
  <1>21. CASE Run
    BY <1>21, ConstantsAssumption DEF Run, Goto, settings, life, controller, FreeShape, HeldShape, MutexIsHeld, HostAtRest, AimsAtPort, TypeControl, TypeListener, TypeData, NoneServes, Only, Alive, Inside, Targets
  <1>22. CASE Disabled
    BY <1>22, ConstantsAssumption DEF Disabled, Goto, settings, life, controller, FreeShape, HeldShape, MutexIsHeld, HostAtRest, AimsAtPort, TypeControl, TypeListener, TypeData, NoneServes, Only, Alive, Inside, Targets
  <1>23. CASE Leave
    BY <1>23, ConstantsAssumption DEF Leave, Goto, settings, life, controller, FreeShape, HeldShape, MutexIsHeld, HostAtRest, AimsAtPort, TypeControl, TypeListener, TypeData, NoneServes, Only, Alive, Inside, Targets
  <1>24. CASE EndRun
    BY <1>24, ConstantsAssumption DEF EndRun, Goto, settings, life, controller, FreeShape, HeldShape, MutexIsHeld, HostAtRest, AimsAtPort, TypeControl, TypeListener, TypeData, NoneServes, Only, Alive, Inside, Targets
  <1> QED
    BY <1>0, <1>1, <1>2, <1>3, <1>4, <1>5, <1>6, <1>7, <1>8, <1>9, <1>10, <1>11, <1>12, <1>13, <1>14, <1>15, <1>16, <1>17, <1>18, <1>19, <1>20, <1>21, <1>22, <1>23, <1>24
    DEF Next, World, Take, Reconcile, HostStep

\* Nothing serves once the process has ended.
LEMMA GoneKept ==
  ASSUME TypeControl, GoneShape, [Next]_vars
  PROVE  GoneShape'
  <1>0. CASE UNCHANGED vars
    BY <1>0 DEF vars, GoneShape, TypeControl, NoneServes, Alive
  <1>1. ASSUME NEW t \in Targets, Write(t) PROVE GoneShape'
    BY <1>1 DEF Write, Goto, settings, life, controller, GoneShape, TypeControl, NoneServes, Alive
  <1>2. CASE Recover
    BY <1>2 DEF Recover, Goto, settings, life, controller, GoneShape, TypeControl, NoneServes, Alive
  <1>3. CASE Burst
    BY <1>3 DEF Burst, Goto, settings, life, controller, GoneShape, TypeControl, NoneServes, Alive
  <1>4. ASSUME NEW p \in Ports, Request(p) PROVE GoneShape'
    BY <1>4 DEF Request, Goto, settings, life, controller, GoneShape, TypeControl, NoneServes, Alive
  <1>5. ASSUME NEW p \in Ports, Answer(p) PROVE GoneShape'
    BY <1>5 DEF Answer, Goto, settings, life, controller, GoneShape, TypeControl, NoneServes, Alive
  <1>6. CASE TakeChange
    BY <1>6 DEF TakeChange, Goto, settings, life, controller, GoneShape, TypeControl, NoneServes, Alive
  <1>7. CASE TakeRecovery
    BY <1>7 DEF TakeRecovery, Goto, settings, life, controller, GoneShape, TypeControl, NoneServes, Alive
  <1>8. CASE TakeRefresh
    BY <1>8 DEF TakeRefresh, Goto, settings, life, controller, GoneShape, TypeControl, NoneServes, Alive
  <1>9. CASE Quit
    BY <1>9 DEF Quit, Goto, settings, life, controller, GoneShape, TypeControl, NoneServes, Alive
  <1>10. ASSUME NEW t \in Tasks, Asked(t) PROVE GoneShape'
    BY <1>10 DEF Asked, Goto, settings, life, controller, GoneShape, TypeControl, NoneServes, Alive
  <1>11. ASSUME NEW t \in Tasks, AskFailed(t) PROVE GoneShape'
    BY <1>11 DEF AskFailed, Goto, settings, life, controller, GoneShape, TypeControl, NoneServes, Alive
  <1>12. ASSUME NEW t \in Tasks, Reached(t) PROVE GoneShape'
    BY <1>12 DEF Reached, Goto, settings, life, controller, GoneShape, TypeControl, NoneServes, Alive
  <1>13. ASSUME NEW t \in Tasks, Stop(t) PROVE GoneShape'
    BY <1>13 DEF Stop, Goto, settings, life, controller, GoneShape, TypeControl, NoneServes, Alive
  <1>14. ASSUME NEW t \in Tasks, Start(t) PROVE GoneShape'
    BY <1>14 DEF Start, Goto, settings, life, controller, GoneShape, TypeControl, NoneServes, Alive
  <1>15. ASSUME NEW t \in Tasks, Joined(t) PROVE GoneShape'
    BY <1>15 DEF Joined, Goto, settings, life, controller, GoneShape, TypeControl, NoneServes, Alive
  <1>16. ASSUME NEW t \in Tasks, PublishStopped(t) PROVE GoneShape'
    BY <1>16 DEF PublishStopped, Goto, settings, life, controller, GoneShape, TypeControl, NoneServes, Alive
  <1>17. ASSUME NEW t \in Tasks, Bind(t) PROVE GoneShape'
    BY <1>17 DEF Bind, Goto, settings, life, controller, GoneShape, TypeControl, NoneServes, Alive
  <1>18. ASSUME NEW t \in Tasks, BindFails(t) PROVE GoneShape'
    BY <1>18 DEF BindFails, Goto, settings, life, controller, GoneShape, TypeControl, NoneServes, Alive
  <1>19. ASSUME NEW t \in Tasks, PublishListening(t) PROVE GoneShape'
    BY <1>19 DEF PublishListening, Goto, settings, life, controller, GoneShape, TypeControl, NoneServes, Alive
  <1>20. ASSUME NEW t \in Tasks, PublishFailed(t) PROVE GoneShape'
    BY <1>20 DEF PublishFailed, Goto, settings, life, controller, GoneShape, TypeControl, NoneServes, Alive
  <1>21. CASE Run
    BY <1>21 DEF Run, Goto, settings, life, controller, GoneShape, TypeControl, NoneServes, Alive
  <1>22. CASE Disabled
    BY <1>22 DEF Disabled, Goto, settings, life, controller, GoneShape, TypeControl, NoneServes, Alive
  <1>23. CASE Leave
    BY <1>23 DEF Leave, Goto, settings, life, controller, GoneShape, TypeControl, NoneServes, Alive
  <1>24. CASE EndRun
    BY <1>24 DEF EndRun, Goto, settings, life, controller, GoneShape, TypeControl, NoneServes, Alive
  <1> QED
    BY <1>0, <1>1, <1>2, <1>3, <1>4, <1>5, <1>6, <1>7, <1>8, <1>9, <1>10, <1>11, <1>12, <1>13, <1>14, <1>15, <1>16, <1>17, <1>18, <1>19, <1>20, <1>21, <1>22, <1>23, <1>24
    DEF Next, World, Take, Reconcile, HostStep

-----------------------------------------------------------------------------
(* The theorems.                                                           *)

LEMMA InitHolds == Init => LanInv
  <1> SUFFICES ASSUME Init PROVE LanInv
    OBVIOUS
  <1>1. <<>> \in Seq(Events)
    OBVIOUS
  <1>2. TypeOK
    <2>1. TypeData
      <3>1. writes \in 0..MaxWrites BY ConstantsAssumption DEF Init
      <3>2. target \in [Tasks -> Targets] BY DEF Init, Targets
      <3> QED BY <3>1, <3>2 DEF Init, TypeData
    <2>2. TypeControl /\ TypeListener
      BY DEF Init, TypeControl, TypeListener, Targets, Statuses, Tasks
    <2>3. TypeEvents
      BY <1>1 DEF Init, TypeEvents
    <2> QED BY <2>1, <2>2, <2>3, TypeParts
  <1>3. MutexIsHeld /\ HostAtRest /\ AimsAtPort
    BY ConstantsAssumption DEF Init, MutexIsHeld, HostAtRest, AimsAtPort, Inside, Tasks
  <1>4. FreeShape /\ HeldShape /\ GoneShape
    BY ConstantsAssumption DEF Init, FreeShape, HeldShape, GoneShape, NoneServes, Alive, Inside, Tasks
  <1> QED BY <1>2, <1>3, <1>4 DEF LanInv

LEMMA StepKeeps == LanInv /\ [Next]_vars => LanInv'
  <1> SUFFICES ASSUME LanInv, [Next]_vars PROVE LanInv'
    OBVIOUS
  <1>1. TypeData /\ TypeEvents /\ TypeControl /\ TypeListener
    BY TypeParts DEF LanInv
  <1>2. MutexIsHeld /\ HostAtRest /\ AimsAtPort /\ FreeShape /\ HeldShape /\ GoneShape
    BY DEF LanInv
  <1>3. TypeData' /\ TypeEvents' /\ TypeControl' /\ TypeListener'
    BY <1>1, <1>2, EventsTyped, DataTyped, ControlTyped, ListenerTyped
  <1>4. TypeOK'
    BY <1>3 DEF TypeOK, TypeData, TypeEvents, TypeControl, TypeListener, Inside
  <1>5. MutexIsHeld' /\ HostAtRest' /\ AimsAtPort'
    BY <1>1, <1>2, MutexKept, HostRestKept, AimKept
  <1>6. FreeShape' /\ HeldShape' /\ GoneShape'
    BY <1>1, <1>2, FreeKept, HeldKept, GoneKept
  <1> QED BY <1>4, <1>5, <1>6 DEF LanInv

\* The inductive invariant holds throughout, whoever reconciles.
THEOREM LanInvariant == Spec => []LanInv
  <1>1. Init => LanInv
    BY InitHolds
  <1>2. LanInv /\ [Next]_vars => LanInv'
    BY StepKeeps
  <1> QED BY <1>1, <1>2, PTL DEF Spec

\* Every variable has its type, for any ports and any number of changes.
THEOREM LanTypes == Spec => []TypeOK
  <1>1. LanInv => TypeOK
    BY DEF LanInv
  <1> QED BY <1>1, LanInvariant, PTL

\* At most one listener serves at any time, for any ports and any number of
\* changes: the next is bound only when the last has been joined.
THEOREM LanOneListener == Spec => []OneListener
  <1>1. ASSUME LanInv PROVE OneListener
    <2>1. CASE ~Alive
      BY <1>1, <2>1 DEF LanInv, GoneShape, NoneServes, OneListener
    <2>2. CASE Alive /\ lock = Off
      <3>1. record \in Targets BY <1>1 DEF LanInv, TypeOK
      <3> QED BY <1>1, <2>2, <3>1 DEF LanInv, FreeShape, NoneServes, Only, OneListener, Targets
    <2>3. CASE Alive /\ lock # Off
      <3>1. lock \in Tasks BY <1>1, <2>3 DEF LanInv, TypeOK
      <3>2. work[lock] \in Inside BY <1>1, <3>1 DEF LanInv, MutexIsHeld
      <3>3. (work[lock] = "bound") => (target[lock] \in Ports) BY <1>1, <3>1 DEF LanInv, AimsAtPort
      <3> QED BY <1>1, <2>3, <3>1, <3>2, <3>3
              DEF LanInv, HeldShape, NoneServes, Only, OneListener, Inside
    <2> QED BY <2>1, <2>2, <2>3
  <1> QED BY <1>1, LanInvariant, PTL

\* With the mutex free, what the engine was told is what serves.
THEOREM LanStatusIsTrue == Spec => []StatusIsTrue
  <1>1. ASSUME LanInv PROVE StatusIsTrue
    BY <1>1, ConstantsAssumption DEF LanInv, FreeShape, NoneServes, Only, StatusIsTrue
  <1> QED BY <1>1, LanInvariant, PTL

=============================================================================
