------------------------- MODULE SettingsFeedProofs -------------------------
(***************************************************************************)
(* For any documents and any capacities: the types, and that a listening    *)
(* host obeys what is stored unless word of the difference is on its way;   *)
(* and what a reset that fails half-way is the only one to forget.          *)
(***************************************************************************)
EXTENDS SettingsFeed, TLAPS

-----------------------------------------------------------------------------
(* Queues.                                                                  *)

\* What Tail and Head do to the elements.
LEMMA TailOf ==
  ASSUME NEW S, NEW q \in Seq(S), q # <<>>
  PROVE  /\ Tail(q) \in Seq(S) /\ Len(Tail(q)) = Len(q) - 1 /\ Len(q) \in Nat
         /\ Head(q) \in S
         /\ Elements(q) = {Head(q)} \cup Elements(Tail(q))
  <1>1. /\ Tail(q) \in Seq(S) /\ Len(Tail(q)) = Len(q) - 1 /\ Len(q) \in Nat /\ Len(q) > 0
        /\ Head(q) = q[1] /\ \A i \in 1..(Len(q) - 1) : Tail(q)[i] = q[i + 1]
    OBVIOUS
  <1>2. DOMAIN q = 1..Len(q) /\ DOMAIN Tail(q) = 1..(Len(q) - 1)
    BY <1>1
  <1>3. Head(q) \in Elements(q) /\ Head(q) \in S
    BY <1>1, <1>2 DEF Elements
  <1>4. ASSUME NEW i \in DOMAIN q PROVE q[i] \in {Head(q)} \cup Elements(Tail(q))
    <2>1. CASE i = 1 BY <2>1, <1>1
    <2>2. CASE i # 1
      <3>1. i - 1 \in DOMAIN Tail(q) /\ Tail(q)[i - 1] = q[i] BY <2>2, <1>1, <1>2
      <3>2. QED BY <3>1 DEF Elements
    <2>3. QED BY <2>1, <2>2
  <1>5. ASSUME NEW i \in DOMAIN Tail(q) PROVE Tail(q)[i] \in Elements(q)
    <2>1. i + 1 \in DOMAIN q /\ Tail(q)[i] = q[i + 1] BY <1>1, <1>2
    <2>2. QED BY <2>1 DEF Elements
  <1>6. Elements(q) = {Head(q)} \cup Elements(Tail(q))
    BY <1>3, <1>4, <1>5 DEF Elements
  <1>7. QED BY <1>1, <1>3, <1>6

\* What Append does to them.
LEMMA AppendOf ==
  ASSUME NEW S, NEW q \in Seq(S), NEW e \in S
  PROVE  /\ Append(q, e) \in Seq(S) /\ Len(Append(q, e)) = Len(q) + 1 /\ Len(q) \in Nat
         /\ Elements(Append(q, e)) = Elements(q) \cup {e}
  <1>1. /\ Append(q, e) \in Seq(S) /\ Len(Append(q, e)) = Len(q) + 1 /\ Len(q) \in Nat
        /\ \A i \in 1..Len(q) : Append(q, e)[i] = q[i]
        /\ Append(q, e)[Len(q) + 1] = e
    OBVIOUS
  <1>2. DOMAIN q = 1..Len(q) /\ DOMAIN Append(q, e) = 1..(Len(q) + 1)
    BY <1>1
  <1>3. ASSUME NEW i \in DOMAIN Append(q, e) PROVE Append(q, e)[i] \in Elements(q) \cup {e}
    BY <1>1, <1>2 DEF Elements
  <1>4. ASSUME NEW i \in DOMAIN q PROVE q[i] \in Elements(Append(q, e))
    <2>1. i \in DOMAIN Append(q, e) /\ Append(q, e)[i] = q[i] BY <1>1, <1>2
    <2>2. QED BY <2>1 DEF Elements
  <1>5. e \in Elements(Append(q, e))
    <2>1. Len(q) + 1 \in DOMAIN Append(q, e) BY <1>1, <1>2
    <2>2. QED BY <2>1, <1>1 DEF Elements
  <1>6. Elements(Append(q, e)) = Elements(q) \cup {e}
    BY <1>3, <1>4, <1>5 DEF Elements
  <1>7. QED BY <1>1, <1>6

\* The empty queue.
LEMMA EmptyQueue ==
  ASSUME NEW S
  PROVE  <<>> \in Seq(S) /\ Len(<<>>) = 0 /\ Elements(<<>>) = {}
  BY DEF Elements

\* Making room for a new element in a full queue.
LEMMA ShiftOf ==
  ASSUME NEW S, NEW q \in Seq(S), NEW e \in S, q # <<>>
  PROVE  /\ Append(Tail(q), e) \in Seq(S) /\ Len(Append(Tail(q), e)) = Len(q)
         /\ Elements(Append(Tail(q), e)) = Elements(Tail(q)) \cup {e}
         /\ Elements(Tail(q)) \subseteq Elements(q)
  <1>1. Tail(q) \in Seq(S) /\ Len(Tail(q)) = Len(q) - 1 /\ Len(q) \in Nat
        /\ Elements(Tail(q)) \subseteq Elements(q)
    BY TailOf
  <1> DEFINE t == Tail(q)
  <1>2. t \in Seq(S)
    BY <1>1
  <1> HIDE DEF t
  <1>3. /\ Append(t, e) \in Seq(S) /\ Len(Append(t, e)) = Len(t) + 1
        /\ Elements(Append(t, e)) = Elements(t) \cup {e}
    BY <1>2, AppendOf
  <1>4. QED BY <1>1, <1>3 DEF t

-----------------------------------------------------------------------------

\* The kinds of messages.
LEMMA Kinds ==
  /\ Refresh \in Event
  /\ \A o \in Owner, r \in Nat : Changed(o, r) \in Event
  /\ \A r \in [Owner -> Nat] : Snapshot(r) \in Message
  /\ Event \subseteq Message
  /\ \A m \in Event : m = Refresh \/ m.type = "changed"
  /\ \A m \in Message :
       \/ m = Refresh /\ m.type = "refresh"
       \/ m.type = "changed" /\ m.owner \in Owner /\ m.revision \in Nat
          /\ m = Changed(m.owner, m.revision)
       \/ m.type = "snapshot" /\ m.revisions \in [Owner -> Nat]
  /\ \A o \in Owner, r \in Nat :
       Changed(o, r).type = "changed" /\ Changed(o, r).owner = o /\ Changed(o, r).revision = r
  /\ \A r \in [Owner -> Nat] : Snapshot(r).type = "snapshot" /\ Snapshot(r).revisions = r
  BY DEF Refresh, Changed, Snapshot, Event, Message

\* What an event does to the queue of the connection: it is in it, and what was
\* there still is, or the lag is known.
LEMMA BroadcastOf ==
  ASSUME ConnectionTypes, NEW e \in Event, Broadcast(e)
  PROVE  /\ events' \in Seq(Event) /\ Len(events') <= EventCapacity /\ eventsLag' \in BOOLEAN
         /\ Elements(events') \subseteq Elements(events) \cup {e}
         /\ ~open => events' = events /\ eventsLag' = eventsLag
         /\ open => e \in Elements(events')
         /\ open => eventsLag' \/ Elements(events) \subseteq Elements(events')
         /\ eventsLag => eventsLag'
  <1> USE ConstantsAssumption
  <1>1. CASE ~open
    BY <1>1 DEF ConnectionTypes, Broadcast
  <1>2. CASE open /\ Len(events) < EventCapacity
    <2>1. events' = Append(events, e) /\ eventsLag' = eventsLag
      BY <1>2 DEF Broadcast, ConnectionTypes
    <2>2. QED BY <1>2, <2>1, AppendOf DEF ConnectionTypes
  <1>3. CASE open /\ ~(Len(events) < EventCapacity)
    <2>1. events' = Append(Tail(events), e) /\ eventsLag' = TRUE
      BY <1>3 DEF Broadcast, ConnectionTypes
    <2>2. events # <<>>
      BY <1>3 DEF ConnectionTypes
    <2>3. QED BY <1>3, <2>1, <2>2, ShiftOf DEF ConnectionTypes
  <1>4. QED BY <1>1, <1>2, <1>3

\* Every step keeps StoreTypes.
LEMMA StoreTypesStep ==
  ASSUME TypeOK, [Next]_vars
  PROVE  StoreTypes'
  <1> USE ConstantsAssumption
  <1>1. ASSUME NEW d \in Document, Apply(d) PROVE StoreTypes'
    <2>1. UNCHANGED <<up, file, raw, revision>>
      BY <1>1 DEF Apply
    <2>2. write' \in Write
      <3>1. write' = write \/ write' = [kind |-> "apply", doc |-> d, disk |-> FALSE]
        BY <1>1 DEF Apply
      <3>2. [kind |-> "apply", doc |-> d, disk |-> FALSE] \in Write
        BY DEF Write, AnyDocument
      <3>3. QED BY <3>1, <3>2 DEF TypeOK, StoreTypes
    <2>3. promised' \in SUBSET AnyDocument
      BY <1>1 DEF Apply, TypeOK, StoreTypes, AnyDocument
    <2>4. QED BY <2>1, <2>2, <2>3 DEF TypeOK, StoreTypes
  <1>2. CASE Reset
    BY <1>2 DEF Reset, CountChange, TypeOK, StoreTypes, ForwarderTypes, ConnectionTypes, WatcherTypes, Owner, AnyDocument, Write, vars, storeVars, engineVars, forwarderVars, connectionVars, watcherVars, bounds
  <1>3. CASE TouchDisk
    BY <1>3 DEF TouchDisk, TypeOK, StoreTypes, ForwarderTypes, ConnectionTypes, WatcherTypes, Owner, AnyDocument, Write, vars, storeVars, engineVars, forwarderVars, connectionVars, watcherVars, bounds
  <1>4. CASE WriteFails
    BY <1>4 DEF WriteFails, Idle, CountFault, TypeOK, StoreTypes, ForwarderTypes, ConnectionTypes, WatcherTypes, Owner, AnyDocument, Write, vars, storeVars, engineVars, forwarderVars, connectionVars, watcherVars, bounds
  <1>5. CASE Publish
    BY <1>5 DEF Publish, Idle, TypeOK, StoreTypes, ForwarderTypes, ConnectionTypes, WatcherTypes, Owner, AnyDocument, Write, vars, storeVars, engineVars, forwarderVars, connectionVars, watcherVars, bounds
  <1>6. CASE EngineChanges
    BY <1>6 DEF EngineChanges, CountChange, TypeOK, StoreTypes, ForwarderTypes, ConnectionTypes, WatcherTypes, Owner, AnyDocument, Write, vars, storeVars, engineVars, forwarderVars, connectionVars, watcherVars, bounds
  <1>7. CASE Forward
    BY <1>7 DEF Forward, Broadcast, TypeOK, StoreTypes, ForwarderTypes, ConnectionTypes, WatcherTypes, Owner, AnyDocument, Write, vars, storeVars, engineVars, forwarderVars, connectionVars, watcherVars, bounds
  <1>8. CASE ForwardLag
    BY <1>8 DEF ForwardLag, TypeOK, StoreTypes, ForwarderTypes, ConnectionTypes, WatcherTypes, Owner, AnyDocument, Write, vars, storeVars, engineVars, forwarderVars, connectionVars, watcherVars, bounds
  <1>9. CASE ForwardReread
    BY <1>9 DEF ForwardReread, Broadcast, TypeOK, StoreTypes, ForwarderTypes, ConnectionTypes, WatcherTypes, Owner, AnyDocument, Write, vars, storeVars, engineVars, forwarderVars, connectionVars, watcherVars, bounds
  <1>10. CASE CountEngineChange
    BY <1>10 DEF CountEngineChange, TypeOK, StoreTypes, ForwarderTypes, ConnectionTypes, WatcherTypes, Owner, AnyDocument, Write, vars, storeVars, engineVars, forwarderVars, connectionVars, watcherVars, bounds
  <1>11. CASE ForwardEngineChange
    BY <1>11 DEF ForwardEngineChange, Broadcast, TypeOK, StoreTypes, ForwarderTypes, ConnectionTypes, WatcherTypes, Owner, AnyDocument, Write, vars, storeVars, engineVars, forwarderVars, connectionVars, watcherVars, bounds
  <1>12. CASE ForwardRefresh
    BY <1>12 DEF ForwardRefresh, Broadcast, TypeOK, StoreTypes, ForwarderTypes, ConnectionTypes, WatcherTypes, Owner, AnyDocument, Write, vars, storeVars, engineVars, forwarderVars, connectionVars, watcherVars, bounds
  <1>13. CASE FanOut
    BY <1>13 DEF FanOut, Room, TypeOK, StoreTypes, ForwarderTypes, ConnectionTypes, WatcherTypes, Owner, AnyDocument, Write, vars, storeVars, engineVars, forwarderVars, connectionVars, watcherVars, bounds
  <1>14. CASE FanOutLag
    BY <1>14 DEF FanOutLag, Room, TypeOK, StoreTypes, ForwarderTypes, ConnectionTypes, WatcherTypes, Owner, AnyDocument, Write, vars, storeVars, engineVars, forwarderVars, connectionVars, watcherVars, bounds
  <1>15. CASE AcceptSubscription
    BY <1>15 DEF AcceptSubscription, TypeOK, StoreTypes, ForwarderTypes, ConnectionTypes, WatcherTypes, Owner, AnyDocument, Write, vars, storeVars, engineVars, forwarderVars, connectionVars, watcherVars, bounds
  <1>16. CASE SnapshotDesktop
    BY <1>16 DEF SnapshotDesktop, TypeOK, StoreTypes, ForwarderTypes, ConnectionTypes, WatcherTypes, Owner, AnyDocument, Write, vars, storeVars, engineVars, forwarderVars, connectionVars, watcherVars, bounds
  <1>17. CASE SnapshotEngine
    BY <1>17 DEF SnapshotEngine, TypeOK, StoreTypes, ForwarderTypes, ConnectionTypes, WatcherTypes, Owner, AnyDocument, Write, vars, storeVars, engineVars, forwarderVars, connectionVars, watcherVars, bounds
  <1>18. CASE SendSnapshot
    BY <1>18 DEF SendSnapshot, Room, TypeOK, StoreTypes, ForwarderTypes, ConnectionTypes, WatcherTypes, Owner, AnyDocument, Write, vars, storeVars, engineVars, forwarderVars, connectionVars, watcherVars, bounds
  <1>19. CASE Dial
    BY <1>19 DEF Dial, TypeOK, StoreTypes, ForwarderTypes, ConnectionTypes, WatcherTypes, Owner, AnyDocument, Write, vars, storeVars, engineVars, forwarderVars, connectionVars, watcherVars, bounds
  <1>20. CASE Subscribe
    BY <1>20 DEF Subscribe, TypeOK, StoreTypes, ForwarderTypes, ConnectionTypes, WatcherTypes, Owner, AnyDocument, Write, vars, storeVars, engineVars, forwarderVars, connectionVars, watcherVars, bounds
  <1>21. CASE AwaitSnapshot
    BY <1>21 DEF AwaitSnapshot, TypeOK, StoreTypes, ForwarderTypes, ConnectionTypes, WatcherTypes, Owner, AnyDocument, Write, vars, storeVars, engineVars, forwarderVars, connectionVars, watcherVars, bounds
  <1>22. CASE ReadEngine
    BY <1>22 DEF ReadEngine, TypeOK, StoreTypes, ForwarderTypes, ConnectionTypes, WatcherTypes, Owner, AnyDocument, Write, vars, storeVars, engineVars, forwarderVars, connectionVars, watcherVars, bounds
  <1>23. CASE ReadDesktop
    BY <1>23 DEF ReadDesktop, TypeOK, StoreTypes, ForwarderTypes, ConnectionTypes, WatcherTypes, Owner, AnyDocument, Write, vars, storeVars, engineVars, forwarderVars, connectionVars, watcherVars, bounds
  <1>24. CASE Listen
    BY <1>24 DEF Listen, Newer, TypeOK, StoreTypes, ForwarderTypes, ConnectionTypes, WatcherTypes, Owner, AnyDocument, Write, vars, storeVars, engineVars, forwarderVars, connectionVars, watcherVars, bounds
  <1>25. CASE ReadAgain
    BY <1>25 DEF ReadAgain, TypeOK, StoreTypes, ForwarderTypes, ConnectionTypes, WatcherTypes, Owner, AnyDocument, Write, vars, storeVars, engineVars, forwarderVars, connectionVars, watcherVars, bounds
  <1>26. CASE ReadFails
    BY <1>26 DEF ReadFails, CountFault, TypeOK, StoreTypes, ForwarderTypes, ConnectionTypes, WatcherTypes, Owner, AnyDocument, Write, vars, storeVars, engineVars, forwarderVars, connectionVars, watcherVars, bounds
  <1>27. CASE EndSession
    BY <1>27 DEF EndSession, Disconnected, NoRevisions, TypeOK, StoreTypes, ForwarderTypes, ConnectionTypes, WatcherTypes, Owner, AnyDocument, Write, vars, storeVars, engineVars, forwarderVars, connectionVars, watcherVars, bounds
  <1>28. CASE Pause
    BY <1>28 DEF Pause, Disconnected, NoRevisions, CountFault, TypeOK, StoreTypes, ForwarderTypes, ConnectionTypes, WatcherTypes, Owner, AnyDocument, Write, vars, storeVars, engineVars, forwarderVars, connectionVars, watcherVars, bounds
  <1>29. CASE Resume
    BY <1>29 DEF Resume, TypeOK, StoreTypes, ForwarderTypes, ConnectionTypes, WatcherTypes, Owner, AnyDocument, Write, vars, storeVars, engineVars, forwarderVars, connectionVars, watcherVars, bounds
  <1>29a. CASE ReconcileLan \/ LanReconciled
    BY <1>29a DEF ReconcileLan, LanReconciled, CountFault, TypeOK, StoreTypes, ForwarderTypes, ConnectionTypes, WatcherTypes, Owner, AnyDocument, Write, vars, storeVars, engineVars, forwarderVars, connectionVars, watcherVars, bounds
  <1>30. CASE Drop
    BY <1>30 DEF Drop, Disconnected, NoRevisions, CountFault, TypeOK, StoreTypes, ForwarderTypes, ConnectionTypes, WatcherTypes, Owner, AnyDocument, Write, vars, storeVars, engineVars, forwarderVars, connectionVars, watcherVars, bounds
  <1>31. CASE Burst
    BY <1>31 DEF Burst, CountFault, TypeOK, StoreTypes, ForwarderTypes, ConnectionTypes, WatcherTypes, Owner, AnyDocument, Write, vars, storeVars, engineVars, forwarderVars, connectionVars, watcherVars, bounds
  <1>32. CASE Crash
    BY <1>32 DEF Crash, Disconnected, NoRevisions, Idle, CountFault, TypeOK, StoreTypes, ForwarderTypes, ConnectionTypes, WatcherTypes, Owner, AnyDocument, Write, vars, storeVars, engineVars, forwarderVars, connectionVars, watcherVars, bounds
  <1>33. CASE Start
    BY <1>33 DEF Start, NoRevisions, TypeOK, StoreTypes, ForwarderTypes, ConnectionTypes, WatcherTypes, Owner, AnyDocument, Write, vars, storeVars, engineVars, forwarderVars, connectionVars, watcherVars, bounds
  <1>34. CASE UNCHANGED vars
    BY <1>34 DEF TypeOK, StoreTypes, ForwarderTypes, ConnectionTypes, WatcherTypes, Owner, AnyDocument, Write, vars, storeVars, engineVars, forwarderVars, connectionVars, watcherVars, bounds
  <1>35. QED
    BY <1>1, <1>2, <1>3, <1>4, <1>5, <1>6, <1>7, <1>8, <1>9, <1>10, <1>11, <1>12, <1>13, <1>14, <1>15, <1>16, <1>17, <1>18, <1>19, <1>20, <1>21, <1>22, <1>23, <1>24, <1>25, <1>26, <1>27, <1>28, <1>29, <1>30, <1>31, <1>32, <1>33, <1>34, <1>29a
    DEF Next, Storing, Forwarding, Answering, Watching

\* Every step keeps ForwarderTypes.
LEMMA ForwarderTypesStep ==
  ASSUME TypeOK, [Next]_vars
  PROVE  ForwarderTypes'
  <1> USE ConstantsAssumption
  <1>1. ASSUME NEW d \in Document, Apply(d) PROVE ForwarderTypes'
    BY <1>1 DEF Apply, CountChange, TypeOK, StoreTypes, ForwarderTypes, ConnectionTypes, WatcherTypes, Owner, vars, storeVars, engineVars, forwarderVars, connectionVars, watcherVars, bounds
  <1>2. CASE Reset
    BY <1>2 DEF Reset, CountChange, TypeOK, StoreTypes, ForwarderTypes, ConnectionTypes, WatcherTypes, Owner, vars, storeVars, engineVars, forwarderVars, connectionVars, watcherVars, bounds
  <1>3. CASE TouchDisk
    BY <1>3 DEF TouchDisk, TypeOK, StoreTypes, ForwarderTypes, ConnectionTypes, WatcherTypes, Owner, vars, storeVars, engineVars, forwarderVars, connectionVars, watcherVars, bounds
  <1>4. CASE WriteFails
    BY <1>4 DEF WriteFails, Idle, CountFault, TypeOK, StoreTypes, ForwarderTypes, ConnectionTypes, WatcherTypes, Owner, vars, storeVars, engineVars, forwarderVars, connectionVars, watcherVars, bounds
  <1>5. CASE Publish
    <2>1. UNCHANGED <<engineDoc, engineNews, engineLag, engineHeld, reconciling, rereading>>
      BY <1>5 DEF Publish, engineVars
    <2>2. revision'["desktop"] \in Nat
      BY <1>5 DEF Publish, TypeOK, StoreTypes, Owner
    <2>3. changes' \in Seq(Nat) /\ Len(changes') <= ChangeCapacity /\ changesLag' \in BOOLEAN
      <3>1. CASE Len(changes) < ChangeCapacity
        <4>1. changes' = Append(changes, revision'["desktop"]) /\ changesLag' = changesLag
          BY <1>5, <3>1 DEF Publish
        <4>2. QED BY <2>2, <3>1, <4>1, AppendOf DEF TypeOK, ForwarderTypes
      <3>2. CASE ~(Len(changes) < ChangeCapacity)
        <4>1. changes # <<>>
          BY <3>2 DEF TypeOK, ForwarderTypes
        <4>2. changes' = Append(Tail(changes), revision'["desktop"]) /\ changesLag' = TRUE
          BY <1>5, <3>2 DEF Publish
        <4>3. changes \in Seq(Nat) /\ Len(changes) <= ChangeCapacity
          BY DEF TypeOK, ForwarderTypes
        <4>4. QED BY <2>2, <4>1, <4>2, <4>3, ShiftOf
      <3>3. QED BY <3>1, <3>2
    <2>4. QED BY <2>1, <2>3 DEF TypeOK, ForwarderTypes
  <1>6. CASE EngineChanges
    <2>1. UNCHANGED <<engineHeld, reconciling, changes, changesLag, rereading>> /\ engineDoc' \in Document
      BY <1>6 DEF EngineChanges, forwarderVars
    <2>2. engineNews' \in 0..EngineCapacity /\ engineLag' \in BOOLEAN
      <3>1. \/ engineNews < EngineCapacity /\ engineNews' = engineNews + 1 /\ engineLag' = engineLag
            \/ engineNews' = engineNews /\ engineLag' = TRUE
        BY <1>6 DEF EngineChanges
      <3>2. engineLag' \in BOOLEAN
        BY <3>1 DEF TypeOK, ForwarderTypes
      <3>3. engineNews' \in 0..EngineCapacity
        BY <3>1 DEF TypeOK, ForwarderTypes
      <3>4. QED BY <3>2, <3>3
    <2>3. QED BY <2>1, <2>2 DEF TypeOK, ForwarderTypes
  <1>7. CASE Forward
    BY <1>7, TailOf DEF Forward, Broadcast, TypeOK, StoreTypes, ForwarderTypes, ConnectionTypes, WatcherTypes, Owner, vars, storeVars, engineVars, forwarderVars, connectionVars, watcherVars, bounds
  <1>8. CASE ForwardLag
    BY <1>8 DEF ForwardLag, TypeOK, StoreTypes, ForwarderTypes, ConnectionTypes, WatcherTypes, Owner, vars, storeVars, engineVars, forwarderVars, connectionVars, watcherVars, bounds
  <1>9. CASE ForwardReread
    BY <1>9 DEF ForwardReread, Broadcast, TypeOK, StoreTypes, ForwarderTypes, ConnectionTypes, WatcherTypes, Owner, vars, storeVars, engineVars, forwarderVars, connectionVars, watcherVars, bounds
  <1>10. CASE CountEngineChange
    BY <1>10 DEF CountEngineChange, TypeOK, StoreTypes, ForwarderTypes, ConnectionTypes, WatcherTypes, Owner, vars, storeVars, engineVars, forwarderVars, connectionVars, watcherVars, bounds
  <1>11. CASE ForwardEngineChange
    BY <1>11 DEF ForwardEngineChange, Broadcast, TypeOK, StoreTypes, ForwarderTypes, ConnectionTypes, WatcherTypes, Owner, vars, storeVars, engineVars, forwarderVars, connectionVars, watcherVars, bounds
  <1>12. CASE ForwardRefresh
    BY <1>12 DEF ForwardRefresh, Broadcast, TypeOK, StoreTypes, ForwarderTypes, ConnectionTypes, WatcherTypes, Owner, vars, storeVars, engineVars, forwarderVars, connectionVars, watcherVars, bounds
  <1>13. CASE FanOut
    BY <1>13 DEF FanOut, Room, TypeOK, StoreTypes, ForwarderTypes, ConnectionTypes, WatcherTypes, Owner, vars, storeVars, engineVars, forwarderVars, connectionVars, watcherVars, bounds
  <1>14. CASE FanOutLag
    BY <1>14 DEF FanOutLag, Room, TypeOK, StoreTypes, ForwarderTypes, ConnectionTypes, WatcherTypes, Owner, vars, storeVars, engineVars, forwarderVars, connectionVars, watcherVars, bounds
  <1>15. CASE AcceptSubscription
    BY <1>15 DEF AcceptSubscription, TypeOK, StoreTypes, ForwarderTypes, ConnectionTypes, WatcherTypes, Owner, vars, storeVars, engineVars, forwarderVars, connectionVars, watcherVars, bounds
  <1>16. CASE SnapshotDesktop
    BY <1>16 DEF SnapshotDesktop, TypeOK, StoreTypes, ForwarderTypes, ConnectionTypes, WatcherTypes, Owner, vars, storeVars, engineVars, forwarderVars, connectionVars, watcherVars, bounds
  <1>17. CASE SnapshotEngine
    BY <1>17 DEF SnapshotEngine, TypeOK, StoreTypes, ForwarderTypes, ConnectionTypes, WatcherTypes, Owner, vars, storeVars, engineVars, forwarderVars, connectionVars, watcherVars, bounds
  <1>18. CASE SendSnapshot
    BY <1>18 DEF SendSnapshot, Room, TypeOK, StoreTypes, ForwarderTypes, ConnectionTypes, WatcherTypes, Owner, vars, storeVars, engineVars, forwarderVars, connectionVars, watcherVars, bounds
  <1>19. CASE Dial
    BY <1>19 DEF Dial, TypeOK, StoreTypes, ForwarderTypes, ConnectionTypes, WatcherTypes, Owner, vars, storeVars, engineVars, forwarderVars, connectionVars, watcherVars, bounds
  <1>20. CASE Subscribe
    BY <1>20 DEF Subscribe, TypeOK, StoreTypes, ForwarderTypes, ConnectionTypes, WatcherTypes, Owner, vars, storeVars, engineVars, forwarderVars, connectionVars, watcherVars, bounds
  <1>21. CASE AwaitSnapshot
    BY <1>21 DEF AwaitSnapshot, TypeOK, StoreTypes, ForwarderTypes, ConnectionTypes, WatcherTypes, Owner, vars, storeVars, engineVars, forwarderVars, connectionVars, watcherVars, bounds
  <1>22. CASE ReadEngine
    BY <1>22 DEF ReadEngine, TypeOK, StoreTypes, ForwarderTypes, ConnectionTypes, WatcherTypes, Owner, vars, storeVars, engineVars, forwarderVars, connectionVars, watcherVars, bounds
  <1>23. CASE ReadDesktop
    BY <1>23 DEF ReadDesktop, TypeOK, StoreTypes, ForwarderTypes, ConnectionTypes, WatcherTypes, Owner, vars, storeVars, engineVars, forwarderVars, connectionVars, watcherVars, bounds
  <1>24. CASE Listen
    BY <1>24 DEF Listen, Newer, TypeOK, StoreTypes, ForwarderTypes, ConnectionTypes, WatcherTypes, Owner, vars, storeVars, engineVars, forwarderVars, connectionVars, watcherVars, bounds
  <1>25. CASE ReadAgain
    BY <1>25 DEF ReadAgain, TypeOK, StoreTypes, ForwarderTypes, ConnectionTypes, WatcherTypes, Owner, vars, storeVars, engineVars, forwarderVars, connectionVars, watcherVars, bounds
  <1>26. CASE ReadFails
    BY <1>26 DEF ReadFails, CountFault, TypeOK, StoreTypes, ForwarderTypes, ConnectionTypes, WatcherTypes, Owner, vars, storeVars, engineVars, forwarderVars, connectionVars, watcherVars, bounds
  <1>27. CASE EndSession
    BY <1>27 DEF EndSession, Disconnected, NoRevisions, TypeOK, StoreTypes, ForwarderTypes, ConnectionTypes, WatcherTypes, Owner, vars, storeVars, engineVars, forwarderVars, connectionVars, watcherVars, bounds
  <1>28. CASE Pause
    BY <1>28 DEF Pause, Disconnected, NoRevisions, CountFault, TypeOK, StoreTypes, ForwarderTypes, ConnectionTypes, WatcherTypes, Owner, vars, storeVars, engineVars, forwarderVars, connectionVars, watcherVars, bounds
  <1>29. CASE Resume
    BY <1>29 DEF Resume, TypeOK, StoreTypes, ForwarderTypes, ConnectionTypes, WatcherTypes, Owner, vars, storeVars, engineVars, forwarderVars, connectionVars, watcherVars, bounds
  <1>29a. CASE ReconcileLan \/ LanReconciled
    BY <1>29a DEF ReconcileLan, LanReconciled, CountFault, TypeOK, StoreTypes, ForwarderTypes, ConnectionTypes, WatcherTypes, Owner, vars, storeVars, engineVars, forwarderVars, connectionVars, watcherVars, bounds
  <1>30. CASE Drop
    BY <1>30 DEF Drop, Disconnected, NoRevisions, CountFault, TypeOK, StoreTypes, ForwarderTypes, ConnectionTypes, WatcherTypes, Owner, vars, storeVars, engineVars, forwarderVars, connectionVars, watcherVars, bounds
  <1>31. CASE Burst
    <2>1. UNCHANGED <<engineDoc, engineHeld, reconciling, changes, changesLag, rereading>>
      BY <1>31 DEF Burst, forwarderVars
    <2>2. engineNews' \in 0..EngineCapacity /\ engineLag' \in BOOLEAN
      <3>1. CASE engineNews' = 0 /\ engineLag' = TRUE
        BY <3>1
      <3>2. CASE UNCHANGED <<engineNews, engineLag>>
        BY <3>2 DEF TypeOK, ForwarderTypes
      <3>3. QED BY <1>31, <3>1, <3>2, Zenon DEF Burst
    <2>3. QED BY <2>1, <2>2 DEF TypeOK, ForwarderTypes
  <1>32. CASE Crash
    <2>1. engineNews' = 0 /\ engineLag' = FALSE /\ engineHeld' = 0 /\ changes' = <<>>
          /\ changesLag' = FALSE /\ rereading' = FALSE /\ engineDoc' = engineDoc
          /\ reconciling' = FALSE
      BY <1>32 DEF Crash
    <2>2. <<>> \in Seq(Nat) /\ Len(<<>>) = 0
      BY EmptyQueue
    <2>3. engineNews' \in 0..EngineCapacity
      BY <2>1
    <2>4. changes' \in Seq(Nat) /\ Len(changes') <= ChangeCapacity
      BY <2>1, <2>2
    <2>5. engineDoc' \in Document /\ engineHeld' \in Nat
      BY <2>1 DEF TypeOK, ForwarderTypes
    <2>6. QED BY <2>1, <2>3, <2>4, <2>5 DEF ForwarderTypes
  <1>33. CASE Start
    BY <1>33 DEF Start, NoRevisions, TypeOK, StoreTypes, ForwarderTypes, ConnectionTypes, WatcherTypes, Owner, vars, storeVars, engineVars, forwarderVars, connectionVars, watcherVars, bounds
  <1>34. CASE UNCHANGED vars
    BY <1>34 DEF TypeOK, StoreTypes, ForwarderTypes, ConnectionTypes, WatcherTypes, Owner, vars, storeVars, engineVars, forwarderVars, connectionVars, watcherVars, bounds
  <1>35. QED
    BY <1>1, <1>2, <1>3, <1>4, <1>5, <1>6, <1>7, <1>8, <1>9, <1>10, <1>11, <1>12, <1>13, <1>14, <1>15, <1>16, <1>17, <1>18, <1>19, <1>20, <1>21, <1>22, <1>23, <1>24, <1>25, <1>26, <1>27, <1>28, <1>29, <1>30, <1>31, <1>32, <1>33, <1>34, <1>29a
    DEF Next, Storing, Forwarding, Answering, Watching

\* Every step keeps ConnectionTypes.
LEMMA ConnectionTypesStep ==
  ASSUME TypeOK, [Next]_vars
  PROVE  ConnectionTypes'
  <1> USE ConstantsAssumption
  <1>1. ASSUME NEW d \in Document, Apply(d) PROVE ConnectionTypes'
    BY <1>1 DEF Apply, CountChange, TypeOK, StoreTypes, ForwarderTypes, ConnectionTypes, WatcherTypes, Owner, vars, storeVars, engineVars, forwarderVars, connectionVars, watcherVars, bounds
  <1>2. CASE Reset
    BY <1>2 DEF Reset, CountChange, TypeOK, StoreTypes, ForwarderTypes, ConnectionTypes, WatcherTypes, Owner, vars, storeVars, engineVars, forwarderVars, connectionVars, watcherVars, bounds
  <1>3. CASE TouchDisk
    BY <1>3 DEF TouchDisk, TypeOK, StoreTypes, ForwarderTypes, ConnectionTypes, WatcherTypes, Owner, vars, storeVars, engineVars, forwarderVars, connectionVars, watcherVars, bounds
  <1>4. CASE WriteFails
    BY <1>4 DEF WriteFails, Idle, CountFault, TypeOK, StoreTypes, ForwarderTypes, ConnectionTypes, WatcherTypes, Owner, vars, storeVars, engineVars, forwarderVars, connectionVars, watcherVars, bounds
  <1>5. CASE Publish
    BY <1>5 DEF Publish, Idle, TypeOK, StoreTypes, ForwarderTypes, ConnectionTypes, WatcherTypes, Owner, vars, storeVars, engineVars, forwarderVars, connectionVars, watcherVars, bounds
  <1>6. CASE EngineChanges
    BY <1>6 DEF EngineChanges, CountChange, TypeOK, StoreTypes, ForwarderTypes, ConnectionTypes, WatcherTypes, Owner, vars, storeVars, engineVars, forwarderVars, connectionVars, watcherVars, bounds
  <1>7. CASE Forward
    <2>1. Changed("desktop", Head(changes)) \in Event
      BY <1>7, Kinds, TailOf DEF Forward, Owner, StoreTypes, ForwarderTypes, TypeOK
    <2>2. Broadcast(Changed("desktop", Head(changes))) /\ ConnectionTypes
      BY <1>7 DEF Forward, TypeOK
    <2>3. UNCHANGED <<open, subscribed, answering, answer, wire>>
      BY <1>7 DEF Forward
    <2>4. QED BY <2>1, <2>2, <2>3, BroadcastOf DEF ConnectionTypes
  <1>8. CASE ForwardLag
    BY <1>8 DEF ForwardLag, TypeOK, StoreTypes, ForwarderTypes, ConnectionTypes, WatcherTypes, Owner, vars, storeVars, engineVars, forwarderVars, connectionVars, watcherVars, bounds
  <1>9. CASE ForwardReread
    <2>1. Changed("desktop", revision["desktop"]) \in Event
      BY <1>9, Kinds, TailOf DEF ForwardReread, Owner, StoreTypes, ForwarderTypes, TypeOK
    <2>2. Broadcast(Changed("desktop", revision["desktop"])) /\ ConnectionTypes
      BY <1>9 DEF ForwardReread, TypeOK
    <2>3. UNCHANGED <<open, subscribed, answering, answer, wire>>
      BY <1>9 DEF ForwardReread
    <2>4. QED BY <2>1, <2>2, <2>3, BroadcastOf DEF ConnectionTypes
  <1>10. CASE CountEngineChange
    BY <1>10 DEF CountEngineChange, TypeOK, StoreTypes, ForwarderTypes, ConnectionTypes, WatcherTypes, Owner, vars, storeVars, engineVars, forwarderVars, connectionVars, watcherVars, bounds
  <1>11. CASE ForwardEngineChange
    <2>1. Changed("engine", engineHeld) \in Event
      BY <1>11, Kinds, TailOf DEF ForwardEngineChange, Owner, StoreTypes, ForwarderTypes, TypeOK
    <2>2. Broadcast(Changed("engine", engineHeld)) /\ ConnectionTypes
      BY <1>11 DEF ForwardEngineChange, TypeOK
    <2>3. UNCHANGED <<open, subscribed, answering, answer, wire>>
      BY <1>11 DEF ForwardEngineChange
    <2>4. QED BY <2>1, <2>2, <2>3, BroadcastOf DEF ConnectionTypes
  <1>12. CASE ForwardRefresh
    <2>1. Refresh \in Event
      BY <1>12, Kinds, TailOf DEF ForwardRefresh, Owner, StoreTypes, ForwarderTypes, TypeOK
    <2>2. Broadcast(Refresh) /\ ConnectionTypes
      BY <1>12 DEF ForwardRefresh, TypeOK
    <2>3. UNCHANGED <<open, subscribed, answering, answer, wire>>
      BY <1>12 DEF ForwardRefresh
    <2>4. QED BY <2>1, <2>2, <2>3, BroadcastOf DEF ConnectionTypes
  <1>13. CASE FanOut
    <2>1. UNCHANGED <<open, eventsLag, subscribed, answering, answer>> /\ events' = Tail(events)
          /\ events # <<>>
      BY <1>13 DEF FanOut
    <2>2. events' \in Seq(Event) /\ Len(events') <= EventCapacity /\ Head(events) \in Message
      BY <2>1, TailOf, Kinds DEF TypeOK, ConnectionTypes
    <2>3. wire' \in Seq(Message) /\ Len(wire') <= WireSize
      <3>1. \/ wire' = wire
            \/ wire' = Append(wire, Head(events)) /\ Len(wire) < WireSize
        BY <1>13 DEF FanOut, Room
      <3>2. CASE wire' = wire
        BY <3>2 DEF TypeOK, ConnectionTypes
      <3>3. CASE wire' = Append(wire, Head(events)) /\ Len(wire) < WireSize
        BY <2>2, <3>3, AppendOf DEF TypeOK, ConnectionTypes
      <3>4. QED BY <3>1, <3>2, <3>3
    <2>4. QED BY <2>1, <2>2, <2>3 DEF TypeOK, ConnectionTypes
  <1>14. CASE FanOutLag
    <2>1. UNCHANGED <<open, events, subscribed, answering, answer>> /\ eventsLag' = FALSE
          /\ wire' = Append(wire, Refresh) /\ Len(wire) < WireSize
      BY <1>14 DEF FanOutLag, Room
    <2>2. wire' \in Seq(Message) /\ Len(wire') <= WireSize
      BY <2>1, AppendOf, Kinds DEF TypeOK, ConnectionTypes
    <2>3. QED BY <2>1, <2>2 DEF TypeOK, ConnectionTypes
  <1>15. CASE AcceptSubscription
    BY <1>15 DEF AcceptSubscription, TypeOK, StoreTypes, ForwarderTypes, ConnectionTypes, WatcherTypes, Owner, vars, storeVars, engineVars, forwarderVars, connectionVars, watcherVars, bounds
  <1>16. CASE SnapshotDesktop
    BY <1>16 DEF SnapshotDesktop, TypeOK, StoreTypes, ForwarderTypes, ConnectionTypes, WatcherTypes, Owner, vars, storeVars, engineVars, forwarderVars, connectionVars, watcherVars, bounds
  <1>17. CASE SnapshotEngine
    BY <1>17 DEF SnapshotEngine, TypeOK, StoreTypes, ForwarderTypes, ConnectionTypes, WatcherTypes, Owner, vars, storeVars, engineVars, forwarderVars, connectionVars, watcherVars, bounds
  <1>18. CASE SendSnapshot
    <2>1. UNCHANGED <<open, events, eventsLag, subscribed, answer>> /\ answering' = "none"
          /\ wire' = Append(wire, Snapshot(answer)) /\ Len(wire) < WireSize
      BY <1>18 DEF SendSnapshot, Room
    <2>2. wire' \in Seq(Message) /\ Len(wire') <= WireSize
      BY <2>1, AppendOf, Kinds DEF TypeOK, ConnectionTypes
    <2>3. QED BY <2>1, <2>2 DEF TypeOK, ConnectionTypes
  <1>19. CASE Dial
    BY <1>19 DEF Dial, TypeOK, StoreTypes, ForwarderTypes, ConnectionTypes, WatcherTypes, Owner, vars, storeVars, engineVars, forwarderVars, connectionVars, watcherVars, bounds
  <1>20. CASE Subscribe
    BY <1>20 DEF Subscribe, TypeOK, StoreTypes, ForwarderTypes, ConnectionTypes, WatcherTypes, Owner, vars, storeVars, engineVars, forwarderVars, connectionVars, watcherVars, bounds
  <1>21. CASE AwaitSnapshot
    <2>1. UNCHANGED <<open, events, eventsLag, subscribed, answering, answer>>
          /\ wire' = Tail(wire) /\ wire # <<>>
      BY <1>21 DEF AwaitSnapshot
    <2>2. QED BY <2>1, TailOf DEF TypeOK, ConnectionTypes
  <1>22. CASE ReadEngine
    BY <1>22 DEF ReadEngine, TypeOK, StoreTypes, ForwarderTypes, ConnectionTypes, WatcherTypes, Owner, vars, storeVars, engineVars, forwarderVars, connectionVars, watcherVars, bounds
  <1>23. CASE ReadDesktop
    BY <1>23 DEF ReadDesktop, TypeOK, StoreTypes, ForwarderTypes, ConnectionTypes, WatcherTypes, Owner, vars, storeVars, engineVars, forwarderVars, connectionVars, watcherVars, bounds
  <1>24. CASE Listen
    <2>1. UNCHANGED <<open, events, eventsLag, subscribed, answering, answer>>
          /\ wire' = Tail(wire) /\ wire # <<>>
      BY <1>24 DEF Listen
    <2>2. QED BY <2>1, TailOf DEF TypeOK, ConnectionTypes
  <1>25. CASE ReadAgain
    BY <1>25 DEF ReadAgain, TypeOK, StoreTypes, ForwarderTypes, ConnectionTypes, WatcherTypes, Owner, vars, storeVars, engineVars, forwarderVars, connectionVars, watcherVars, bounds
  <1>26. CASE ReadFails
    BY <1>26 DEF ReadFails, CountFault, TypeOK, StoreTypes, ForwarderTypes, ConnectionTypes, WatcherTypes, Owner, vars, storeVars, engineVars, forwarderVars, connectionVars, watcherVars, bounds
  <1>27. CASE EndSession
    <2>1. Disconnected
      BY <1>27 DEF EndSession
    <2>2. <<>> \in Seq(Event) /\ <<>> \in Seq(Message) /\ Len(<<>>) = 0
      BY EmptyQueue
    <2>3. open' = FALSE /\ events' = <<>> /\ eventsLag' = FALSE /\ subscribed' = FALSE
          /\ answering' = "none" /\ wire' = <<>>
      BY <2>1 DEF Disconnected
    <2>4. answer' \in [Owner -> Nat]
      BY <2>1 DEF Disconnected, NoRevisions
    <2>5. events' \in Seq(Event) /\ Len(events') <= EventCapacity
      BY <2>2, <2>3
    <2>6. wire' \in Seq(Message) /\ Len(wire') <= WireSize
      BY <2>2, <2>3
    <2>7. QED BY <2>3, <2>4, <2>5, <2>6 DEF ConnectionTypes
  <1>28. CASE Pause
    <2>1. Disconnected
      BY <1>28 DEF Pause
    <2>2. <<>> \in Seq(Event) /\ <<>> \in Seq(Message) /\ Len(<<>>) = 0
      BY EmptyQueue
    <2>3. open' = FALSE /\ events' = <<>> /\ eventsLag' = FALSE /\ subscribed' = FALSE
          /\ answering' = "none" /\ wire' = <<>>
      BY <2>1 DEF Disconnected
    <2>4. answer' \in [Owner -> Nat]
      BY <2>1 DEF Disconnected, NoRevisions
    <2>5. events' \in Seq(Event) /\ Len(events') <= EventCapacity
      BY <2>2, <2>3
    <2>6. wire' \in Seq(Message) /\ Len(wire') <= WireSize
      BY <2>2, <2>3
    <2>7. QED BY <2>3, <2>4, <2>5, <2>6 DEF ConnectionTypes
  <1>29. CASE Resume
    BY <1>29 DEF Resume, TypeOK, StoreTypes, ForwarderTypes, ConnectionTypes, WatcherTypes, Owner, vars, storeVars, engineVars, forwarderVars, connectionVars, watcherVars, bounds
  <1>29a. CASE ReconcileLan \/ LanReconciled
    BY <1>29a DEF ReconcileLan, LanReconciled, CountFault, TypeOK, StoreTypes, ForwarderTypes, ConnectionTypes, WatcherTypes, Owner, vars, storeVars, engineVars, forwarderVars, connectionVars, watcherVars, bounds
  <1>30. CASE Drop
    <2>1. Disconnected
      BY <1>30 DEF Drop
    <2>2. <<>> \in Seq(Event) /\ <<>> \in Seq(Message) /\ Len(<<>>) = 0
      BY EmptyQueue
    <2>3. open' = FALSE /\ events' = <<>> /\ eventsLag' = FALSE /\ subscribed' = FALSE
          /\ answering' = "none" /\ wire' = <<>>
      BY <2>1 DEF Disconnected
    <2>4. answer' \in [Owner -> Nat]
      BY <2>1 DEF Disconnected, NoRevisions
    <2>5. events' \in Seq(Event) /\ Len(events') <= EventCapacity
      BY <2>2, <2>3
    <2>6. wire' \in Seq(Message) /\ Len(wire') <= WireSize
      BY <2>2, <2>3
    <2>7. QED BY <2>3, <2>4, <2>5, <2>6 DEF ConnectionTypes
  <1>31. CASE Burst
    <2>1. UNCHANGED <<open, subscribed, answering, answer, wire>>
      BY <1>31 DEF Burst
    <2>2. CASE UNCHANGED <<events, eventsLag>>
      BY <2>1, <2>2 DEF TypeOK, ConnectionTypes
    <2>3. CASE events' = <<>> /\ eventsLag' = TRUE
      BY <2>1, <2>3, EmptyQueue DEF TypeOK, ConnectionTypes
    <2>4. QED BY <1>31, <2>2, <2>3 DEF Burst
  <1>32. CASE Crash
    <2>1. Disconnected
      BY <1>32 DEF Crash
    <2>2. <<>> \in Seq(Event) /\ <<>> \in Seq(Message) /\ Len(<<>>) = 0
      BY EmptyQueue
    <2>3. open' = FALSE /\ events' = <<>> /\ eventsLag' = FALSE /\ subscribed' = FALSE
          /\ answering' = "none" /\ wire' = <<>>
      BY <2>1 DEF Disconnected
    <2>4. answer' \in [Owner -> Nat]
      BY <2>1 DEF Disconnected, NoRevisions
    <2>5. events' \in Seq(Event) /\ Len(events') <= EventCapacity
      BY <2>2, <2>3
    <2>6. wire' \in Seq(Message) /\ Len(wire') <= WireSize
      BY <2>2, <2>3
    <2>7. QED BY <2>3, <2>4, <2>5, <2>6 DEF ConnectionTypes
  <1>33. CASE Start
    BY <1>33 DEF Start, NoRevisions, TypeOK, StoreTypes, ForwarderTypes, ConnectionTypes, WatcherTypes, Owner, vars, storeVars, engineVars, forwarderVars, connectionVars, watcherVars, bounds
  <1>34. CASE UNCHANGED vars
    BY <1>34 DEF TypeOK, StoreTypes, ForwarderTypes, ConnectionTypes, WatcherTypes, Owner, vars, storeVars, engineVars, forwarderVars, connectionVars, watcherVars, bounds
  <1>35. QED
    BY <1>1, <1>2, <1>3, <1>4, <1>5, <1>6, <1>7, <1>8, <1>9, <1>10, <1>11, <1>12, <1>13, <1>14, <1>15, <1>16, <1>17, <1>18, <1>19, <1>20, <1>21, <1>22, <1>23, <1>24, <1>25, <1>26, <1>27, <1>28, <1>29, <1>30, <1>31, <1>32, <1>33, <1>34, <1>29a
    DEF Next, Storing, Forwarding, Answering, Watching

\* Every step keeps WatcherTypes.
LEMMA WatcherTypesStep ==
  ASSUME TypeOK, [Next]_vars
  PROVE  WatcherTypes'
  <1> USE ConstantsAssumption
  <1>1. ASSUME NEW d \in Document, Apply(d) PROVE WatcherTypes'
    BY <1>1 DEF Apply, CountChange, TypeOK, StoreTypes, ForwarderTypes, ConnectionTypes, WatcherTypes, Owner, AnyDocument, Session, vars, storeVars, engineVars, forwarderVars, connectionVars, watcherVars, bounds
  <1>2. CASE Reset
    BY <1>2 DEF Reset, CountChange, TypeOK, StoreTypes, ForwarderTypes, ConnectionTypes, WatcherTypes, Owner, AnyDocument, Session, vars, storeVars, engineVars, forwarderVars, connectionVars, watcherVars, bounds
  <1>3. CASE TouchDisk
    BY <1>3 DEF TouchDisk, TypeOK, StoreTypes, ForwarderTypes, ConnectionTypes, WatcherTypes, Owner, AnyDocument, Session, vars, storeVars, engineVars, forwarderVars, connectionVars, watcherVars, bounds
  <1>4. CASE WriteFails
    BY <1>4 DEF WriteFails, Idle, CountFault, TypeOK, StoreTypes, ForwarderTypes, ConnectionTypes, WatcherTypes, Owner, AnyDocument, Session, vars, storeVars, engineVars, forwarderVars, connectionVars, watcherVars, bounds
  <1>5. CASE Publish
    BY <1>5 DEF Publish, Idle, TypeOK, StoreTypes, ForwarderTypes, ConnectionTypes, WatcherTypes, Owner, AnyDocument, Session, vars, storeVars, engineVars, forwarderVars, connectionVars, watcherVars, bounds
  <1>6. CASE EngineChanges
    BY <1>6 DEF EngineChanges, CountChange, TypeOK, StoreTypes, ForwarderTypes, ConnectionTypes, WatcherTypes, Owner, AnyDocument, Session, vars, storeVars, engineVars, forwarderVars, connectionVars, watcherVars, bounds
  <1>7. CASE Forward
    BY <1>7 DEF Forward, Broadcast, TypeOK, StoreTypes, ForwarderTypes, ConnectionTypes, WatcherTypes, Owner, AnyDocument, Session, vars, storeVars, engineVars, forwarderVars, connectionVars, watcherVars, bounds
  <1>8. CASE ForwardLag
    BY <1>8 DEF ForwardLag, TypeOK, StoreTypes, ForwarderTypes, ConnectionTypes, WatcherTypes, Owner, AnyDocument, Session, vars, storeVars, engineVars, forwarderVars, connectionVars, watcherVars, bounds
  <1>9. CASE ForwardReread
    BY <1>9 DEF ForwardReread, Broadcast, TypeOK, StoreTypes, ForwarderTypes, ConnectionTypes, WatcherTypes, Owner, AnyDocument, Session, vars, storeVars, engineVars, forwarderVars, connectionVars, watcherVars, bounds
  <1>10. CASE CountEngineChange
    BY <1>10 DEF CountEngineChange, TypeOK, StoreTypes, ForwarderTypes, ConnectionTypes, WatcherTypes, Owner, AnyDocument, Session, vars, storeVars, engineVars, forwarderVars, connectionVars, watcherVars, bounds
  <1>11. CASE ForwardEngineChange
    BY <1>11 DEF ForwardEngineChange, Broadcast, TypeOK, StoreTypes, ForwarderTypes, ConnectionTypes, WatcherTypes, Owner, AnyDocument, Session, vars, storeVars, engineVars, forwarderVars, connectionVars, watcherVars, bounds
  <1>12. CASE ForwardRefresh
    BY <1>12 DEF ForwardRefresh, Broadcast, TypeOK, StoreTypes, ForwarderTypes, ConnectionTypes, WatcherTypes, Owner, AnyDocument, Session, vars, storeVars, engineVars, forwarderVars, connectionVars, watcherVars, bounds
  <1>13. CASE FanOut
    BY <1>13 DEF FanOut, Room, TypeOK, StoreTypes, ForwarderTypes, ConnectionTypes, WatcherTypes, Owner, AnyDocument, Session, vars, storeVars, engineVars, forwarderVars, connectionVars, watcherVars, bounds
  <1>14. CASE FanOutLag
    BY <1>14 DEF FanOutLag, Room, TypeOK, StoreTypes, ForwarderTypes, ConnectionTypes, WatcherTypes, Owner, AnyDocument, Session, vars, storeVars, engineVars, forwarderVars, connectionVars, watcherVars, bounds
  <1>15. CASE AcceptSubscription
    BY <1>15 DEF AcceptSubscription, TypeOK, StoreTypes, ForwarderTypes, ConnectionTypes, WatcherTypes, Owner, AnyDocument, Session, vars, storeVars, engineVars, forwarderVars, connectionVars, watcherVars, bounds
  <1>16. CASE SnapshotDesktop
    BY <1>16 DEF SnapshotDesktop, TypeOK, StoreTypes, ForwarderTypes, ConnectionTypes, WatcherTypes, Owner, AnyDocument, Session, vars, storeVars, engineVars, forwarderVars, connectionVars, watcherVars, bounds
  <1>17. CASE SnapshotEngine
    BY <1>17 DEF SnapshotEngine, TypeOK, StoreTypes, ForwarderTypes, ConnectionTypes, WatcherTypes, Owner, AnyDocument, Session, vars, storeVars, engineVars, forwarderVars, connectionVars, watcherVars, bounds
  <1>18. CASE SendSnapshot
    BY <1>18 DEF SendSnapshot, Room, TypeOK, StoreTypes, ForwarderTypes, ConnectionTypes, WatcherTypes, Owner, AnyDocument, Session, vars, storeVars, engineVars, forwarderVars, connectionVars, watcherVars, bounds
  <1>19. CASE Dial
    BY <1>19 DEF Dial, TypeOK, StoreTypes, ForwarderTypes, ConnectionTypes, WatcherTypes, Owner, AnyDocument, Session, vars, storeVars, engineVars, forwarderVars, connectionVars, watcherVars, bounds
  <1>20. CASE Subscribe
    BY <1>20 DEF Subscribe, TypeOK, StoreTypes, ForwarderTypes, ConnectionTypes, WatcherTypes, Owner, AnyDocument, Session, vars, storeVars, engineVars, forwarderVars, connectionVars, watcherVars, bounds
  <1>21. CASE AwaitSnapshot
    <2>1. Head(wire) \in Message /\ UNCHANGED <<held, applied, paused, nchanges, nfaults>>
      BY <1>21, TailOf DEF AwaitSnapshot, TypeOK, ConnectionTypes, bounds
    <2>2. /\ pc' \in Session /\ stale' \in BOOLEAN
          /\ baseline' = baseline \/ (Head(wire).type = "snapshot" /\ baseline' = Head(wire).revisions)
      BY <1>21 DEF AwaitSnapshot, TypeOK, WatcherTypes, Session
    <2>3. baseline' \in [Owner -> Nat]
      BY <2>1, <2>2, Kinds DEF TypeOK, WatcherTypes
    <2>4. QED BY <2>1, <2>2, <2>3 DEF TypeOK, WatcherTypes
  <1>22. CASE ReadEngine
    BY <1>22 DEF ReadEngine, TypeOK, StoreTypes, ForwarderTypes, ConnectionTypes, WatcherTypes, Owner, AnyDocument, Session, vars, storeVars, engineVars, forwarderVars, connectionVars, watcherVars, bounds
  <1>23. CASE ReadDesktop
    BY <1>23 DEF ReadDesktop, TypeOK, StoreTypes, ForwarderTypes, ConnectionTypes, WatcherTypes, Owner, AnyDocument, Session, vars, storeVars, engineVars, forwarderVars, connectionVars, watcherVars, bounds
  <1>24. CASE Listen
    <2>1. Head(wire) \in Message /\ UNCHANGED <<pc, held, applied, paused, nchanges, nfaults>>
      BY <1>24, TailOf DEF Listen, TypeOK, ConnectionTypes, bounds
    <2>2. stale' \in BOOLEAN
      BY <1>24, Zenon DEF Listen, Newer
    <2>3. \/ baseline' = baseline
          \/ /\ Head(wire).type = "changed"
             /\ baseline' = [baseline EXCEPT ![Head(wire).owner] = Head(wire).revision]
      BY <1>24 DEF Listen
    <2>4. baseline' \in [Owner -> Nat]
      BY <2>1, <2>3, Kinds DEF TypeOK, WatcherTypes
    <2>5. QED BY <2>1, <2>2, <2>4 DEF TypeOK, WatcherTypes
  <1>25. CASE ReadAgain
    BY <1>25 DEF ReadAgain, TypeOK, StoreTypes, ForwarderTypes, ConnectionTypes, WatcherTypes, Owner, AnyDocument, Session, vars, storeVars, engineVars, forwarderVars, connectionVars, watcherVars, bounds
  <1>26. CASE ReadFails
    <2>1. UNCHANGED <<baseline, stale, held, applied, paused>> /\ pc' = "closing"
      BY <1>26 DEF ReadFails
    <2>2. nchanges' \in 0..MaxChanges /\ nfaults' \in 0..MaxFaults
      BY <1>26, ConstantsAssumption DEF ReadFails, CountFault, bounds, TypeOK, WatcherTypes
    <2>3. QED BY <2>1, <2>2 DEF TypeOK, WatcherTypes, Session
  <1>27. CASE EndSession
    BY <1>27 DEF EndSession, Disconnected, NoRevisions, TypeOK, StoreTypes, ForwarderTypes, ConnectionTypes, WatcherTypes, Owner, AnyDocument, Session, vars, storeVars, engineVars, forwarderVars, connectionVars, watcherVars, bounds
  <1>28. CASE Pause
    BY <1>28 DEF Pause, Disconnected, NoRevisions, CountFault, TypeOK, StoreTypes, ForwarderTypes, ConnectionTypes, WatcherTypes, Owner, AnyDocument, Session, vars, storeVars, engineVars, forwarderVars, connectionVars, watcherVars, bounds
  <1>29. CASE Resume
    BY <1>29 DEF Resume, TypeOK, StoreTypes, ForwarderTypes, ConnectionTypes, WatcherTypes, Owner, AnyDocument, Session, vars, storeVars, engineVars, forwarderVars, connectionVars, watcherVars, bounds
  <1>29a. CASE ReconcileLan \/ LanReconciled
    <2>1. UNCHANGED <<pc, baseline, stale, held, applied, paused, nchanges>>
      BY <1>29a DEF ReconcileLan, LanReconciled, CountFault, watcherVars, bounds
    <2>2. nfaults' \in 0..MaxFaults
      BY <1>29a DEF ReconcileLan, LanReconciled, CountFault, bounds, TypeOK, WatcherTypes
    <2>3. QED BY <2>1, <2>2 DEF TypeOK, WatcherTypes
  <1>30. CASE Drop
    BY <1>30 DEF Drop, Disconnected, NoRevisions, CountFault, TypeOK, StoreTypes, ForwarderTypes, ConnectionTypes, WatcherTypes, Owner, AnyDocument, Session, vars, storeVars, engineVars, forwarderVars, connectionVars, watcherVars, bounds
  <1>31. CASE Burst
    BY <1>31 DEF Burst, CountFault, TypeOK, StoreTypes, ForwarderTypes, ConnectionTypes, WatcherTypes, Owner, AnyDocument, Session, vars, storeVars, engineVars, forwarderVars, connectionVars, watcherVars, bounds
  <1>32. CASE Crash
    BY <1>32 DEF Crash, Disconnected, NoRevisions, Idle, CountFault, TypeOK, StoreTypes, ForwarderTypes, ConnectionTypes, WatcherTypes, Owner, AnyDocument, Session, vars, storeVars, engineVars, forwarderVars, connectionVars, watcherVars, bounds
  <1>33. CASE Start
    BY <1>33 DEF Start, NoRevisions, TypeOK, StoreTypes, ForwarderTypes, ConnectionTypes, WatcherTypes, Owner, AnyDocument, Session, vars, storeVars, engineVars, forwarderVars, connectionVars, watcherVars, bounds
  <1>34. CASE UNCHANGED vars
    BY <1>34 DEF TypeOK, StoreTypes, ForwarderTypes, ConnectionTypes, WatcherTypes, Owner, AnyDocument, Session, vars, storeVars, engineVars, forwarderVars, connectionVars, watcherVars, bounds
  <1>35. QED
    BY <1>1, <1>2, <1>3, <1>4, <1>5, <1>6, <1>7, <1>8, <1>9, <1>10, <1>11, <1>12, <1>13, <1>14, <1>15, <1>16, <1>17, <1>18, <1>19, <1>20, <1>21, <1>22, <1>23, <1>24, <1>25, <1>26, <1>27, <1>28, <1>29, <1>30, <1>31, <1>32, <1>33, <1>34, <1>29a
    DEF Next, Storing, Forwarding, Answering, Watching

\* Every step keeps Shape.
LEMMA ShapeStep ==
  ASSUME TypeOK, Shape, [Next]_vars
  PROVE  Shape'
  <1> USE ConstantsAssumption
  <1>1. ASSUME NEW d \in Document, Apply(d) PROVE Shape'
    BY <1>1 DEF Apply, CountChange, Shape, vars, storeVars, engineVars, forwarderVars, connectionVars, watcherVars, bounds
  <1>2. CASE Reset
    BY <1>2 DEF Reset, CountChange, Shape, vars, storeVars, engineVars, forwarderVars, connectionVars, watcherVars, bounds
  <1>3. CASE TouchDisk
    BY <1>3 DEF TouchDisk, Shape, vars, storeVars, engineVars, forwarderVars, connectionVars, watcherVars, bounds
  <1>4. CASE WriteFails
    BY <1>4 DEF WriteFails, Idle, CountFault, Shape, vars, storeVars, engineVars, forwarderVars, connectionVars, watcherVars, bounds
  <1>5. CASE Publish
    BY <1>5 DEF Publish, Idle, Shape, vars, storeVars, engineVars, forwarderVars, connectionVars, watcherVars, bounds
  <1>6. CASE EngineChanges
    BY <1>6 DEF EngineChanges, CountChange, Shape, vars, storeVars, engineVars, forwarderVars, connectionVars, watcherVars, bounds
  <1>7. CASE Forward
    BY <1>7 DEF Forward, Broadcast, Shape, vars, storeVars, engineVars, forwarderVars, connectionVars, watcherVars, bounds
  <1>8. CASE ForwardLag
    BY <1>8 DEF ForwardLag, Shape, vars, storeVars, engineVars, forwarderVars, connectionVars, watcherVars, bounds
  <1>9. CASE ForwardReread
    BY <1>9 DEF ForwardReread, Broadcast, Shape, vars, storeVars, engineVars, forwarderVars, connectionVars, watcherVars, bounds
  <1>10. CASE CountEngineChange
    BY <1>10 DEF CountEngineChange, Shape, vars, storeVars, engineVars, forwarderVars, connectionVars, watcherVars, bounds
  <1>11. CASE ForwardEngineChange
    BY <1>11 DEF ForwardEngineChange, Broadcast, Shape, vars, storeVars, engineVars, forwarderVars, connectionVars, watcherVars, bounds
  <1>12. CASE ForwardRefresh
    BY <1>12 DEF ForwardRefresh, Broadcast, Shape, vars, storeVars, engineVars, forwarderVars, connectionVars, watcherVars, bounds
  <1>13. CASE FanOut
    <2>1. UNCHANGED <<up, changes, changesLag, rereading, engineNews, engineLag, engineHeld, open,
                      eventsLag, answering, answer, subscribed, pc, stale>> /\ up /\ open
      BY <1>13 DEF FanOut, forwarderVars, engineVars, watcherVars
    <2>2. CASE wire' = wire
      BY <2>1, <2>2 DEF Shape
    <2>3. CASE wire' = Append(wire, Head(events)) /\ subscribed
      BY <2>1, <2>3 DEF Shape
    <2>4. QED BY <1>13, <2>2, <2>3 DEF FanOut
  <1>14. CASE FanOutLag
    <2>1. UNCHANGED <<up, changes, changesLag, rereading, engineNews, engineLag, engineHeld, open,
                      events, answering, answer, subscribed, pc, stale>> /\ up /\ open
          /\ wire' = Append(wire, Refresh)
      BY <1>14 DEF FanOutLag, forwarderVars, engineVars, watcherVars
    <2>2. Elements(wire') = Elements(wire) \cup {Refresh}
      BY <2>1, AppendOf, Kinds DEF TypeOK, ConnectionTypes
    <2>3. QED BY <2>1, <2>2 DEF Shape, Refresh
  <1>15. CASE AcceptSubscription
    BY <1>15 DEF AcceptSubscription, Shape, vars, storeVars, engineVars, forwarderVars, connectionVars, watcherVars, bounds
  <1>16. CASE SnapshotDesktop
    BY <1>16 DEF SnapshotDesktop, Shape, vars, storeVars, engineVars, forwarderVars, connectionVars, watcherVars, bounds
  <1>17. CASE SnapshotEngine
    BY <1>17 DEF SnapshotEngine, Shape, vars, storeVars, engineVars, forwarderVars, connectionVars, watcherVars, bounds
  <1>18. CASE SendSnapshot
    BY <1>18 DEF SendSnapshot, Room, Shape, vars, storeVars, engineVars, forwarderVars, connectionVars, watcherVars, bounds
  <1>19. CASE Dial
    BY <1>19 DEF Dial, Shape, vars, storeVars, engineVars, forwarderVars, connectionVars, watcherVars, bounds
  <1>20. CASE Subscribe
    BY <1>20 DEF Subscribe, Shape, vars, storeVars, engineVars, forwarderVars, connectionVars, watcherVars, bounds
  <1>21. CASE AwaitSnapshot
    <2>1. /\ UNCHANGED <<up, changes, changesLag, rereading, engineNews, engineLag, engineHeld, open,
                         events, eventsLag, answering, answer, subscribed>>
          /\ wire' = Tail(wire) /\ wire # <<>>
      BY <1>21 DEF AwaitSnapshot, forwarderVars, engineVars
    <2>2. Elements(wire) = {Head(wire)} \cup Elements(wire')
      BY <2>1, TailOf DEF TypeOK, ConnectionTypes
    <2>3. QED BY <1>21, <2>1, <2>2 DEF AwaitSnapshot, Shape
  <1>22. CASE ReadEngine
    BY <1>22 DEF ReadEngine, Shape, vars, storeVars, engineVars, forwarderVars, connectionVars, watcherVars, bounds
  <1>23. CASE ReadDesktop
    BY <1>23 DEF ReadDesktop, Shape, vars, storeVars, engineVars, forwarderVars, connectionVars, watcherVars, bounds
  <1>24. CASE Listen
    <2>1. /\ UNCHANGED <<up, changes, changesLag, rereading, engineNews, engineLag, engineHeld, open,
                         events, eventsLag, answering, answer, subscribed>>
          /\ wire' = Tail(wire) /\ wire # <<>>
      BY <1>24 DEF Listen, forwarderVars, engineVars
    <2>2. Elements(wire) = {Head(wire)} \cup Elements(wire')
      BY <2>1, TailOf DEF TypeOK, ConnectionTypes
    <2>3. QED BY <1>24, <2>1, <2>2 DEF Listen, Shape
  <1>25. CASE ReadAgain
    BY <1>25 DEF ReadAgain, Shape, vars, storeVars, engineVars, forwarderVars, connectionVars, watcherVars, bounds
  <1>26. CASE ReadFails
    BY <1>26 DEF ReadFails, CountFault, Shape, vars, storeVars, engineVars, forwarderVars, connectionVars, watcherVars, bounds
  <1>27. CASE EndSession
    <2>1. /\ open' = FALSE /\ events' = <<>> /\ eventsLag' = FALSE /\ subscribed' = FALSE
          /\ answering' = "none" /\ wire' = <<>>
          /\ answer' = NoRevisions
      BY <1>27 DEF EndSession, Disconnected
    <2>2. Elements(wire') = {}
      BY <2>1, EmptyQueue
    <2>3. QED BY <1>27, <2>1, <2>2 DEF EndSession, Shape, vars, storeVars, engineVars, forwarderVars, watcherVars
  <1>28. CASE Pause
    <2>1. /\ open' = FALSE /\ events' = <<>> /\ eventsLag' = FALSE /\ subscribed' = FALSE
          /\ answering' = "none" /\ wire' = <<>>
          /\ answer' = NoRevisions
      BY <1>28 DEF Pause, Disconnected
    <2>2. Elements(wire') = {}
      BY <2>1, EmptyQueue
    <2>3. QED BY <1>28, <2>1, <2>2 DEF Pause, Shape, vars, storeVars, engineVars, forwarderVars, watcherVars
  <1>29. CASE Resume
    BY <1>29 DEF Resume, Shape, vars, storeVars, engineVars, forwarderVars, connectionVars, watcherVars, bounds
  <1>29a. CASE ReconcileLan \/ LanReconciled
    BY <1>29a DEF ReconcileLan, LanReconciled, CountFault, Shape, vars, storeVars, engineVars, forwarderVars, connectionVars, watcherVars, bounds
  <1>30. CASE Drop
    <2>1. /\ open' = FALSE /\ events' = <<>> /\ eventsLag' = FALSE /\ subscribed' = FALSE
          /\ answering' = "none" /\ wire' = <<>>
          /\ answer' = NoRevisions
      BY <1>30 DEF Drop, Disconnected
    <2>2. Elements(wire') = {}
      BY <2>1, EmptyQueue
    <2>3. QED BY <1>30, <2>1, <2>2 DEF Drop, Shape, vars, storeVars, engineVars, forwarderVars, watcherVars
  <1>31. CASE Burst
    BY <1>31 DEF Burst, CountFault, Shape, vars, storeVars, engineVars, forwarderVars, connectionVars, watcherVars, bounds
  <1>32. CASE Crash
    <2>1. /\ open' = FALSE /\ events' = <<>> /\ eventsLag' = FALSE /\ subscribed' = FALSE
          /\ answering' = "none" /\ wire' = <<>>
          /\ answer' = NoRevisions
      BY <1>32 DEF Crash, Disconnected
    <2>2. Elements(wire') = {}
      BY <2>1, EmptyQueue
    <2>3. QED BY <1>32, <2>1, <2>2 DEF Crash, Shape, vars, storeVars, engineVars, forwarderVars, watcherVars
  <1>33. CASE Start
    BY <1>33 DEF Start, NoRevisions, Shape, vars, storeVars, engineVars, forwarderVars, connectionVars, watcherVars, bounds
  <1>34. CASE UNCHANGED vars
    BY <1>34 DEF Shape, vars, storeVars, engineVars, forwarderVars, connectionVars, watcherVars, bounds
  <1>35. QED
    BY <1>1, <1>2, <1>3, <1>4, <1>5, <1>6, <1>7, <1>8, <1>9, <1>10, <1>11, <1>12, <1>13, <1>14, <1>15, <1>16, <1>17, <1>18, <1>19, <1>20, <1>21, <1>22, <1>23, <1>24, <1>25, <1>26, <1>27, <1>28, <1>29, <1>30, <1>31, <1>32, <1>33, <1>34, <1>29a
    DEF Next, Storing, Forwarding, Answering, Watching

\* Every step keeps NumbersAreOld.
LEMMA NumbersAreOldStep ==
  ASSUME TypeOK, Shape, NumbersAreOld, [Next]_vars
  PROVE  NumbersAreOld'
  <1> USE ConstantsAssumption
  <1>1. ASSUME NEW d \in Document, Apply(d) PROVE NumbersAreOld'
    BY <1>1 DEF Apply, CountChange, NumbersAreOld, vars, storeVars, engineVars, forwarderVars, connectionVars, watcherVars, bounds
  <1>2. CASE Reset
    BY <1>2 DEF Reset, CountChange, NumbersAreOld, vars, storeVars, engineVars, forwarderVars, connectionVars, watcherVars, bounds
  <1>3. CASE TouchDisk
    BY <1>3 DEF TouchDisk, NumbersAreOld, vars, storeVars, engineVars, forwarderVars, connectionVars, watcherVars, bounds
  <1>4. CASE WriteFails
    BY <1>4 DEF WriteFails, Idle, CountFault, NumbersAreOld, vars, storeVars, engineVars, forwarderVars, connectionVars, watcherVars, bounds
  <1>5. CASE Publish
    <2> DEFINE r == revision["desktop"] + 1
    <2>1. /\ UNCHANGED <<answer, baseline, open, pc, wire, events, engineHeld>>
          /\ revision' = [revision EXCEPT !["desktop"] = r]
      BY <1>5 DEF Publish, connectionVars, watcherVars
    <2>2. /\ r \in Nat /\ revision'["desktop"] = r /\ revision'["engine"] = revision["engine"]
          /\ \A o \in Owner : revision[o] <= revision'[o] /\ revision[o] \in Nat /\ revision'[o] \in Nat
      BY <2>1 DEF TypeOK, StoreTypes, Owner
    <2>3. Elements(changes') \subseteq Elements(changes) \cup {r}
      <3>1. CASE changes' = Append(changes, r)
        BY <2>2, <3>1, AppendOf DEF TypeOK, ForwarderTypes
      <3>2. CASE changes' = Append(Tail(changes), r) /\ changes # <<>>
        BY <2>2, <3>2, ShiftOf DEF TypeOK, ForwarderTypes
      <3>3. ~(Len(changes) < ChangeCapacity) => changes # <<>>
        BY ConstantsAssumption DEF TypeOK, ForwarderTypes
      <3>4. QED BY <1>5, <2>2, <3>1, <3>2, <3>3 DEF Publish
    <2> HIDE DEF r
    <2>4. \A n \in Elements(changes) : n \in Nat
      BY DEF Elements, TypeOK, ForwarderTypes
    <2>5. \A n \in Elements(changes') : n <= revision'["desktop"]
      BY <2>2, <2>3, <2>4 DEF NumbersAreOld, Owner
    <2>6. \A m \in Elements(events) \cup Elements(wire) : m \in Message
      BY Kinds DEF Elements, TypeOK, ConnectionTypes
    <2>7. \A m \in Elements(events) \cup Elements(wire) :
             m.type = "changed" => m.revision <= revision'[m.owner]
      BY <2>2, <2>6, Kinds DEF NumbersAreOld
    <2>8. \A m \in Elements(wire) :
             m.type = "snapshot" => \A o \in Owner : m.revisions[o] <= revision'[o]
      BY <2>2, <2>6, Kinds DEF NumbersAreOld
    <2>9. \A o \in Owner : answer[o] \in Nat /\ baseline[o] \in Nat
      BY DEF TypeOK, ConnectionTypes, WatcherTypes
    <2>10. engineHeld <= revision'["engine"]
      BY <2>2 DEF NumbersAreOld
    <2>11. QED BY <2>1, <2>2, <2>5, <2>7, <2>8, <2>9, <2>10 DEF NumbersAreOld
  <1>6. CASE EngineChanges
    BY <1>6 DEF EngineChanges, CountChange, NumbersAreOld, vars, storeVars, engineVars, forwarderVars, connectionVars, watcherVars, bounds
  <1>7. CASE Forward
    <2> DEFINE e == Changed("desktop", Head(changes))
    <2>1. /\ UNCHANGED <<revision, answer, baseline, open, pc, wire>> /\ Broadcast(e)
          /\ engineHeld' = engineHeld
      BY <1>7 DEF Forward, storeVars, watcherVars, forwarderVars
    <2>2. Head(changes) \in Elements(changes) /\ Elements(changes') \subseteq Elements(changes)
      BY <1>7, TailOf DEF Forward, TypeOK, ForwarderTypes, forwarderVars
    <2>3. e \in Event
      BY <1>7, Kinds, TailOf DEF Forward, Owner, StoreTypes, ForwarderTypes, TypeOK
    <2>4. e.type = "changed" => e.revision <= revision[e.owner]
      BY <1>7, <2>2, Kinds DEF Forward, Changed, Refresh, NumbersAreOld, TypeOK, StoreTypes, Owner
    <2>5. Elements(events') \subseteq Elements(events) \cup {e}
      BY <2>1, <2>3, BroadcastOf DEF TypeOK
    <2> HIDE DEF e
    <2>6. \A m \in Elements(events') : m.type = "changed" => m.revision <= revision[m.owner]
      BY <2>4, <2>5 DEF NumbersAreOld
    <2>7. QED BY <2>1, <2>2, <2>6, ConstantsAssumption DEF NumbersAreOld, TypeOK, StoreTypes, Owner
  <1>8. CASE ForwardLag
    BY <1>8 DEF ForwardLag, NumbersAreOld, vars, storeVars, engineVars, forwarderVars, connectionVars, watcherVars, bounds
  <1>9. CASE ForwardReread
    <2> DEFINE e == Changed("desktop", revision["desktop"])
    <2>1. /\ UNCHANGED <<revision, answer, baseline, open, pc, wire>> /\ Broadcast(e)
          /\ engineHeld' = engineHeld
      BY <1>9 DEF ForwardReread, storeVars, watcherVars, forwarderVars
    <2>2. changes' = changes
      BY <1>9 DEF ForwardReread, TypeOK, ForwarderTypes, forwarderVars
    <2>3. e \in Event
      BY <1>9, Kinds, TailOf DEF ForwardReread, Owner, StoreTypes, ForwarderTypes, TypeOK
    <2>4. e.type = "changed" => e.revision <= revision[e.owner]
      BY <1>9, <2>2, Kinds DEF ForwardReread, Changed, Refresh, NumbersAreOld, TypeOK, StoreTypes, Owner
    <2>5. Elements(events') \subseteq Elements(events) \cup {e}
      BY <2>1, <2>3, BroadcastOf DEF TypeOK
    <2> HIDE DEF e
    <2>6. \A m \in Elements(events') : m.type = "changed" => m.revision <= revision[m.owner]
      BY <2>4, <2>5 DEF NumbersAreOld
    <2>7. QED BY <2>1, <2>2, <2>6, ConstantsAssumption DEF NumbersAreOld, TypeOK, StoreTypes, Owner
  <1>10. CASE CountEngineChange
    <2> DEFINE r == revision["engine"] + 1
    <2>1. /\ UNCHANGED <<answer, baseline, open, pc, wire, events, changes>>
          /\ revision' = [revision EXCEPT !["engine"] = r] /\ engineHeld' = revision'["engine"]
      BY <1>10 DEF CountEngineChange, connectionVars, watcherVars
    <2>2. /\ r \in Nat /\ revision'["engine"] = r /\ revision'["desktop"] = revision["desktop"]
          /\ \A o \in Owner : revision[o] <= revision'[o] /\ revision[o] \in Nat /\ revision'[o] \in Nat
      BY <2>1 DEF TypeOK, StoreTypes, Owner
    <2> HIDE DEF r
    <2>3. \A m \in Elements(events) \cup Elements(wire) : m \in Message
      BY Kinds DEF Elements, TypeOK, ConnectionTypes
    <2>4. \A m \in Elements(events) \cup Elements(wire) :
             m.type = "changed" => m.revision <= revision'[m.owner]
      BY <2>2, <2>3, Kinds DEF NumbersAreOld
    <2>5. \A m \in Elements(wire) :
             m.type = "snapshot" => \A o \in Owner : m.revisions[o] <= revision'[o]
      BY <2>2, <2>3, Kinds DEF NumbersAreOld
    <2>6. \A o \in Owner : answer[o] \in Nat /\ baseline[o] \in Nat
      BY DEF TypeOK, ConnectionTypes, WatcherTypes
    <2>7. engineHeld' <= revision'["engine"]
      BY <2>1, <2>2 DEF Owner
    <2>8. QED BY <2>1, <2>2, <2>4, <2>5, <2>6, <2>7 DEF NumbersAreOld
  <1>11. CASE ForwardEngineChange
    <2> DEFINE e == Changed("engine", engineHeld)
    <2>1. /\ UNCHANGED <<revision, answer, baseline, open, pc, wire>> /\ Broadcast(e)
          /\ engineHeld' = 0
      BY <1>11 DEF ForwardEngineChange, storeVars, watcherVars, forwarderVars
    <2>2. changes' = changes /\ engineHeld' = 0
      BY <1>11 DEF ForwardEngineChange, TypeOK, ForwarderTypes, forwarderVars
    <2>3. e \in Event
      BY <1>11, Kinds, TailOf DEF ForwardEngineChange, Owner, StoreTypes, ForwarderTypes, TypeOK
    <2>4. e.type = "changed" => e.revision <= revision[e.owner]
      BY <1>11, <2>2, Kinds DEF ForwardEngineChange, Changed, Refresh, NumbersAreOld, TypeOK, StoreTypes, Owner
    <2>5. Elements(events') \subseteq Elements(events) \cup {e}
      BY <2>1, <2>3, BroadcastOf DEF TypeOK
    <2> HIDE DEF e
    <2>6. \A m \in Elements(events') : m.type = "changed" => m.revision <= revision[m.owner]
      BY <2>4, <2>5 DEF NumbersAreOld
    <2>7. QED BY <2>1, <2>2, <2>6, ConstantsAssumption DEF NumbersAreOld, TypeOK, StoreTypes, Owner
  <1>12. CASE ForwardRefresh
    <2> DEFINE e == Refresh
    <2>1. /\ UNCHANGED <<revision, answer, baseline, open, pc, wire>> /\ Broadcast(e)
          /\ engineHeld' = engineHeld
      BY <1>12 DEF ForwardRefresh, storeVars, watcherVars, forwarderVars
    <2>2. changes' = changes
      BY <1>12 DEF ForwardRefresh, TypeOK, ForwarderTypes, forwarderVars
    <2>3. e \in Event
      BY <1>12, Kinds, TailOf DEF ForwardRefresh, Owner, StoreTypes, ForwarderTypes, TypeOK
    <2>4. e.type = "changed" => e.revision <= revision[e.owner]
      BY <1>12, <2>2, Kinds DEF ForwardRefresh, Changed, Refresh, NumbersAreOld, TypeOK, StoreTypes, Owner
    <2>5. Elements(events') \subseteq Elements(events) \cup {e}
      BY <2>1, <2>3, BroadcastOf DEF TypeOK
    <2> HIDE DEF e
    <2>6. \A m \in Elements(events') : m.type = "changed" => m.revision <= revision[m.owner]
      BY <2>4, <2>5 DEF NumbersAreOld
    <2>7. QED BY <2>1, <2>2, <2>6, ConstantsAssumption DEF NumbersAreOld, TypeOK, StoreTypes, Owner
  <1>13. CASE FanOut
    <2>1. UNCHANGED <<revision, changes, engineHeld, answer, baseline, open, pc>>
          /\ events' = Tail(events) /\ events # <<>>
      BY <1>13 DEF FanOut, forwarderVars, watcherVars
    <2>2. Elements(events) = {Head(events)} \cup Elements(events') /\ Head(events) \in Event
      BY <2>1, TailOf DEF TypeOK, ConnectionTypes
    <2>3. Elements(wire') \subseteq Elements(wire) \cup {Head(events)}
      <3>1. CASE wire' = wire BY <3>1
      <3>2. CASE wire' = Append(wire, Head(events))
        BY <2>2, <3>2, AppendOf, Kinds DEF TypeOK, ConnectionTypes
      <3>3. QED BY <1>13, <3>1, <3>2 DEF FanOut
    <2>4. Head(events).type # "snapshot"
      BY <2>2, Kinds DEF Refresh
    <2>5. QED BY <2>1, <2>2, <2>3, <2>4 DEF NumbersAreOld
  <1>14. CASE FanOutLag
    <2>1. UNCHANGED <<revision, changes, engineHeld, answer, baseline, open, pc, events>>
          /\ wire' = Append(wire, Refresh)
      BY <1>14 DEF FanOutLag, forwarderVars, watcherVars
    <2>2. Elements(wire') = Elements(wire) \cup {Refresh}
      BY <2>1, AppendOf, Kinds DEF TypeOK, ConnectionTypes
    <2>3. Refresh.type # "snapshot" /\ Refresh.type # "changed"
      BY DEF Refresh
    <2>4. QED BY <2>1, <2>2, <2>3 DEF NumbersAreOld
  <1>15. CASE AcceptSubscription
    BY <1>15 DEF AcceptSubscription, NumbersAreOld, vars, storeVars, engineVars, forwarderVars, connectionVars, watcherVars, bounds
  <1>16. CASE SnapshotDesktop
    <2>1. UNCHANGED <<revision, changes, engineHeld, baseline, open, pc, events, wire>>
          /\ answer' = [answer EXCEPT !["desktop"] = revision["desktop"]]
      BY <1>16 DEF SnapshotDesktop, forwarderVars, watcherVars
    <2>2. \A o \in Owner : answer'[o] <= revision[o]
      BY <2>1 DEF NumbersAreOld, TypeOK, ConnectionTypes, StoreTypes, Owner
    <2>3. QED BY <2>1, <2>2 DEF NumbersAreOld
  <1>17. CASE SnapshotEngine
    <2>1. UNCHANGED <<revision, changes, engineHeld, baseline, open, pc, events, wire>>
          /\ answer' = [answer EXCEPT !["engine"] = revision["engine"]]
      BY <1>17 DEF SnapshotEngine, forwarderVars, watcherVars
    <2>2. \A o \in Owner : answer'[o] <= revision[o]
      BY <2>1 DEF NumbersAreOld, TypeOK, ConnectionTypes, StoreTypes, Owner
    <2>3. QED BY <2>1, <2>2 DEF NumbersAreOld
  <1>18. CASE SendSnapshot
    <2>1. UNCHANGED <<revision, changes, engineHeld, answer, baseline, open, pc, events>>
          /\ wire' = Append(wire, Snapshot(answer))
      BY <1>18 DEF SendSnapshot, forwarderVars, watcherVars
    <2>2. Elements(wire') = Elements(wire) \cup {Snapshot(answer)}
      BY <2>1, AppendOf, Kinds DEF TypeOK, ConnectionTypes
    <2>3. Snapshot(answer).type = "snapshot" /\ Snapshot(answer).revisions = answer
      BY DEF Snapshot
    <2>4. QED BY <2>1, <2>2, <2>3 DEF NumbersAreOld
  <1>19. CASE Dial
    BY <1>19 DEF Dial, NumbersAreOld, vars, storeVars, engineVars, forwarderVars, connectionVars, watcherVars, bounds
  <1>20. CASE Subscribe
    BY <1>20 DEF Subscribe, NumbersAreOld, vars, storeVars, engineVars, forwarderVars, connectionVars, watcherVars, bounds
  <1>21. CASE AwaitSnapshot
    <2>1. UNCHANGED <<revision, changes, engineHeld, answer, open, events>>
          /\ wire' = Tail(wire) /\ wire # <<>> /\ pc = "waiting"
      BY <1>21 DEF AwaitSnapshot, forwarderVars
    <2>2. Elements(wire) = {Head(wire)} \cup Elements(wire')
      BY <2>1, TailOf DEF TypeOK, ConnectionTypes
    <2>3. \/ pc' = "waiting"
          \/ Head(wire).type = "snapshot" /\ baseline' = Head(wire).revisions
      BY <1>21 DEF AwaitSnapshot
    <2>4. QED BY <2>1, <2>2, <2>3 DEF NumbersAreOld
  <1>22. CASE ReadEngine
    BY <1>22 DEF ReadEngine, NumbersAreOld, vars, storeVars, engineVars, forwarderVars, connectionVars, watcherVars, bounds
  <1>23. CASE ReadDesktop
    BY <1>23 DEF ReadDesktop, NumbersAreOld, vars, storeVars, engineVars, forwarderVars, connectionVars, watcherVars, bounds
  <1>24. CASE Listen
    <2>1. UNCHANGED <<revision, changes, engineHeld, answer, open, events, pc>>
          /\ wire' = Tail(wire) /\ wire # <<>> /\ pc = "listening"
      BY <1>24 DEF Listen, forwarderVars
    <2>2. Elements(wire) = {Head(wire)} \cup Elements(wire') /\ Head(wire) \in Message
      BY <2>1, TailOf DEF TypeOK, ConnectionTypes
    <2>3. \/ baseline' = baseline
          \/ /\ Head(wire).type = "changed"
             /\ baseline' = [baseline EXCEPT ![Head(wire).owner] = Head(wire).revision]
      BY <1>24 DEF Listen
    <2>4. open => \A o \in Owner : baseline'[o] <= revision[o]
      <3>1. CASE baseline' = baseline
        BY <2>1, <3>1 DEF NumbersAreOld
      <3>2. CASE /\ Head(wire).type = "changed"
                 /\ baseline' = [baseline EXCEPT ![Head(wire).owner] = Head(wire).revision]
        <4>1. Head(wire).revision <= revision[Head(wire).owner] /\ Head(wire).owner \in Owner
          BY <2>2, <3>2, Kinds DEF NumbersAreOld, Refresh
        <4>2. \A o \in Owner : baseline'[o] = IF o = Head(wire).owner THEN Head(wire).revision ELSE baseline[o]
          BY <3>2, <4>1 DEF TypeOK, WatcherTypes
        <4>3. QED BY <2>1, <4>1, <4>2 DEF NumbersAreOld
      <3>3. QED BY <2>3, <3>1, <3>2
    <2>5. QED BY <2>1, <2>2, <2>4 DEF NumbersAreOld
  <1>25. CASE ReadAgain
    BY <1>25 DEF ReadAgain, NumbersAreOld, vars, storeVars, engineVars, forwarderVars, connectionVars, watcherVars, bounds
  <1>26. CASE ReadFails
    BY <1>26 DEF ReadFails, CountFault, NumbersAreOld, vars, storeVars, engineVars, forwarderVars, connectionVars, watcherVars, bounds
  <1>27. CASE EndSession
    <2>1. /\ open' = FALSE /\ events' = <<>> /\ wire' = <<>> /\ answer' = NoRevisions
          /\ changes' = changes /\ engineHeld' = engineHeld /\ revision' = revision
      BY <1>27 DEF EndSession, Disconnected, forwarderVars
    <2>2. Elements(<<>>) = {}
      BY EmptyQueue
    <2>3. \A o \in Owner : NoRevisions[o] <= revision[o] /\ revision[o] \in Nat
      BY DEF NoRevisions, TypeOK, StoreTypes
    <2>4. QED BY <2>1, <2>2, <2>3 DEF NumbersAreOld, Owner
  <1>28. CASE Pause
    <2>1. /\ open' = FALSE /\ events' = <<>> /\ wire' = <<>> /\ answer' = NoRevisions
          /\ changes' = changes /\ engineHeld' = engineHeld /\ revision' = revision
      BY <1>28 DEF Pause, Disconnected, forwarderVars
    <2>2. Elements(<<>>) = {}
      BY EmptyQueue
    <2>3. \A o \in Owner : NoRevisions[o] <= revision[o] /\ revision[o] \in Nat
      BY DEF NoRevisions, TypeOK, StoreTypes
    <2>4. QED BY <2>1, <2>2, <2>3 DEF NumbersAreOld, Owner
  <1>29. CASE Resume
    BY <1>29 DEF Resume, NumbersAreOld, vars, storeVars, engineVars, forwarderVars, connectionVars, watcherVars, bounds
  <1>29a. CASE ReconcileLan \/ LanReconciled
    BY <1>29a DEF ReconcileLan, LanReconciled, CountFault, NumbersAreOld, vars, storeVars, engineVars, forwarderVars, connectionVars, watcherVars, bounds
  <1>30. CASE Drop
    <2>1. /\ open' = FALSE /\ events' = <<>> /\ wire' = <<>> /\ answer' = NoRevisions
          /\ changes' = changes /\ engineHeld' = engineHeld /\ revision' = revision
      BY <1>30 DEF Drop, Disconnected, forwarderVars
    <2>2. Elements(<<>>) = {}
      BY EmptyQueue
    <2>3. \A o \in Owner : NoRevisions[o] <= revision[o] /\ revision[o] \in Nat
      BY DEF NoRevisions, TypeOK, StoreTypes
    <2>4. QED BY <2>1, <2>2, <2>3 DEF NumbersAreOld, Owner
  <1>31. CASE Burst
    <2>1. UNCHANGED <<revision, changes, engineHeld, answer, baseline, open, pc, wire>>
      BY <1>31 DEF Burst, forwarderVars, watcherVars
    <2>2. Elements(events') \subseteq Elements(events)
      BY <1>31, EmptyQueue DEF Burst
    <2>3. QED BY <2>1, <2>2 DEF NumbersAreOld
  <1>32. CASE Crash
    <2>1. /\ open' = FALSE /\ events' = <<>> /\ wire' = <<>> /\ answer' = NoRevisions
          /\ changes' = <<>> /\ engineHeld' = 0 /\ revision' = revision
      BY <1>32 DEF Crash, Disconnected, forwarderVars
    <2>2. Elements(<<>>) = {}
      BY EmptyQueue
    <2>3. \A o \in Owner : NoRevisions[o] <= revision[o] /\ revision[o] \in Nat
      BY DEF NoRevisions, TypeOK, StoreTypes
    <2>4. QED BY <2>1, <2>2, <2>3 DEF NumbersAreOld, Owner
  <1>33. CASE Start
    <2>1. /\ revision' = NoRevisions /\ UNCHANGED <<changes, engineHeld, answer, open, events, wire>>
          /\ ~up
      BY <1>33 DEF Start, forwarderVars, connectionVars
    <2>2. /\ ~open /\ changes = <<>> /\ engineHeld = 0 /\ events = <<>> /\ wire = <<>>
          /\ answer = NoRevisions
      BY <2>1 DEF Shape
    <2>3. Elements(<<>>) = {} /\ \A o \in Owner : NoRevisions[o] = 0
      BY EmptyQueue DEF NoRevisions
    <2>4. QED BY <2>1, <2>2, <2>3 DEF NumbersAreOld, Owner
  <1>34. CASE UNCHANGED vars
    BY <1>34 DEF NumbersAreOld, vars, storeVars, engineVars, forwarderVars, connectionVars, watcherVars, bounds
  <1>35. QED
    BY <1>1, <1>2, <1>3, <1>4, <1>5, <1>6, <1>7, <1>8, <1>9, <1>10, <1>11, <1>12, <1>13, <1>14, <1>15, <1>16, <1>17, <1>18, <1>19, <1>20, <1>21, <1>22, <1>23, <1>24, <1>25, <1>26, <1>27, <1>28, <1>29, <1>30, <1>31, <1>32, <1>33, <1>34, <1>29a
    DEF Next, Storing, Forwarding, Answering, Watching

\* Every step keeps the word of a difference on its way.
LEMMA WordStep ==
  ASSUME FeedInv, [Next]_vars
  PROVE  WordIsOnItsWay'
  <1> USE ConstantsAssumption
  <1>1. ASSUME NEW d \in Document, Apply(d) PROVE WordIsOnItsWay'
    BY <1>1 DEF Apply, CountChange, FeedInv, TypeOK, WordIsOnItsWay, Behind, Stored, Unnumbered, Numbered, vars, storeVars, engineVars, forwarderVars, connectionVars, watcherVars, bounds
  <1>2. CASE Reset
    BY <1>2 DEF Reset, CountChange, FeedInv, TypeOK, WordIsOnItsWay, Behind, Stored, Unnumbered, Numbered, vars, storeVars, engineVars, forwarderVars, connectionVars, watcherVars, bounds
  <1>3. CASE TouchDisk
    BY <1>3 DEF TouchDisk, FeedInv, TypeOK, WordIsOnItsWay, Behind, Stored, Unnumbered, Numbered, vars, storeVars, engineVars, forwarderVars, connectionVars, watcherVars, bounds
  <1>4. CASE WriteFails
    BY <1>4 DEF WriteFails, Idle, CountFault, FeedInv, TypeOK, WordIsOnItsWay, Behind, Stored, Unnumbered, Numbered, vars, storeVars, engineVars, forwarderVars, connectionVars, watcherVars, bounds
  <1>5. CASE Publish
    <2> USE DEF FeedInv
    <2>1. SUFFICES ASSUME NEW o \in Owner, Behind(o)'
                   PROVE  Unnumbered(o)' \/ Numbered(o)'
      BY DEF WordIsOnItsWay
    <2> DEFINE r == revision["desktop"] + 1
    <2>2. /\ UNCHANGED <<open, pc, stale, applied, engineDoc, held, eventsLag, events, wire, engineLag,
                         engineNews, baseline, rereading, engineHeld>>
          /\ revision' = [revision EXCEPT !["desktop"] = r]
      BY <1>5 DEF Publish, engineVars, connectionVars, watcherVars
    <2>3. r \in Nat /\ revision'["desktop"] = r /\ revision'["engine"] = revision["engine"]
      BY <2>2 DEF TypeOK, StoreTypes, Owner
    <2>4. CASE o = "desktop"
      <3>1. r \in Elements(changes')
        <4>1. CASE changes' = Append(changes, r)
          BY <2>3, <4>1, AppendOf DEF TypeOK, ForwarderTypes
        <4>2. CASE changes' = Append(Tail(changes), r) /\ changes # <<>>
          BY <2>3, <4>2, ShiftOf DEF TypeOK, ForwarderTypes
        <4>3. ~(Len(changes) < ChangeCapacity) => changes # <<>>
          BY DEF TypeOK, ForwarderTypes
        <4>4. QED BY <1>5, <2>3, <4>1, <4>2, <4>3 DEF Publish
      <3>2. open /\ pc = "listening"
        BY <2>1, <2>2, <2>4 DEF Behind
      <3>3. baseline["desktop"] <= revision["desktop"] /\ baseline["desktop"] \in Nat
            /\ revision["desktop"] \in Nat
        BY <3>2 DEF NumbersAreOld, TypeOK, StoreTypes, WatcherTypes, Owner
      <3>4. QED BY <2>2, <2>3, <2>4, <3>1, <3>3 DEF Numbered
    <2>5. CASE o = "engine"
      <3>1. Behind(o)
        BY <2>1, <2>2, <2>5 DEF Behind, Stored
      <3>2. Unnumbered(o) \/ Numbered(o)
        BY <3>1 DEF WordIsOnItsWay
      <3>3. QED BY <2>2, <2>3, <2>5, <3>2 DEF Unnumbered, Numbered
    <2>6. QED BY <2>4, <2>5 DEF Owner
  <1>6. CASE EngineChanges
    <2> USE DEF FeedInv
    <2>1. SUFFICES ASSUME NEW o \in Owner, Behind(o)'
                   PROVE  Unnumbered(o)' \/ Numbered(o)'
      BY DEF WordIsOnItsWay
    <2>2. /\ UNCHANGED <<open, pc, stale, applied, raw, held, eventsLag, events, wire, baseline,
                         revision, changesLag, rereading, changes, engineHeld>>
      BY <1>6 DEF EngineChanges, storeVars, forwarderVars, connectionVars, watcherVars
    <2>3. CASE o = "desktop"
      <3>1. Behind(o)
        BY <2>1, <2>2, <2>3 DEF Behind, Stored
      <3>2. Unnumbered(o) \/ Numbered(o)
        BY <3>1 DEF WordIsOnItsWay
      <3>3. QED BY <2>2, <2>3, <3>2 DEF Unnumbered, Numbered
    <2>4. CASE o = "engine"
      <3>1. engineNews' > 0 \/ engineLag'
        BY <1>6 DEF EngineChanges, TypeOK, ForwarderTypes
      <3>2. QED BY <2>4, <3>1 DEF Unnumbered
    <2>5. QED BY <2>3, <2>4 DEF Owner
  <1>7. CASE Forward
    <2> USE DEF FeedInv
    <2>1. SUFFICES ASSUME NEW o \in Owner, Behind(o)'
                   PROVE  Unnumbered(o)' \/ Numbered(o)'
      BY DEF WordIsOnItsWay
    <2> DEFINE e == Changed("desktop", Head(changes))
    <2>2. /\ UNCHANGED <<open, pc, stale, applied, raw, engineDoc, held, wire, baseline, revision,
                         engineNews, engineLag, engineHeld, changesLag, rereading>>
          /\ Broadcast(e)
      BY <1>7 DEF Forward, storeVars, engineVars, forwarderVars, watcherVars
    <2>3. e \in Event
      BY <1>7, Kinds, TailOf DEF Forward, Owner, StoreTypes, ForwarderTypes, TypeOK
    <2>4. Behind(o) /\ open
      BY <2>1, <2>2 DEF Behind, Stored
    <2>5. Unnumbered(o) \/ Numbered(o)
      BY <2>4 DEF WordIsOnItsWay
    <2>6. e \in Elements(events') /\ (eventsLag' \/ Elements(events) \subseteq Elements(events'))
          /\ (eventsLag => eventsLag')
      BY <2>2, <2>3, <2>4, BroadcastOf DEF TypeOK
    <2>7. Elements(changes) = {Head(changes)} \cup Elements(changes')
      BY <1>7, TailOf DEF Forward, TypeOK, ForwarderTypes
    <2>8. CASE eventsLag'
      BY <2>8 DEF Unnumbered
    <2>9. CASE ~eventsLag'
      BY <1>7, <2>2, <2>5, <2>6, <2>7, <2>9 DEF Forward, Unnumbered, Numbered
    <2>10. QED BY <2>8, <2>9
  <1>8. CASE ForwardLag
    <2> USE DEF FeedInv
    <2>1. SUFFICES ASSUME NEW o \in Owner, Behind(o)'
                   PROVE  Unnumbered(o)' \/ Numbered(o)'
      BY DEF WordIsOnItsWay
    <2>2. /\ UNCHANGED <<open, pc, stale, applied, raw, engineDoc, held, wire, baseline, revision,
                         events, eventsLag, engineNews, engineLag, engineHeld, changes>> /\ rereading'
      BY <1>8 DEF ForwardLag, storeVars, engineVars, connectionVars, watcherVars
    <2>3. QED BY <2>1, <2>2 DEF Behind, Stored, WordIsOnItsWay, Unnumbered, Numbered
  <1>9. CASE ForwardReread
    <2> USE DEF FeedInv
    <2>1. SUFFICES ASSUME NEW o \in Owner, Behind(o)'
                   PROVE  Unnumbered(o)' \/ Numbered(o)'
      BY DEF WordIsOnItsWay
    <2> DEFINE e == Changed("desktop", revision["desktop"])
    <2>2. /\ UNCHANGED <<open, pc, stale, applied, raw, engineDoc, held, wire, baseline, revision,
                         engineNews, engineLag, engineHeld, changes, changesLag>>
          /\ Broadcast(e)
      BY <1>9 DEF ForwardReread, storeVars, engineVars, forwarderVars, watcherVars
    <2>3. e \in Event
      BY <1>9, Kinds, TailOf DEF ForwardReread, Owner, StoreTypes, ForwarderTypes, TypeOK
    <2>4. Behind(o) /\ open
      BY <2>1, <2>2 DEF Behind, Stored
    <2>5. Unnumbered(o) \/ Numbered(o)
      BY <2>4 DEF WordIsOnItsWay
    <2>6. e \in Elements(events') /\ (eventsLag' \/ Elements(events) \subseteq Elements(events'))
          /\ (eventsLag => eventsLag')
      BY <2>2, <2>3, <2>4, BroadcastOf DEF TypeOK
    <2>8. CASE eventsLag'
      BY <2>8 DEF Unnumbered
    <2>9. CASE ~eventsLag'
      BY <1>9, <2>2, <2>5, <2>6, <2>9 DEF ForwardReread, Unnumbered, Numbered
    <2>10. QED BY <2>8, <2>9
  <1>10. CASE CountEngineChange
    <2> USE DEF FeedInv
    <2>1. SUFFICES ASSUME NEW o \in Owner, Behind(o)'
                   PROVE  Unnumbered(o)' \/ Numbered(o)'
      BY DEF WordIsOnItsWay
    <2> DEFINE r == revision["engine"] + 1
    <2>2. /\ UNCHANGED <<open, pc, stale, applied, raw, engineDoc, held, eventsLag, events, wire,
                         baseline, changesLag, rereading, changes>>
          /\ revision' = [revision EXCEPT !["engine"] = r] /\ engineHeld' = revision'["engine"]
      BY <1>10 DEF CountEngineChange, storeVars, connectionVars, watcherVars
    <2>3. r \in Nat /\ revision'["engine"] = r /\ revision'["desktop"] = revision["desktop"]
      BY <2>2 DEF TypeOK, StoreTypes, Owner
    <2>4. Behind(o)
      BY <2>1, <2>2 DEF Behind, Stored
    <2>5. CASE o = "desktop"
      <3>1. Unnumbered(o) \/ Numbered(o)
        BY <2>4 DEF WordIsOnItsWay
      <3>2. QED BY <2>2, <2>3, <2>5, <3>1 DEF Unnumbered, Numbered
    <2>6. CASE o = "engine"
      <3>1. baseline["engine"] <= revision["engine"] /\ baseline["engine"] \in Nat
            /\ revision["engine"] \in Nat
        BY <2>4 DEF Behind, NumbersAreOld, TypeOK, StoreTypes, WatcherTypes, Owner
      <3>2. QED BY <2>2, <2>3, <2>6, <3>1 DEF Numbered
    <2>7. QED BY <2>5, <2>6 DEF Owner
  <1>11. CASE ForwardEngineChange
    <2> USE DEF FeedInv
    <2>1. SUFFICES ASSUME NEW o \in Owner, Behind(o)'
                   PROVE  Unnumbered(o)' \/ Numbered(o)'
      BY DEF WordIsOnItsWay
    <2> DEFINE e == Changed("engine", engineHeld)
    <2>2. /\ UNCHANGED <<open, pc, stale, applied, raw, engineDoc, held, wire, baseline, revision,
                         engineNews, engineLag, changes, changesLag, rereading>>
          /\ Broadcast(e)
      BY <1>11 DEF ForwardEngineChange, storeVars, engineVars, forwarderVars, watcherVars
    <2>3. e \in Event
      BY <1>11, Kinds, TailOf DEF ForwardEngineChange, Owner, StoreTypes, ForwarderTypes, TypeOK
    <2>4. Behind(o) /\ open
      BY <2>1, <2>2 DEF Behind, Stored
    <2>5. Unnumbered(o) \/ Numbered(o)
      BY <2>4 DEF WordIsOnItsWay
    <2>6. e \in Elements(events') /\ (eventsLag' \/ Elements(events) \subseteq Elements(events'))
          /\ (eventsLag => eventsLag')
      BY <2>2, <2>3, <2>4, BroadcastOf DEF TypeOK
    <2>7. engineHeld' = 0 /\ engineHeld > 0
      BY <1>11 DEF ForwardEngineChange
    <2>8. CASE eventsLag'
      BY <2>8 DEF Unnumbered
    <2>9. CASE ~eventsLag'
      BY <1>11, <2>2, <2>5, <2>6, <2>7, <2>9 DEF ForwardEngineChange, Unnumbered, Numbered
    <2>10. QED BY <2>8, <2>9
  <1>12. CASE ForwardRefresh
    <2> USE DEF FeedInv
    <2>1. SUFFICES ASSUME NEW o \in Owner, Behind(o)'
                   PROVE  Unnumbered(o)' \/ Numbered(o)'
      BY DEF WordIsOnItsWay
    <2> DEFINE e == Refresh
    <2>2. /\ UNCHANGED <<open, pc, stale, applied, raw, engineDoc, held, wire, baseline, revision,
                         engineNews, engineHeld, changes, changesLag, rereading>>
          /\ Broadcast(e)
      BY <1>12 DEF ForwardRefresh, storeVars, engineVars, forwarderVars, watcherVars
    <2>3. e \in Event
      BY <1>12, Kinds, TailOf DEF ForwardRefresh, Owner, StoreTypes, ForwarderTypes, TypeOK
    <2>4. Behind(o) /\ open
      BY <2>1, <2>2 DEF Behind, Stored
    <2>5. Unnumbered(o) \/ Numbered(o)
      BY <2>4 DEF WordIsOnItsWay
    <2>6. e \in Elements(events') /\ (eventsLag' \/ Elements(events) \subseteq Elements(events'))
          /\ (eventsLag => eventsLag')
      BY <2>2, <2>3, <2>4, BroadcastOf DEF TypeOK
    <2>8. CASE eventsLag'
      BY <2>8 DEF Unnumbered
    <2>9. CASE ~eventsLag'
      BY <1>12, <2>2, <2>5, <2>6, <2>9 DEF ForwardRefresh, Unnumbered, Numbered
    <2>10. QED BY <2>8, <2>9
  <1>13. CASE FanOut
    <2> USE DEF FeedInv
    <2>1. SUFFICES ASSUME NEW o \in Owner, Behind(o)'
                   PROVE  Unnumbered(o)' \/ Numbered(o)'
      BY DEF WordIsOnItsWay
    <2>2. /\ UNCHANGED <<open, pc, stale, applied, raw, engineDoc, held, baseline, revision, eventsLag,
                         engineNews, engineLag, engineHeld, changes, changesLag, rereading>>
          /\ events' = Tail(events) /\ events # <<>>
      BY <1>13 DEF FanOut, storeVars, engineVars, forwarderVars, watcherVars
    <2>3. Elements(events) = {Head(events)} \cup Elements(events') /\ Head(events) \in Message
      BY <2>2, TailOf, Kinds DEF TypeOK, ConnectionTypes
    <2>4. Behind(o) /\ subscribed
      BY <2>1, <2>2 DEF Behind, Stored, Shape
    <2>5. Unnumbered(o) \/ Numbered(o)
      BY <2>4 DEF WordIsOnItsWay
    <2>6. wire' = Append(wire, Head(events))
      BY <1>13, <2>4 DEF FanOut
    <2>7. Elements(wire') = Elements(wire) \cup {Head(events)}
      BY <2>3, <2>6, AppendOf DEF TypeOK, ConnectionTypes
    <2>8. Elements(events) \cup Elements(wire) = Elements(events') \cup Elements(wire')
      BY <2>3, <2>7
    <2>9. QED BY <2>2, <2>5, <2>8 DEF Unnumbered, Numbered
  <1>14. CASE FanOutLag
    <2> USE DEF FeedInv
    <2>1. SUFFICES ASSUME NEW o \in Owner, Behind(o)'
                   PROVE  Unnumbered(o)' \/ Numbered(o)'
      BY DEF WordIsOnItsWay
    <2>2. wire' = Append(wire, Refresh)
      BY <1>14 DEF FanOutLag
    <2>3. Refresh \in Elements(wire')
      BY <2>2, AppendOf, Kinds DEF TypeOK, ConnectionTypes
    <2>4. QED BY <2>3 DEF Unnumbered
  <1>15. CASE AcceptSubscription
    BY <1>15 DEF AcceptSubscription, FeedInv, TypeOK, WordIsOnItsWay, Behind, Stored, Unnumbered, Numbered, vars, storeVars, engineVars, forwarderVars, connectionVars, watcherVars, bounds
  <1>16. CASE SnapshotDesktop
    BY <1>16 DEF SnapshotDesktop, FeedInv, TypeOK, WordIsOnItsWay, Behind, Stored, Unnumbered, Numbered, vars, storeVars, engineVars, forwarderVars, connectionVars, watcherVars, bounds
  <1>17. CASE SnapshotEngine
    BY <1>17 DEF SnapshotEngine, FeedInv, TypeOK, WordIsOnItsWay, Behind, Stored, Unnumbered, Numbered, vars, storeVars, engineVars, forwarderVars, connectionVars, watcherVars, bounds
  <1>18. CASE SendSnapshot
    <2> USE DEF FeedInv
    <2>1. SUFFICES ASSUME NEW o \in Owner, Behind(o)'
                   PROVE  Unnumbered(o)' \/ Numbered(o)'
      BY DEF WordIsOnItsWay
    <2>2. /\ UNCHANGED <<open, pc, stale, applied, raw, engineDoc, held, baseline, revision, eventsLag,
                         events, engineNews, engineLag, engineHeld, changes, changesLag, rereading>>
          /\ wire' = Append(wire, Snapshot(answer))
      BY <1>18 DEF SendSnapshot, storeVars, engineVars, forwarderVars, watcherVars
    <2>3. Elements(wire') = Elements(wire) \cup {Snapshot(answer)}
      BY <2>2, AppendOf, Kinds DEF TypeOK, ConnectionTypes
    <2>4. Behind(o)
      BY <2>1, <2>2 DEF Behind, Stored
    <2>5. QED BY <2>2, <2>3, <2>4 DEF WordIsOnItsWay, Unnumbered, Numbered
  <1>19. CASE Dial
    <2> USE DEF FeedInv
    <2>1. SUFFICES ASSUME NEW o \in Owner, Behind(o)'
                   PROVE  Unnumbered(o)' \/ Numbered(o)'
      BY DEF WordIsOnItsWay
    <2>2. ~Behind(o)'
      BY <1>19 DEF Dial, Behind, watcherVars, engineVars
    <2>3. QED BY <2>1, <2>2
  <1>20. CASE Subscribe
    <2> USE DEF FeedInv
    <2>1. SUFFICES ASSUME NEW o \in Owner, Behind(o)'
                   PROVE  Unnumbered(o)' \/ Numbered(o)'
      BY DEF WordIsOnItsWay
    <2>2. ~Behind(o)'
      BY <1>20 DEF Subscribe, Behind, watcherVars, engineVars
    <2>3. QED BY <2>1, <2>2
  <1>21. CASE AwaitSnapshot
    <2> USE DEF FeedInv
    <2>1. SUFFICES ASSUME NEW o \in Owner, Behind(o)'
                   PROVE  Unnumbered(o)' \/ Numbered(o)'
      BY DEF WordIsOnItsWay
    <2>2. ~Behind(o)'
      BY <1>21 DEF AwaitSnapshot, Behind, watcherVars, engineVars
    <2>3. QED BY <2>1, <2>2
  <1>22. CASE ReadEngine
    <2> USE DEF FeedInv
    <2>1. SUFFICES ASSUME NEW o \in Owner, Behind(o)'
                   PROVE  Unnumbered(o)' \/ Numbered(o)'
      BY DEF WordIsOnItsWay
    <2>2. ~Behind(o)'
      BY <1>22 DEF ReadEngine, Behind, watcherVars, engineVars
    <2>3. QED BY <2>1, <2>2
  <1>23. CASE ReadDesktop
    <2> USE DEF FeedInv
    <2>1. SUFFICES ASSUME NEW o \in Owner, Behind(o)'
                   PROVE  Unnumbered(o)' \/ Numbered(o)'
      BY DEF WordIsOnItsWay
    <2>2. /\ UNCHANGED <<open, stale, raw, engineDoc, held, eventsLag, events, wire, engineLag,
                         engineNews, baseline, revision, changesLag, rereading, changes, engineHeld>>
          /\ pc = "desktop" /\ pc' = "listening" /\ applied' = [desktop |-> raw, engine |-> held]
      BY <1>23 DEF ReadDesktop, storeVars, engineVars, forwarderVars, connectionVars
    <2>3. o = "engine" /\ held # engineDoc /\ open
      BY <2>1, <2>2 DEF Behind, Stored, Owner
    <2>4. Unnumbered(o) \/ Numbered(o)
      BY <2>2, <2>3 DEF Behind, WordIsOnItsWay
    <2>5. QED BY <2>2, <2>4 DEF Unnumbered, Numbered
  <1>24. CASE Listen
    <2> USE DEF FeedInv
    <2>1. SUFFICES ASSUME NEW o \in Owner, Behind(o)'
                   PROVE  Unnumbered(o)' \/ Numbered(o)'
      BY DEF WordIsOnItsWay
    <2>2. /\ UNCHANGED <<open, pc, applied, raw, engineDoc, held, revision, eventsLag,
                         events, engineNews, engineLag, engineHeld, changes, changesLag, rereading>>
          /\ wire' = Tail(wire) /\ wire # <<>> /\ pc = "listening"
      BY <1>24 DEF Listen, storeVars, engineVars, forwarderVars
    <2>3. stale' = FALSE /\ stale' = (stale \/ Newer(Head(wire)))
      BY <1>24, <2>1, <2>2 DEF Behind, Listen
    <2>4. ~Newer(Head(wire)) /\ ~stale
      BY <2>3
    <2>5. baseline' = baseline
      BY <1>24, <2>4 DEF Listen
    <2>6. Elements(wire) = {Head(wire)} \cup Elements(wire') /\ Head(wire) \in Message
      BY <2>2, TailOf DEF TypeOK, ConnectionTypes
    <2>7. Unnumbered(o) \/ Numbered(o)
      BY <2>1, <2>2, <2>4 DEF Behind, Stored, WordIsOnItsWay
    <2>8. Refresh # Head(wire)
      BY <2>4 DEF Newer, Refresh
    <2>9. baseline[o] < revision[o] => Changed(o, revision[o]) # Head(wire)
      BY <2>4 DEF Newer, Changed, TypeOK, StoreTypes, WatcherTypes
    <2>10. QED BY <2>2, <2>5, <2>6, <2>7, <2>8, <2>9 DEF Unnumbered, Numbered
  <1>25. CASE ReadAgain
    <2> USE DEF FeedInv
    <2>1. SUFFICES ASSUME NEW o \in Owner, Behind(o)'
                   PROVE  Unnumbered(o)' \/ Numbered(o)'
      BY DEF WordIsOnItsWay
    <2>2. ~Behind(o)'
      BY <1>25 DEF ReadAgain, Behind, watcherVars, engineVars
    <2>3. QED BY <2>1, <2>2
  <1>26. CASE ReadFails
    <2> USE DEF FeedInv
    <2>1. SUFFICES ASSUME NEW o \in Owner, Behind(o)'
                   PROVE  Unnumbered(o)' \/ Numbered(o)'
      BY DEF WordIsOnItsWay
    <2>2. ~Behind(o)'
      BY <1>26 DEF ReadFails, Behind, watcherVars, engineVars
    <2>3. QED BY <2>1, <2>2
  <1>27. CASE EndSession
    <2> USE DEF FeedInv
    <2>1. SUFFICES ASSUME NEW o \in Owner, Behind(o)'
                   PROVE  Unnumbered(o)' \/ Numbered(o)'
      BY DEF WordIsOnItsWay
    <2>2. ~Behind(o)'
      BY <1>27 DEF EndSession, Disconnected, Behind, watcherVars, engineVars
    <2>3. QED BY <2>1, <2>2
  <1>28. CASE Pause
    <2> USE DEF FeedInv
    <2>1. SUFFICES ASSUME NEW o \in Owner, Behind(o)'
                   PROVE  Unnumbered(o)' \/ Numbered(o)'
      BY DEF WordIsOnItsWay
    <2>2. ~Behind(o)'
      BY <1>28 DEF Pause, Disconnected, Behind, watcherVars, engineVars
    <2>3. QED BY <2>1, <2>2
  <1>29. CASE Resume
    BY <1>29 DEF Resume, FeedInv, TypeOK, WordIsOnItsWay, Behind, Stored, Unnumbered, Numbered, vars, storeVars, engineVars, forwarderVars, connectionVars, watcherVars, bounds
  <1>29a. CASE ReconcileLan \/ LanReconciled
    <2>1. UNCHANGED <<open, pc, stale, applied, raw, engineDoc, held, revision, baseline, eventsLag,
                      events, wire, engineNews, engineLag, engineHeld, changes, changesLag, rereading>>
      BY <1>29a DEF ReconcileLan, LanReconciled, storeVars, engineVars, connectionVars, watcherVars
    <2>2. QED BY <2>1 DEF FeedInv, WordIsOnItsWay, Behind, Stored, Unnumbered, Numbered
  <1>30. CASE Drop
    <2> USE DEF FeedInv
    <2>1. SUFFICES ASSUME NEW o \in Owner, Behind(o)'
                   PROVE  Unnumbered(o)' \/ Numbered(o)'
      BY DEF WordIsOnItsWay
    <2>2. ~Behind(o)'
      BY <1>30 DEF Drop, Disconnected, Behind, watcherVars, engineVars
    <2>3. QED BY <2>1, <2>2
  <1>31. CASE Burst
    <2> USE DEF FeedInv
    <2>1. SUFFICES ASSUME NEW o \in Owner, Behind(o)'
                   PROVE  Unnumbered(o)' \/ Numbered(o)'
      BY DEF WordIsOnItsWay
    <2>2. /\ UNCHANGED <<open, pc, stale, applied, raw, engineDoc, held, wire, baseline, revision,
                         engineHeld, changes, changesLag, rereading>>
      BY <1>31 DEF Burst, storeVars, forwarderVars, watcherVars
    <2>3. Unnumbered(o) \/ Numbered(o)
      BY <2>1, <2>2 DEF Behind, Stored, WordIsOnItsWay
    <2>4. CASE engineLag' = TRUE /\ UNCHANGED <<events, eventsLag>>
      BY <2>2, <2>3, <2>4 DEF Unnumbered, Numbered, Owner
    <2>5. CASE eventsLag' = TRUE
      BY <2>5 DEF Unnumbered
    <2>6. QED BY <1>31, <2>4, <2>5 DEF Burst
  <1>32. CASE Crash
    <2> USE DEF FeedInv
    <2>1. SUFFICES ASSUME NEW o \in Owner, Behind(o)'
                   PROVE  Unnumbered(o)' \/ Numbered(o)'
      BY DEF WordIsOnItsWay
    <2>2. ~Behind(o)'
      BY <1>32 DEF Crash, Disconnected, Behind, watcherVars, engineVars
    <2>3. QED BY <2>1, <2>2
  <1>33. CASE Start
    <2> USE DEF FeedInv
    <2>1. SUFFICES ASSUME NEW o \in Owner, Behind(o)'
                   PROVE  Unnumbered(o)' \/ Numbered(o)'
      BY DEF WordIsOnItsWay
    <2>2. ~Behind(o)'
      BY <1>33 DEF Start, Behind, Shape, connectionVars
    <2>3. QED BY <2>1, <2>2
  <1>34. CASE UNCHANGED vars
    BY <1>34 DEF FeedInv, TypeOK, WordIsOnItsWay, Behind, Stored, Unnumbered, Numbered, vars, storeVars, engineVars, forwarderVars, connectionVars, watcherVars, bounds
  <1>35. QED
    BY <1>1, <1>2, <1>3, <1>4, <1>5, <1>6, <1>7, <1>8, <1>9, <1>10, <1>11, <1>12, <1>13, <1>14, <1>15, <1>16, <1>17, <1>18, <1>19, <1>20, <1>21, <1>22, <1>23, <1>24, <1>25, <1>26, <1>27, <1>28, <1>29, <1>30, <1>31, <1>32, <1>33, <1>34, <1>29a
    DEF Next, Storing, Forwarding, Answering, Watching

-----------------------------------------------------------------------------
(* Theorems. *)

\* The invariant starts out true and every step keeps it.
LEMMA FeedInductive == Spec => []FeedInv
  <1>1. Init => FeedInv
    <2>1. ASSUME Init PROVE StoreTypes /\ WatcherTypes
      <3>1. StoreTypes
        <4>1. Idle \in Write
          BY DEF Idle, Write, AnyDocument
        <4>2. revision \in [Owner -> Nat]
          BY <2>1 DEF Init, NoRevisions
        <4>3. QED BY <2>1, <4>1, <4>2 DEF Init, StoreTypes
      <3>2. applied \in [Owner -> AnyDocument] /\ held \in Document
        BY <2>1 DEF Init, AnyDocument
      <3>3. baseline \in [Owner -> Nat] /\ nchanges \in 0..MaxChanges /\ nfaults \in 0..MaxFaults
        BY <2>1, ConstantsAssumption DEF Init, NoRevisions
      <3>4. WatcherTypes
        BY <2>1, <3>2, <3>3 DEF Init, WatcherTypes, Session
      <3>5. QED BY <3>1, <3>4
    <2>2. ASSUME Init PROVE ForwarderTypes /\ ConnectionTypes
      <3>1. <<>> \in Seq(Nat) /\ <<>> \in Seq(Event) /\ <<>> \in Seq(Message) /\ Len(<<>>) = 0
        BY EmptyQueue
      <3>2. engineNews \in 0..EngineCapacity /\ engineHeld \in Nat /\ engineDoc \in Document
        BY <2>2, ConstantsAssumption DEF Init
      <3>3. changes \in Seq(Nat) /\ Len(changes) <= ChangeCapacity
        BY <2>2, <3>1, ConstantsAssumption DEF Init
      <3>4. events \in Seq(Event) /\ Len(events) <= EventCapacity
        BY <2>2, <3>1, ConstantsAssumption DEF Init
      <3>5. wire \in Seq(Message) /\ Len(wire) <= WireSize
        BY <2>2, <3>1, ConstantsAssumption DEF Init
      <3>6. answer \in [Owner -> Nat]
        BY <2>2 DEF Init, NoRevisions
      <3>7. ForwarderTypes
        BY <2>2, <3>2, <3>3 DEF Init, ForwarderTypes
      <3>8. ConnectionTypes
        BY <2>2, <3>4, <3>5, <3>6 DEF Init, ConnectionTypes
      <3>9. QED BY <3>7, <3>8
    <2>3. ASSUME Init PROVE Shape /\ NumbersAreOld /\ WordIsOnItsWay
      <3>1. Elements(<<>>) = {}
        BY EmptyQueue
      <3>2. Shape
        BY <2>3, <3>1 DEF Init, Shape
      <3>3. NumbersAreOld
        <4>1. \A o \in Owner : NoRevisions[o] = 0
          BY DEF NoRevisions
        <4>2. /\ revision = NoRevisions /\ answer = NoRevisions /\ changes = <<>> /\ events = <<>>
              /\ wire = <<>> /\ engineHeld = 0 /\ open = FALSE
          BY <2>3 DEF Init
        <4>3. QED BY <3>1, <4>1, <4>2 DEF NumbersAreOld, Owner
      <3>4. WordIsOnItsWay
        BY <2>3 DEF Init, WordIsOnItsWay, Behind
      <3>5. QED BY <3>2, <3>3, <3>4
    <2>4. QED BY <2>1, <2>2, <2>3 DEF FeedInv, TypeOK
  <1>2. FeedInv /\ [Next]_vars => FeedInv'
    <2>1. SUFFICES ASSUME FeedInv, [Next]_vars PROVE FeedInv'
      OBVIOUS
    <2>2. TypeOK /\ Shape /\ NumbersAreOld
      BY <2>1 DEF FeedInv
    <2>3. StoreTypes' /\ ForwarderTypes' /\ ConnectionTypes' /\ WatcherTypes'
      BY <2>1, <2>2, StoreTypesStep, ForwarderTypesStep, ConnectionTypesStep, WatcherTypesStep
    <2>4. Shape' /\ NumbersAreOld' /\ WordIsOnItsWay'
      BY <2>1, <2>2, ShapeStep, NumbersAreOldStep, WordStep
    <2>5. QED BY <2>3, <2>4 DEF FeedInv, TypeOK
  <1>3. QED BY <1>1, <1>2, PTL DEF Spec

\* The types hold for any number of documents and any capacities.
THEOREM SettingsTypes == Spec => []TypeOK
  BY FeedInductive, PTL DEF FeedInv

\* Without word on its way, a listening host obeys what both owners have stored:
\* a difference would have to be told of by something in the feed.
THEOREM SettingsNothingMissed == Spec => []NothingMissed
  <1>1. FeedInv => NothingMissed
    <2>1. SUFFICES ASSUME FeedInv, pc = "listening", open, NothingUnderWay
                   PROVE  applied = Stored
      BY DEF NothingMissed
    <2>2. Elements(events) = {} /\ Elements(wire) = {} /\ Elements(changes) = {}
      BY <2>1, EmptyQueue DEF NothingUnderWay
    <2>3. ASSUME NEW o \in Owner, Behind(o) PROVE FALSE
      <3>1. Unnumbered(o) \/ Numbered(o)
        BY <2>1, <2>3 DEF FeedInv, WordIsOnItsWay
      <3>2. ~Unnumbered(o)
        BY <2>1, <2>2 DEF NothingUnderWay, Unnumbered
      <3>3. baseline[o] < revision[o] /\ baseline[o] \in Nat /\ revision[o] \in Nat
            /\ o = "engine" /\ engineHeld = revision[o]
        BY <2>1, <2>2, <3>1, <3>2
        DEF NothingUnderWay, Numbered, FeedInv, TypeOK, StoreTypes, WatcherTypes
      <3>4. engineHeld = 0
        BY <2>1 DEF NothingUnderWay
      <3>5. QED BY <3>3, <3>4
    <2>4. \A o \in Owner : applied[o] = Stored[o]
      BY <2>1, <2>3 DEF Behind, NothingUnderWay
    <2>5. applied \in [Owner -> AnyDocument] /\ Stored \in [Owner -> {raw, engineDoc}]
      BY <2>1 DEF FeedInv, TypeOK, WatcherTypes, Stored, Owner
    <2>6. QED BY <2>4, <2>5
  <1>2. QED BY <1>1, FeedInductive, PTL

-----------------------------------------------------------------------------
(* What a restart finds.                                                    *)

\* Every step but a reset that fails after its removal keeps the memory the
\* file's, and the file what the callers were told.
LEMMA MemoryStep ==
  ASSUME TypeOK, MemoryIsTheFile, [Next]_vars, [WriteFails => ~write.disk]_vars
  PROVE  MemoryIsTheFile'
  <1> USE DEF MemoryIsTheFile, storeVars, Locked
  <1>1. ASSUME NEW d \in Document, Apply(d) PROVE MemoryIsTheFile'
    BY <1>1 DEF Apply, Locked, TypeOK, StoreTypes, Write
  <1>2. CASE Reset
    BY <1>2 DEF Reset, Locked
  <1>3. CASE TouchDisk
    BY <1>3 DEF TouchDisk, TypeOK, StoreTypes, Write
  <1>4. CASE WriteFails
    BY <1>4 DEF WriteFails, Idle, vars
  <1>5. CASE Publish
    BY <1>5 DEF Publish, Idle
  <1>6. CASE Crash
    BY <1>6 DEF Crash, Idle
  <1>7. CASE Start
    BY <1>7 DEF Start
  <1>8. ASSUME UNCHANGED <<storeVars, up>> PROVE MemoryIsTheFile'
    BY <1>8
  <1>9. CASE EngineChanges \/ Forward \/ ForwardLag \/ ForwardReread \/ ReconcileLan \/ LanReconciled \/ CountEngineChange \/ ForwardEngineChange \/ ForwardRefresh
    BY <1>9, <1>8 DEF EngineChanges, Forward, ForwardLag, ForwardReread, ReconcileLan, LanReconciled, CountEngineChange, ForwardEngineChange, ForwardRefresh
  <1>10. CASE FanOut \/ FanOutLag \/ AcceptSubscription \/ SnapshotDesktop \/ SnapshotEngine \/ SendSnapshot
    BY <1>10, <1>8 DEF FanOut, FanOutLag, AcceptSubscription, SnapshotDesktop, SnapshotEngine, SendSnapshot
  <1>11. CASE Dial \/ Subscribe \/ AwaitSnapshot \/ ReadEngine \/ ReadDesktop \/ Listen \/ ReadAgain \/ ReadFails \/ EndSession
    BY <1>11, <1>8 DEF Dial, Subscribe, AwaitSnapshot, ReadEngine, ReadDesktop, Listen, ReadAgain, ReadFails, EndSession
  <1>12. CASE Pause \/ Resume \/ Drop \/ Burst
    BY <1>12, <1>8 DEF Pause, Resume, Drop, Burst
  <1>13. CASE UNCHANGED vars
    BY <1>13, <1>8 DEF vars
  <1>14. QED
    BY <1>1, <1>2, <1>3, <1>4, <1>5, <1>6, <1>7, <1>8, <1>9, <1>10, <1>11, <1>12, <1>13 DEF Next, Storing, Forwarding, Answering, Watching

\* A reset that fails after it removed the file is the only thing that lets a
\* restart find what no caller was promised: without it the file is what the
\* last answer said, through every crash (DesktopSettingsStore, ADR-013 F13).
THEOREM OnlyAFailedFlushForgets == Spec /\ FailuresLeaveTheFile => []AcknowledgedWriteSurvives
  <1>1. Init => MemoryIsTheFile
    BY DEF Init, MemoryIsTheFile, Idle
  <1>2. MemoryIsTheFile => AcknowledgedWriteSurvives
    BY DEF MemoryIsTheFile, AcknowledgedWriteSurvives
  <1>3. QED BY <1>1, <1>2, MemoryStep, SettingsTypes, PTL DEF Spec, FailuresLeaveTheFile

=============================================================================
