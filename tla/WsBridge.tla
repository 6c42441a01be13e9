----------------------------- MODULE WsBridge -----------------------------
(***************************************************************************)
(* The daemon client's realtime bridge: one WebSocket to the daemon, whose  *)
(* events it hands to any number of subscribers.                            *)
(*                                                                         *)
(* The bridge reads one event at a time and offers it to a copy of its      *)
(* table of subscribers.  Each subscriber has a bounded queue, a forwarder  *)
(* that moves events from it to a bounded channel, and a consumer at the    *)
(* end of the channel.  A full queue loses an event, except a terminal one: *)
(* for that the bridge waits a moment and then makes room.                  *)
(*                                                                         *)
(* A step is one access to a lock, a flag or a channel.  Timers are         *)
(* untimed.  An event comes to be when the bridge reads it: what the socket *)
(* still held when a connection was lost counts as never sent.              *)
(***************************************************************************)
EXTENDS Naturals, Sequences, FiniteSets

CONSTANTS
  Sub,        \* subscribers, each of which subscribes once
  Topics,     \* Topics[s]: the topics s asks for
  Kind,       \* kinds of events
  TopicOf,    \* TopicOf[k]: the topic of the events of kind k
  Terminal,   \* the kinds of is_terminal_event
  Capacity,   \* queue_capacity
  MaxEvent    \* bound of the events read

ASSUME ConstantsAssumption ==
  /\ Terminal \subseteq Kind
  /\ Capacity \in Nat \ {0}   \* mpsc::channel refuses 0
  /\ MaxEvent \in Nat

VARIABLES
  run,        \* where the bridge's task is
  asked,      \* the topics this cycle asks the daemon for
  event,      \* the event last read; its id counts the events
  todo,       \* subscribers of the copied table it is still to be offered to
  current,    \* the one it is being offered to, if any
  active,     \* those that have had it and were not closed
  table,      \* DaemonWsBridge.subscribers
  pending,    \* Subscriber.pending, a queue
  permit,     \* Subscriber.notify holds a permit
  closed,     \* Subscriber.closed
  forwarder,  \* where each forwarder is
  hand,       \* the event it took from the queue, if any
  channel,    \* the channel to the consumer
  consumer,   \* what each consumer is doing
  got,        \* history: what it has received
  offered,    \* history: what was offered to it, and queued or lost
  late,       \* history: who subscribed while an event was being dispatched
  cancelled   \* the cancellation token

dispatchVars == <<todo, current, active>>
runVars == <<run, asked, event, dispatchVars>>
queueVars == <<pending, permit, offered>>
forwardVars == <<closed, forwarder, hand>>
consumerVars == <<channel, consumer, got>>
tableVars == <<table, late>>
vars == <<runVars, tableVars, queueVars, forwardVars, consumerVars, cancelled>>

-----------------------------------------------------------------------------

Event == [id : 1..MaxEvent, kind : Kind]
Topic == UNION {Topics[s] : s \in Sub}

Dispatching == {"offer", "retry", "keep"}
RunPhase == {"top", "connect", "read", "stopped"} \cup Dispatching

TypeOK ==
  /\ run \in RunPhase /\ asked \subseteq Topic
  /\ event.id \in 0..MaxEvent /\ (event.id > 0 => event \in Event)
  /\ todo \subseteq Sub /\ active \subseteq Sub /\ current \subseteq Sub
  /\ table \subseteq Sub /\ late \subseteq Sub
  /\ pending \in [Sub -> Seq(Event)] /\ \A s \in Sub : Len(pending[s]) <= Capacity
  /\ channel \in [Sub -> Seq(Event)] /\ \A s \in Sub : Len(channel[s]) <= Capacity
  /\ hand \in [Sub -> Seq(Event)] /\ \A s \in Sub : Len(hand[s]) <= 1
  /\ permit \in [Sub -> BOOLEAN] /\ closed \in [Sub -> BOOLEAN]
  /\ forwarder \in [Sub -> {"off", "look", "wait", "send", "stopped"}]
  /\ consumer \in [Sub -> {"none", "listening", "gone"}]
  /\ got \in [Sub -> Seq(Event)] /\ offered \in [Sub -> SUBSET Event]
  /\ cancelled \in BOOLEAN

Init ==
  /\ run = "top" /\ asked = {} /\ event = [id |-> 0]
  /\ todo = {} /\ current = {} /\ active = {}
  /\ table = {} /\ late = {}
  /\ pending = [s \in Sub |-> <<>>] /\ permit = [s \in Sub |-> FALSE]
  /\ closed = [s \in Sub |-> FALSE] /\ forwarder = [s \in Sub |-> "off"]
  /\ hand = [s \in Sub |-> <<>>]
  /\ channel = [s \in Sub |-> <<>>] /\ consumer = [s \in Sub |-> "none"]
  /\ got = [s \in Sub |-> <<>>] /\ offered = [s \in Sub |-> {}]
  /\ cancelled = FALSE

-----------------------------------------------------------------------------
(* Subscribing and consuming.                                               *)

\* subscribe_internal, while it holds the table ...
Subscribe(s) ==
  /\ consumer[s] = "none"
  /\ consumer' = [consumer EXCEPT ![s] = "listening"]
  /\ table' = table \cup {s}
  /\ late' = IF run \in Dispatching THEN late \cup {s} ELSE late
  /\ UNCHANGED <<runVars, queueVars, forwardVars, channel, got, cancelled>>

\* ... and after.
SpawnForwarder(s) ==
  /\ consumer[s] # "none" /\ forwarder[s] = "off"
  /\ forwarder' = [forwarder EXCEPT ![s] = "look"]
  /\ UNCHANGED <<runVars, tableVars, queueVars, closed, hand, consumerVars, cancelled>>

Receive(s) ==
  /\ consumer[s] = "listening" /\ channel[s] # <<>>
  /\ got' = [got EXCEPT ![s] = Append(@, Head(channel[s]))]
  /\ channel' = [channel EXCEPT ![s] = Tail(@)]
  /\ UNCHANGED <<runVars, tableVars, queueVars, forwardVars, consumer, cancelled>>

\* The receiver is dropped, and what the channel holds with it; its history
\* ends here.
Leave(s) ==
  /\ consumer[s] = "listening"
  /\ consumer' = [consumer EXCEPT ![s] = "gone"]
  /\ channel' = [channel EXCEPT ![s] = <<>>]
  /\ got' = [got EXCEPT ![s] = <<>>] /\ offered' = [offered EXCEPT ![s] = {}]
  /\ UNCHANGED <<runVars, tableVars, pending, permit, forwardVars, cancelled>>

-----------------------------------------------------------------------------
(* The forwarder of a subscriber.                                           *)

\* An empty queue sends it to its Notify; the queue's lock is free by then.
Look(s) ==
  /\ forwarder[s] = "look"
  /\ \/ /\ pending[s] # <<>>
        /\ hand' = [hand EXCEPT ![s] = <<Head(pending[s])>>]
        /\ pending' = [pending EXCEPT ![s] = Tail(@)]
        /\ forwarder' = [forwarder EXCEPT ![s] = "send"]
     \/ /\ pending[s] = <<>>
        /\ forwarder' = [forwarder EXCEPT ![s] = "wait"]
        /\ UNCHANGED <<hand, pending>>
  /\ UNCHANGED <<runVars, tableVars, permit, offered, closed, consumerVars, cancelled>>

Wake(s) ==
  /\ forwarder[s] = "wait" /\ permit[s]
  /\ permit' = [permit EXCEPT ![s] = FALSE]
  /\ forwarder' = [forwarder EXCEPT ![s] = "look"]
  /\ UNCHANGED <<runVars, tableVars, pending, offered, closed, hand, consumerVars, cancelled>>

\* A slip: one event for each wake-up.
SendThenWait(s) ==
  /\ forwarder[s] = "send"
  /\ consumer[s] = "listening" /\ Len(channel[s]) < Capacity
  /\ channel' = [channel EXCEPT ![s] = Append(@, hand[s][1])]
  /\ forwarder' = [forwarder EXCEPT ![s] = "wait"]
  /\ hand' = [hand EXCEPT ![s] = <<>>]
  /\ UNCHANGED <<runVars, tableVars, queueVars, closed, consumer, got, cancelled>>

\* The send waits for room.  That the receiver is gone is found out here and
\* nowhere else.
Send(s) ==
  /\ forwarder[s] = "send"
  /\ \/ /\ consumer[s] = "gone"
        /\ closed' = [closed EXCEPT ![s] = TRUE]
        /\ forwarder' = [forwarder EXCEPT ![s] = "stopped"]
        /\ UNCHANGED channel
     \/ /\ consumer[s] = "listening" /\ Len(channel[s]) < Capacity
        /\ channel' = [channel EXCEPT ![s] = Append(@, hand[s][1])]
        /\ forwarder' = [forwarder EXCEPT ![s] = "look"]
        /\ UNCHANGED closed
  /\ hand' = [hand EXCEPT ![s] = <<>>]
  /\ UNCHANGED <<runVars, tableVars, queueVars, consumer, got, cancelled>>

-----------------------------------------------------------------------------
(* The bridge: one cycle from the table of topics to the end of a connection.*)

\* The topics of the table, once per cycle; with none the bridge idles.
Begin ==
  /\ run = "top" /\ ~cancelled
  /\ table # {}
  /\ asked' = UNION {Topics[s] : s \in table}
  /\ run' = "connect"
  /\ UNCHANGED <<event, dispatchVars, tableVars, queueVars, forwardVars, consumerVars, cancelled>>

\* Connected and subscribed, or not: no record of a daemon, no token, no
\* socket.  The cancellation token is not looked at until this is over.
Connect ==
  /\ run = "connect"
  /\ \/ run' = "read" /\ UNCHANGED asked
     \/ run' = "top" /\ asked' = {}
  /\ UNCHANGED <<event, dispatchVars, tableVars, queueVars, forwardVars, consumerVars, cancelled>>

\* An event that cannot be decoded is passed over and is not modelled.
Read(k) ==
  /\ run = "read"
  /\ TopicOf[k] \in asked /\ event.id < MaxEvent
  /\ event' = [id |-> event.id + 1, kind |-> k]
  /\ todo' = table /\ active' = {}
  /\ run' = "offer"
  /\ UNCHANGED <<asked, current, tableVars, queueVars, forwardVars, consumerVars, cancelled>>

NoteOffered(s) ==
  offered' = IF consumer[s] = "listening" THEN [offered EXCEPT ![s] = @ \cup {event}]
             ELSE offered

\* try_push: event is queued and the forwarder told.
Push(s, queue) ==
  /\ pending' = [pending EXCEPT ![s] = Append(queue, event)]
  /\ permit' = [permit EXCEPT ![s] = TRUE]
  /\ NoteOffered(s)

\* A slip: one event too many.
OfferOneMore(s) ==
  /\ run = "offer" /\ s \in todo
  /\ todo' = todo \ {s} /\ current' = {s}
  /\ TopicOf[event.kind] \in Topics[s] /\ Len(pending[s]) <= Capacity
  /\ Push(s, pending[s])
  /\ run' = "keep"
  /\ UNCHANGED <<asked, event, active, tableVars, forwardVars, consumerVars, cancelled>>

\* A slip: who does not take the event is passed over, and not kept.
OfferPassing(s) ==
  /\ run = "offer" /\ s \in todo
  /\ todo' = todo \ {s}
  /\ \/ /\ TopicOf[event.kind] \notin Topics[s]
        /\ UNCHANGED <<run, current, queueVars>>
     \/ /\ TopicOf[event.kind] \in Topics[s] /\ Len(pending[s]) < Capacity
        /\ Push(s, pending[s])
        /\ current' = {s} /\ run' = "keep"
  /\ UNCHANGED <<asked, event, active, tableVars, forwardVars, consumerVars, cancelled>>

Offer(s) ==
  /\ run = "offer" /\ s \in todo
  /\ todo' = todo \ {s} /\ current' = {s}
  /\ \/ /\ TopicOf[event.kind] \notin Topics[s]
        /\ run' = "keep"
        /\ UNCHANGED queueVars
     \/ /\ TopicOf[event.kind] \in Topics[s] /\ Len(pending[s]) < Capacity
        /\ Push(s, pending[s])
        /\ run' = "keep"
     \/ /\ TopicOf[event.kind] \in Topics[s] /\ Len(pending[s]) >= Capacity
        /\ event.kind \notin Terminal
        /\ NoteOffered(s)
        /\ run' = "keep"
        /\ UNCHANGED <<pending, permit>>
     \/ /\ TopicOf[event.kind] \in Topics[s] /\ Len(pending[s]) >= Capacity
        /\ event.kind \in Terminal
        /\ run' = "retry"
        /\ UNCHANGED queueVars
  /\ UNCHANGED <<asked, event, active, tableVars, forwardVars, consumerVars, cancelled>>

\* Who makes room in a full queue: the first that is not terminal, or else the
\* oldest.
Victims(queue) ==
  LET plain == {i \in DOMAIN queue : queue[i].kind \notin Terminal}
  IN  IF plain = {} THEN {1} ELSE {i \in plain : \A j \in plain : i <= j}

Without(queue, i) ==
  [j \in 1..(Len(queue) - 1) |-> IF j < i THEN queue[j] ELSE queue[j + 1]]

\* Slips: a terminal event goes to the front; the oldest gives way, terminal or
\* not.
RetryInFront(s) ==
  /\ run = "retry" /\ s \in current
  /\ \E i \in Victims(pending[s]) :
       pending' = [pending EXCEPT ![s] = <<event>> \o Without(@, i)]
  /\ permit' = [permit EXCEPT ![s] = TRUE]
  /\ NoteOffered(s)
  /\ run' = "keep"
  /\ UNCHANGED <<asked, event, dispatchVars, tableVars, forwardVars, consumerVars, cancelled>>

RetryOverOldest(s) ==
  /\ run = "retry" /\ s \in current
  /\ Len(pending[s]) >= Capacity
  /\ Push(s, Tail(pending[s]))
  /\ run' = "keep"
  /\ UNCHANGED <<asked, event, dispatchVars, tableVars, forwardVars, consumerVars, cancelled>>

\* After terminal_retry_delay.
Retry(s) ==
  /\ run = "retry" /\ s \in current
  /\ \/ /\ Len(pending[s]) >= Capacity
        /\ \E i \in Victims(pending[s]) : Push(s, Without(pending[s], i))
     \/ /\ Len(pending[s]) < Capacity
        /\ Push(s, pending[s])
  /\ run' = "keep"
  /\ UNCHANGED <<asked, event, dispatchVars, tableVars, forwardVars, consumerVars, cancelled>>

Keep(s) ==
  /\ run = "keep" /\ s \in current
  /\ active' = IF closed[s] THEN active ELSE active \cup {s}
  /\ current' = {}
  /\ run' = "offer"
  /\ UNCHANGED <<asked, event, todo, tableVars, queueVars, forwardVars, consumerVars, cancelled>>

\* The survivors of the copy become the table.
Store ==
  /\ run = "offer" /\ todo = {}
  /\ table' = active /\ active' = {}
  /\ run' = "read"
  /\ UNCHANGED <<asked, event, todo, current, late, queueVars, forwardVars, consumerVars, cancelled>>

\* Closed by the daemon, lost, or given up because of the token.
EndConnection ==
  /\ run = "read"
  /\ run' = "top" /\ asked' = {}
  /\ UNCHANGED <<event, dispatchVars, tableVars, queueVars, forwardVars, consumerVars, cancelled>>

\* At the top of the loop, or in one of its pauses.
Stop ==
  /\ run = "top" /\ cancelled
  /\ run' = "stopped"
  /\ UNCHANGED <<asked, event, dispatchVars, tableVars, queueVars, forwardVars, consumerVars, cancelled>>

Cancel ==
  /\ ~cancelled
  /\ cancelled' = TRUE
  /\ UNCHANGED <<runVars, tableVars, queueVars, forwardVars, consumerVars>>

-----------------------------------------------------------------------------

Forward(s) == SpawnForwarder(s) \/ Look(s) \/ Wake(s) \/ Send(s)
Dispatch == Store \/ \E s \in Sub : Offer(s) \/ Retry(s) \/ Keep(s)
HangUp == cancelled /\ EndConnection

Next ==
  \/ \E s \in Sub : Subscribe(s) \/ Receive(s) \/ Leave(s) \/ Forward(s)
  \/ Dispatch
  \/ Begin \/ Connect \/ (\E k \in Kind : Read(k)) \/ EndConnection \/ Stop
  \/ Cancel

Spec == Init /\ [][Next]_vars

\* The tasks of the bridge and of its forwarders run when they can.  Nothing
\* makes a consumer receive, a daemon answer or an attempt to connect end.
FairSpec ==
  /\ Spec
  /\ \A s \in Sub : WF_vars(Forward(s))
  /\ WF_vars(Dispatch) /\ WF_vars(HangUp) /\ WF_vars(Begin) /\ WF_vars(Stop)

-----------------------------------------------------------------------------
(* Properties.                                                              *)

Elements(queue) == {queue[i] : i \in DOMAIN queue}

\* What is between the bridge and the end of a consumer's stream, oldest first.
Stream(s) == got[s] \o channel[s] \o hand[s] \o pending[s]
InStream(s) == Elements(got[s]) \cup Elements(channel[s]) \cup Elements(hand[s]) \cup Elements(pending[s])

Rises(queue) == \A i, j \in DOMAIN queue : i < j => queue[i].id < queue[j].id

\* A subscriber sees events in the order in which the daemon sent them, and
\* none twice, whatever the bridge evicts on the way (enqueue, spawn_forwarder).
OrderKept == \A s \in Sub : Rises(Stream(s))

\* Terminal events give way to terminal events only: as long as its consumer
\* listens, one that was offered is on its way or received, unless Capacity
\* later ones have been offered (the eviction in enqueue).
LaterTerminals(s, e) == {l \in offered[s] : l.kind \in Terminal /\ l.id > e.id}

TerminalsSurvive ==
  \A s \in Sub : consumer[s] = "listening" =>
    \A e \in offered[s] :
      e.kind \in Terminal =>
        e \in InStream(s) \/ Cardinality(LaterTerminals(s, e)) >= Capacity

\* Who subscribed between two dispatches stays in the table until its receiver
\* is found gone: dispatch_event, which writes the whole table back, loses
\* only closed subscribers and those that came while it ran.
EarlySubscribersStay ==
  \A s \in Sub : consumer[s] # "none" /\ s \notin table => closed[s] \/ s \in late

\* No wake-up is lost between the push of an event and a forwarder that has
\* just found its queue empty: a queue does not keep events while its consumer
\* has room for them (spawn_forwarder, try_push, enqueue).
EventsDoNotRest ==
  \A s \in Sub :
    (pending[s] # <<>>) ~> \/ pending[s] = <<>>
                           \/ Len(channel[s]) = Capacity
                           \/ consumer[s] = "gone"

\* The token stops the bridge, unless an attempt to connect never ends (run).
CancelIsHeeded == cancelled ~> (run = "stopped" \/ [](run = "connect"))

\* A connection asks for the topics of everyone who listens when its cycle
\* begins: "Reconnect restores active topics automatically".
ReconnectRestoresTopics ==
  [][run = "top" /\ run' = "connect" =>
       \A s \in Sub : consumer[s] = "listening" => Topics[s] \subseteq asked']_vars

\* It is kept for everyone but those who came during a dispatch, which is all of
\* them where nobody does.
OutsideDispatches == \A s \in Sub : Subscribe(s) => run \notin Dispatching
SubscribesBetweenDispatches == [][OutsideDispatches]_vars

ReconnectRestoresEarlyTopics ==
  [][run = "top" /\ run' = "connect" =>
       \A s \in Sub : consumer[s] = "listening" /\ s \notin late => Topics[s] \subseteq asked']_vars

-----------------------------------------------------------------------------
(* What keeps them.                                                         *)

\* Which locals the bridge's task and the forwarders have in which phase; the
\* bridge knows nobody who has not subscribed.
LocalsFit ==
  /\ run \in Dispatching => event \in Event
  /\ run \in {"retry", "keep"} => \E s \in Sub : current = {s}
  /\ run \notin {"retry", "keep"} => current = {}
  /\ run = "retry" => event.kind \in Terminal
  /\ run \notin Dispatching => todo = {}
  /\ current \cap todo = {}
  /\ \A s \in Sub :
       /\ forwarder[s] = "send" <=> Len(hand[s]) = 1
       /\ consumer[s] = "none" => s \notin table \cup todo \cup current \cup active

\* During a dispatch everyone in the table has been copied, but for those who
\* came since; who was in the copy is to be offered the event, or kept.
CopyCoversTable ==
  run \in Dispatching =>
    \A s \in table : s \in todo \cup current \cup active \/ closed[s] \/ s \in late

\* Only a forwarder whose receiver is gone marks its subscriber as closed.
ClosedAreGone == \A s \in Sub : closed[s] => consumer[s] = "gone"

\* The parts of a stream rise, one after the other ...
Precedes(p, q) == \A x \in Elements(p), y \in Elements(q) : x.id < y.id

PartsRise(s) ==
  /\ Rises(got[s]) /\ Rises(channel[s]) /\ Rises(hand[s]) /\ Rises(pending[s])
  /\ Precedes(got[s], channel[s]) /\ Precedes(got[s], hand[s]) /\ Precedes(got[s], pending[s])
  /\ Precedes(channel[s], hand[s]) /\ Precedes(channel[s], pending[s])
  /\ Precedes(hand[s], pending[s])

\* ... and hold no event later than the last read, nor that one itself where it
\* is still to be offered.  What a listener's stream holds was offered to it.
Unoffered(s) == s \in todo \/ (run = "retry" /\ s \in current)

StreamIsOld(s) ==
  /\ \A e \in InStream(s) \cup offered[s] :
       e.id <= event.id /\ (Unoffered(s) => e.id < event.id)
  /\ consumer[s] # "gone" => InStream(s) \subseteq offered[s]
  /\ consumer[s] = "none" => offered[s] = {}
  /\ IsFiniteSet(offered[s])

StreamsFit == \A s \in Sub : PartsRise(s) /\ StreamIsOld(s)

=============================================================================
