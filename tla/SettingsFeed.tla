---------------------------- MODULE SettingsFeed ----------------------------
(***************************************************************************)
(* Settings from the two owners that store them to the host that obeys      *)
(* them.                                                                    *)
(*                                                                         *)
(* The daemon keeps the product document: a file, its copy in memory and a  *)
(* revision, changed under one lock by DesktopSettingsStore.  The engine    *)
(* keeps the rest and only says that it changed.  A change travels as a     *)
(* number, without values, over two or three bounded channels, each of      *)
(* which may overflow, to the WebSocket connection of the host's Watcher,   *)
(* which reads GET /settings again when the number is newer than what it    *)
(* knows.  The connection, the daemon and a read may fail at any moment.    *)
(*                                                                         *)
(* One watcher is modelled; connections do not share state with each other. *)
(***************************************************************************)
EXTENDS Integers, Sequences

CONSTANTS
  Document,         \* documents a client may write, of either owner
  NoDocument,       \* no product file: the defaults
  ChangeCapacity,   \* of the store's broadcast channel (CHANGE_CAPACITY)
  EventCapacity,    \* of the daemon's event broadcast, as one connection sees it
  EngineCapacity,   \* of the engine's event stream
  WireSize,         \* events between the fan-out task and the watcher's channel
  MaxChanges,       \* bound on writes, resets and changes of the engine
  MaxFaults         \* bound on failed writes and reads, drops, bursts, crashes, pauses,
                    \* reconciliations of the listener for phones

ASSUME ConstantsAssumption ==
  /\ NoDocument \notin Document
  /\ ChangeCapacity \in Nat \ {0}
  /\ EventCapacity \in Nat \ {0}
  /\ EngineCapacity \in Nat \ {0}
  /\ WireSize \in Nat \ {0}
  /\ MaxChanges \in Nat
  /\ MaxFaults \in Nat

VARIABLES
  up,          \* the daemon runs
  file,        \* the product file
  raw,         \* its document in memory (State.raw)
  write,       \* the write or reset that holds the store's lock
  revision,    \* revision[o]: changes of the owner o in this run of the daemon
  promised,    \* history: the documents a restart may find, going by what the
               \* callers of the store were told
  engineDoc,   \* the engine's settings
  engineNews,  \* the engine's events nobody has received yet
  engineLag,   \* the engine's stream lost events
  engineHeld,  \* the revision forward_engine_events has assigned and not sent
  reconciling, \* it waits for the listener for phones to follow its settings
  changes,     \* the store's channel: revisions not yet forwarded
  changesLag,  \* it lost notifications since the forwarder last received
  rereading,   \* the forwarder waits for the revision after a lag
  open,        \* the watcher's connection is open
  events,      \* what the connection's broadcast receiver has not received
  eventsLag,   \* it lost events since it last received
  subscribed,  \* the connection's topics contain settings and system
  answering,   \* how far handle_client_message is
  answer,      \* the snapshot it builds
  wire,        \* events sent and not yet received by the watcher
  pc,          \* where the watcher's session is
  baseline,    \* the revisions the session knows
  stale,       \* the session has seen something newer
  held,        \* the engine's part of the response being built
  applied,     \* applied[o]: what the host was last told to obey
  paused,      \* Watcher.paused
  nchanges, nfaults

storeVars == <<file, raw, write, promised>>
engineVars == <<engineDoc, engineNews, engineLag>>
forwarderVars == <<engineHeld, reconciling, changes, changesLag, rereading>>
connectionVars == <<open, events, eventsLag, subscribed, answering, answer, wire>>
watcherVars == <<pc, baseline, stale, held, applied, paused>>
bounds == <<nchanges, nfaults>>
vars == <<up, storeVars, revision, engineVars, forwarderVars, connectionVars,
          watcherVars, bounds>>

-----------------------------------------------------------------------------

Owner == {"desktop", "engine"}
AnyDocument == Document \cup {NoDocument}

\* A write replaces the file and then the memory; a reset removes the file.
\* disk: the file has been replaced or removed.
Write == [kind : {"none", "apply", "reset"}, doc : AnyDocument, disk : BOOLEAN]

Idle == [kind |-> "none", doc |-> NoDocument, disk |-> FALSE]

Changed(o, r) == [type |-> "changed", owner |-> o, revision |-> r]
Refresh == [type |-> "refresh"]
Snapshot(r) == [type |-> "snapshot", revisions |-> r]

Event == [type : {"changed"}, owner : Owner, revision : Nat] \cup {Refresh}
Message == Event \cup [type : {"snapshot"}, revisions : [Owner -> Nat]]

\* dial: connected, not subscribed.  closing: the session has failed.
Session == {"away", "dial", "waiting", "engine", "desktop", "listening", "closing"}

StoreTypes ==
  /\ up \in BOOLEAN
  /\ file \in AnyDocument /\ raw \in AnyDocument
  /\ write \in Write
  /\ promised \in SUBSET AnyDocument
  /\ revision \in [Owner -> Nat]

ForwarderTypes ==
  /\ engineDoc \in Document
  /\ engineNews \in 0..EngineCapacity /\ engineLag \in BOOLEAN
  /\ engineHeld \in Nat /\ reconciling \in BOOLEAN
  /\ changes \in Seq(Nat) /\ Len(changes) <= ChangeCapacity
  /\ changesLag \in BOOLEAN /\ rereading \in BOOLEAN

ConnectionTypes ==
  /\ open \in BOOLEAN /\ subscribed \in BOOLEAN
  /\ events \in Seq(Event) /\ Len(events) <= EventCapacity
  /\ eventsLag \in BOOLEAN
  /\ answering \in {"none", "asked", "desktop", "engine", "send"}
  /\ answer \in [Owner -> Nat]
  /\ wire \in Seq(Message) /\ Len(wire) <= WireSize

WatcherTypes ==
  /\ pc \in Session
  /\ baseline \in [Owner -> Nat]
  /\ stale \in BOOLEAN /\ paused \in BOOLEAN
  /\ held \in Document
  /\ applied \in [Owner -> AnyDocument]
  /\ nchanges \in 0..MaxChanges /\ nfaults \in 0..MaxFaults

TypeOK == StoreTypes /\ ForwarderTypes /\ ConnectionTypes /\ WatcherTypes

NoRevisions == [o \in Owner |-> 0]

Init ==
  /\ up = TRUE
  /\ file \in AnyDocument /\ raw = file /\ write = Idle /\ promised = {file}
  /\ revision = NoRevisions
  /\ engineDoc \in Document /\ engineNews = 0 /\ engineLag = FALSE
  /\ engineHeld = 0 /\ reconciling = FALSE
  /\ changes = <<>> /\ changesLag = FALSE /\ rereading = FALSE
  /\ open = FALSE /\ events = <<>> /\ eventsLag = FALSE /\ subscribed = FALSE
  /\ answering = "none" /\ answer = NoRevisions /\ wire = <<>>
  /\ pc = "away" /\ baseline = NoRevisions /\ stale = FALSE
  /\ held = engineDoc
  /\ applied \in [Owner -> Document]
  /\ paused = FALSE
  /\ nchanges = 0 /\ nfaults = 0

\* What GET /settings would answer for an owner.
Stored == [desktop |-> raw, engine |-> engineDoc]

Locked == write.kind # "none"

CountChange == nchanges < MaxChanges /\ nchanges' = nchanges + 1 /\ UNCHANGED nfaults
CountFault == nfaults < MaxFaults /\ nfaults' = nfaults + 1 /\ UNCHANGED nchanges

-----------------------------------------------------------------------------
(* The product store. *)

\* A patch is merged under the lock.  One that changes nothing is answered at
\* once; another one keeps the lock until the file is written.
Apply(d) ==
  /\ up /\ ~Locked
  /\ CountChange
  /\ IF d = raw
       THEN promised' = {d} /\ UNCHANGED write
       ELSE write' = [kind |-> "apply", doc |-> d, disk |-> FALSE] /\ UNCHANGED promised
  /\ UNCHANGED <<up, file, raw, revision, engineVars, forwarderVars,
                 connectionVars, watcherVars>>

Reset ==
  /\ up /\ ~Locked
  /\ CountChange
  /\ write' = [kind |-> "reset", doc |-> NoDocument, disk |-> FALSE]
  /\ UNCHANGED <<up, file, raw, promised, revision, engineVars, forwarderVars,
                 connectionVars, watcherVars>>

\* write_atomic renames over the file; remove_product_file unlinks it.
TouchDisk ==
  /\ up /\ Locked
  /\ ~write.disk
  /\ file' = write.doc
  /\ write' = [write EXCEPT !.disk = TRUE]
  /\ promised' = promised \cup {write.doc}
  /\ UNCHANGED <<up, raw, revision, engineVars, forwarderVars,
                 connectionVars, watcherVars, bounds>>

\* The caller gets an error and memory stays as it was.  A write fails before
\* its rename or not at all; a reset also when the unlinked directory entry
\* cannot be flushed.
WriteFails ==
  /\ up /\ Locked
  /\ write.disk => write.kind = "reset"
  /\ CountFault
  /\ write' = Idle
  /\ UNCHANGED <<up, file, raw, promised, revision, engineVars, forwarderVars,
                 connectionVars, watcherVars>>

\* Memory, revision and notification change together, and the lock is given up.
Publish ==
  /\ up /\ Locked
  /\ write.disk
  /\ raw' = write.doc
  /\ promised' = {write.doc}
  /\ revision' = [revision EXCEPT !["desktop"] = @ + 1]
  /\ IF Len(changes) < ChangeCapacity
       THEN changes' = Append(changes, revision'["desktop"]) /\ UNCHANGED changesLag
       ELSE /\ changes' = Append(Tail(changes), revision'["desktop"])
            /\ changesLag' = TRUE
  /\ write' = Idle
  /\ UNCHANGED <<up, file, engineVars, engineHeld, reconciling, rereading, connectionVars,
                 watcherVars, bounds>>

\* The engine stores a change and announces it.
EngineChanges ==
  /\ up
  /\ CountChange
  /\ \E d \in Document \ {engineDoc} : engineDoc' = d
  /\ IF engineNews < EngineCapacity
       THEN engineNews' = engineNews + 1 /\ UNCHANGED engineLag
       ELSE engineLag' = TRUE /\ UNCHANGED engineNews
  /\ UNCHANGED <<up, storeVars, revision, forwarderVars, connectionVars, watcherVars>>

-----------------------------------------------------------------------------
(* The forwarders. *)

\* The daemon's event broadcast, as the watcher's connection receives it.
Broadcast(e) ==
  \/ ~open /\ UNCHANGED <<events, eventsLag>>
  \/ /\ open /\ Len(events) < EventCapacity
     /\ events' = Append(events, e) /\ UNCHANGED eventsLag
  \/ /\ open /\ Len(events) >= EventCapacity
     /\ events' = Append(Tail(events), e) /\ eventsLag' = TRUE

\* forward_desktop_settings: one notification becomes one event.
Forward ==
  /\ up /\ ~rereading /\ ~changesLag
  /\ changes # <<>>
  /\ Broadcast(Changed("desktop", Head(changes)))
  /\ changes' = Tail(changes)
  /\ UNCHANGED <<up, storeVars, revision, engineVars, engineHeld, reconciling, changesLag,
                 rereading, open, subscribed, answering, answer, wire, watcherVars,
                 bounds>>

\* The channel reports its lag before what is left in it.
ForwardLag ==
  /\ up /\ ~rereading /\ changesLag
  /\ changesLag' = FALSE
  /\ rereading' = TRUE
  /\ UNCHANGED <<up, storeVars, revision, engineVars, engineHeld, reconciling, changes,
                 connectionVars, watcherVars, bounds>>

\* Every section is reported at the current revision.
ForwardReread ==
  /\ up /\ rereading /\ ~Locked
  /\ Broadcast(Changed("desktop", revision["desktop"]))
  /\ rereading' = FALSE
  /\ UNCHANGED <<up, storeVars, revision, engineVars, engineHeld, reconciling, changes,
                 changesLag, open, subscribed, answering, answer, wire, watcherVars, bounds>>

\* forward_engine_events: the listener for phones is made to follow its settings,
\* or the recovery of the profile.  The forwarder takes no other event before it
\* has.
ReconcileLan ==
  /\ up /\ engineHeld = 0 /\ ~reconciling
  /\ CountFault
  /\ reconciling' = TRUE
  /\ UNCHANGED <<up, storeVars, revision, engineVars, engineHeld, changes, changesLag,
                 rereading, connectionVars, watcherVars>>

\* The listener has been stopped, which waits for the requests phones have open
\* without a deadline, and perhaps started.
LanReconciled ==
  /\ up /\ reconciling
  /\ reconciling' = FALSE
  /\ UNCHANGED <<up, storeVars, revision, engineVars, engineHeld, changes, changesLag,
                 rereading, connectionVars, watcherVars, bounds>>

\* The revision advances, and then the event is sent.
CountEngineChange ==
  /\ up /\ engineHeld = 0 /\ ~reconciling /\ ~engineLag
  /\ engineNews > 0
  /\ engineNews' = engineNews - 1
  /\ revision' = [revision EXCEPT !["engine"] = @ + 1]
  /\ engineHeld' = revision'["engine"]
  /\ UNCHANGED <<up, storeVars, engineDoc, engineLag, reconciling, changes, changesLag,
                 rereading,
                 connectionVars, watcherVars, bounds>>

ForwardEngineChange ==
  /\ up /\ engineHeld > 0
  /\ Broadcast(Changed("engine", engineHeld))
  /\ engineHeld' = 0
  /\ UNCHANGED <<up, storeVars, revision, engineVars, reconciling, changes, changesLag,
                 rereading, open, subscribed, answering, answer, wire, watcherVars, bounds>>

\* A slip: lost events of the engine are nobody's business.
ForwardNoRefresh ==
  /\ up /\ engineHeld = 0 /\ ~reconciling /\ engineLag
  /\ engineLag' = FALSE
  /\ UNCHANGED <<up, storeVars, revision, engineDoc, engineNews, forwarderVars,
                 connectionVars, watcherVars, bounds>>

\* The engine reports lost events as RefreshRequired.
ForwardRefresh ==
  /\ up /\ engineHeld = 0 /\ ~reconciling /\ engineLag
  /\ engineLag' = FALSE
  /\ Broadcast(Refresh)
  /\ UNCHANGED <<up, storeVars, revision, engineDoc, engineNews, forwarderVars, open,
                 subscribed, answering, answer, wire, watcherVars, bounds>>

-----------------------------------------------------------------------------
(* The connection. *)

\* A slip: one event more than there is room for.
RoomForOneMore == Len(wire) <= WireSize

\* The outbound channel, the socket and the client's channel together; a full
\* one blocks the sender.
Room == Len(wire) < WireSize

\* forward_broadcast_events: an event of a topic the client has subscribed to
\* goes out, another is dropped.
FanOut ==
  /\ up /\ open /\ ~eventsLag
  /\ events # <<>>
  /\ \/ subscribed /\ Room /\ wire' = Append(wire, Head(events))
     \/ ~subscribed /\ UNCHANGED wire
  /\ events' = Tail(events)
  /\ UNCHANGED <<up, storeVars, revision, engineVars, forwarderVars, open, eventsLag,
                 subscribed, answering, answer, watcherVars, bounds>>

\* A lag becomes a request to refresh, whatever the client has subscribed to.
FanOutLag ==
  /\ up /\ open /\ eventsLag /\ Room
  /\ eventsLag' = FALSE
  /\ wire' = Append(wire, Refresh)
  /\ UNCHANGED <<up, storeVars, revision, engineVars, forwarderVars, open, events,
                 subscribed, answering, answer, watcherVars, bounds>>

\* handle_client_message: the topics first, then the snapshot of settings.
AcceptSubscription ==
  /\ up /\ open /\ answering = "asked"
  /\ subscribed' = TRUE
  /\ answering' = "desktop"
  /\ UNCHANGED <<up, storeVars, revision, engineVars, forwarderVars, open, events,
                 eventsLag, answer, wire, watcherVars, bounds>>

SnapshotDesktop ==
  /\ up /\ open /\ answering = "desktop" /\ ~Locked
  /\ answer' = [answer EXCEPT !["desktop"] = revision["desktop"]]
  /\ answering' = "engine"
  /\ UNCHANGED <<up, storeVars, revision, engineVars, forwarderVars, open, events,
                 eventsLag, subscribed, wire, watcherVars, bounds>>

SnapshotEngine ==
  /\ up /\ open /\ answering = "engine"
  /\ answer' = [answer EXCEPT !["engine"] = revision["engine"]]
  /\ answering' = "send"
  /\ UNCHANGED <<up, storeVars, revision, engineVars, forwarderVars, open, events,
                 eventsLag, subscribed, wire, watcherVars, bounds>>

SendSnapshot ==
  /\ up /\ open /\ answering = "send" /\ Room
  /\ wire' = Append(wire, Snapshot(answer))
  /\ answering' = "none"
  /\ UNCHANGED <<up, storeVars, revision, engineVars, forwarderVars, open, events,
                 eventsLag, subscribed, answer, watcherVars, bounds>>

\* What is left of a connection once it is gone.
Disconnected ==
  /\ open' = FALSE
  /\ events' = <<>> /\ eventsLag' = FALSE
  /\ subscribed' = FALSE
  /\ answering' = "none"
  /\ wire' = <<>>
  /\ answer' = NoRevisions

-----------------------------------------------------------------------------
(* The host's watcher. *)

Dial ==
  /\ up /\ pc = "away" /\ ~paused
  /\ pc' = "dial"
  /\ open' = TRUE
  /\ UNCHANGED <<up, storeVars, revision, engineVars, forwarderVars, events, eventsLag,
                 subscribed, answering, answer, wire, baseline, stale, held, applied,
                 paused, bounds>>

Subscribe ==
  /\ pc = "dial" /\ open
  /\ answering' = "asked"
  /\ pc' = "waiting"
  /\ UNCHANGED <<up, storeVars, revision, engineVars, forwarderVars, open, events,
                 eventsLag, subscribed, answer, wire, baseline, stale, held, applied,
                 paused, bounds>>

\* waitSnapshot: whatever comes before the snapshot is dropped, for the read
\* comes after it.
AwaitSnapshot ==
  /\ pc = "waiting" /\ wire # <<>>
  /\ wire' = Tail(wire)
  /\ IF Head(wire).type = "snapshot"
       THEN baseline' = Head(wire).revisions /\ stale' = FALSE /\ pc' = "engine"
       ELSE UNCHANGED <<baseline, stale, pc>>
  /\ UNCHANGED <<up, storeVars, revision, engineVars, forwarderVars, open, events,
                 eventsLag, subscribed, answering, answer, held, applied, paused, bounds>>

\* get_settings_handler asks the engine and then the store, and the view is
\* applied.
ReadEngine ==
  /\ up /\ pc = "engine"
  /\ held' = engineDoc
  /\ pc' = "desktop"
  /\ UNCHANGED <<up, storeVars, revision, engineVars, forwarderVars, connectionVars,
                 baseline, stale, applied, paused, bounds>>

ReadDesktop ==
  /\ up /\ pc = "desktop" /\ ~Locked
  /\ applied' = [desktop |-> raw, engine |-> held]
  /\ pc' = "listening"
  /\ UNCHANGED <<up, storeVars, revision, engineVars, forwarderVars, connectionVars,
                 baseline, stale, held, paused, bounds>>

\* revisions.newer, which also records the revision.
Newer(e) ==
  \/ e.type = "refresh"
  \/ e.type = "changed" /\ e.revision > baseline[e.owner]

\* A slip: while the queue is drained, only the last event counts.
ListenToLast ==
  /\ pc = "listening" /\ wire # <<>>
  /\ wire' = Tail(wire)
  /\ LET e == Head(wire)
     IN /\ stale' = Newer(e)
        /\ baseline' = IF Newer(e) /\ e.type = "changed"
                         THEN [baseline EXCEPT ![e.owner] = e.revision]
                         ELSE baseline
  /\ UNCHANGED <<up, storeVars, revision, engineVars, forwarderVars, open, events,
                 eventsLag, subscribed, answering, answer, pc, held, applied, paused,
                 bounds>>

\* An event is received; more of them may be before the settings are read.
Listen ==
  /\ pc = "listening" /\ wire # <<>>
  /\ wire' = Tail(wire)
  /\ LET e == Head(wire)
     IN /\ stale' = (stale \/ Newer(e))
        /\ baseline' = IF Newer(e) /\ e.type = "changed"
                         THEN [baseline EXCEPT ![e.owner] = e.revision]
                         ELSE baseline
  /\ UNCHANGED <<up, storeVars, revision, engineVars, forwarderVars, open, events,
                 eventsLag, subscribed, answering, answer, pc, held, applied, paused,
                 bounds>>

ReadAgain ==
  /\ pc = "listening" /\ stale
  /\ stale' = FALSE
  /\ pc' = "engine"
  /\ UNCHANGED <<up, storeVars, revision, engineVars, forwarderVars, connectionVars,
                 baseline, held, applied, paused, bounds>>

\* A read fails by itself, or because there is no daemon to answer it.
ReadFails ==
  /\ pc \in {"engine", "desktop"}
  /\ IF up THEN CountFault ELSE UNCHANGED bounds
  /\ pc' = "closing"
  /\ UNCHANGED <<up, storeVars, revision, engineVars, forwarderVars, connectionVars,
                 baseline, stale, held, applied, paused>>

\* The session ends; Run starts another one unless it is paused.
EndSession ==
  /\ pc = "closing" \/ (~open /\ pc \in {"dial", "waiting", "listening"})
  /\ pc' = "away"
  /\ stale' = FALSE
  /\ Disconnected
  /\ UNCHANGED <<up, storeVars, revision, engineVars, forwarderVars, baseline, held,
                 applied, paused, bounds>>

\* The host stops the daemon, or is about to: the connection is closed and a
\* read in flight is cancelled, unless it has just ended.
Pause ==
  /\ ~paused
  /\ CountFault
  /\ paused' = TRUE
  /\ Disconnected
  /\ \/ pc \in {"engine", "desktop"} /\ pc' = "closing"
     \/ UNCHANGED pc
  /\ UNCHANGED <<up, storeVars, revision, engineVars, forwarderVars, baseline, stale,
                 held, applied>>

Resume ==
  /\ paused
  /\ paused' = FALSE
  /\ UNCHANGED <<up, storeVars, revision, engineVars, forwarderVars, connectionVars, pc,
                 baseline, stale, held, applied, bounds>>

-----------------------------------------------------------------------------
(* Faults. *)

\* The socket breaks, or no snapshot comes in time and the watcher gives up.
Drop ==
  /\ open
  /\ CountFault
  /\ Disconnected
  /\ UNCHANGED <<up, storeVars, revision, engineVars, forwarderVars, watcherVars>>

\* Both event channels carry more than settings: a burst of other events pushes
\* out all that waits in one of them.
Burst ==
  /\ up
  /\ CountFault
  /\ \/ /\ engineNews' = 0 /\ engineLag' = TRUE
        /\ UNCHANGED <<events, eventsLag>>
     \/ /\ open /\ events' = <<>> /\ eventsLag' = TRUE
        /\ UNCHANGED <<engineNews, engineLag>>
  /\ UNCHANGED <<up, storeVars, revision, engineDoc, forwarderVars, open, subscribed,
                 answering, answer, wire, watcherVars>>

\* The daemon ends, at any point of a write.
Crash ==
  /\ up
  /\ CountFault
  /\ up' = FALSE
  /\ write' = Idle
  /\ engineNews' = 0 /\ engineLag' = FALSE /\ engineHeld' = 0 /\ reconciling' = FALSE
  /\ changes' = <<>> /\ changesLag' = FALSE /\ rereading' = FALSE
  /\ Disconnected
  /\ pc' = IF pc \in {"engine", "desktop"} THEN "closing" ELSE pc
  /\ UNCHANGED <<file, raw, promised, revision, engineDoc, baseline, stale, held,
                 applied, paused>>

\* A new run reads the file and counts from 0.
Start ==
  /\ ~up
  /\ up' = TRUE
  /\ raw' = file
  /\ revision' = NoRevisions
  /\ UNCHANGED <<file, write, promised, engineVars, forwarderVars, connectionVars,
                 watcherVars, bounds>>

Storing == (\E d \in Document : Apply(d)) \/ Reset \/ TouchDisk \/ WriteFails \/ Publish
Forwarding ==
  Forward \/ ForwardLag \/ ForwardReread \/ ReconcileLan \/ LanReconciled
    \/ CountEngineChange \/ ForwardEngineChange \/ ForwardRefresh
Answering == AcceptSubscription \/ SnapshotDesktop \/ SnapshotEngine \/ SendSnapshot
Watching ==
  Dial \/ Subscribe \/ AwaitSnapshot \/ ReadEngine \/ ReadDesktop \/ Listen \/ ReadAgain
    \/ ReadFails \/ EndSession

Next ==
  \/ Storing \/ EngineChanges \/ Forwarding \/ FanOut \/ FanOutLag \/ Answering
  \/ Watching \/ Pause \/ Resume \/ Drop \/ Burst \/ Crash \/ Start

\* Tasks of the daemon and the watcher's goroutine are scheduled; nobody has to
\* change a setting, to pause, to fail, or to start the daemon again.
Fairness ==
  /\ WF_vars(TouchDisk) /\ WF_vars(Publish)
  /\ WF_vars(Forward) /\ WF_vars(ForwardLag) /\ WF_vars(ForwardReread)
  /\ WF_vars(CountEngineChange) /\ WF_vars(ForwardEngineChange) /\ WF_vars(ForwardRefresh)
  /\ WF_vars(FanOut) /\ WF_vars(FanOutLag) /\ WF_vars(Answering)
  /\ WF_vars(Dial) /\ WF_vars(Subscribe) /\ WF_vars(AwaitSnapshot)
  /\ WF_vars(ReadEngine) /\ WF_vars(ReadDesktop) /\ WF_vars(Listen) /\ WF_vars(ReadAgain)
  /\ WF_vars(EndSession)

Spec == Init /\ [][Next]_vars /\ Fairness

\* Phones that bring every request they have open to its end, as MobileLan
\* assumes by the same name.
PhonesFinish == WF_vars(LanReconciled)

FinishingSpec == Spec /\ PhonesFinish

-----------------------------------------------------------------------------
(* Why nothing is missed: the invariant the proof rests on. *)

Elements(q) == {q[i] : i \in DOMAIN q}

\* What is gone is empty, and a snapshot goes out after the topics are in force.
Shape ==
  /\ ~up => /\ ~open /\ changes = <<>> /\ ~changesLag /\ ~rereading
            /\ engineNews = 0 /\ ~engineLag /\ engineHeld = 0
  /\ ~open => events = <<>> /\ ~eventsLag /\ wire = <<>>
              /\ answering = "none" /\ answer = NoRevisions /\ ~subscribed
  /\ pc = "away" => ~open
  /\ pc \in {"engine", "desktop"} => ~stale
  /\ answering \in {"desktop", "engine", "send"} => subscribed
  /\ (\E m \in Elements(wire) : m.type = "snapshot") => subscribed
  /\ open /\ pc \in {"engine", "desktop", "listening"} => subscribed

\* No number is ahead of the revision it stands for.
NumbersAreOld ==
  /\ \A r \in Elements(changes) : r <= revision["desktop"]
  /\ engineHeld <= revision["engine"]
  /\ \A m \in Elements(events) \cup Elements(wire) :
        m.type = "changed" => m.revision <= revision[m.owner]
  /\ \A o \in Owner : answer[o] <= revision[o]
  /\ \A m \in Elements(wire) :
        m.type = "snapshot" => \A o \in Owner : m.revisions[o] <= revision[o]
  /\ open /\ pc \in {"engine", "desktop", "listening"}
       => \A o \in Owner : baseline[o] <= revision[o]

\* The watcher will take what it has read of an owner for current, and it is not.
Behind(o) ==
  /\ open
  /\ \/ pc = "listening" /\ ~stale /\ applied[o] # Stored[o]
     \/ pc = "desktop" /\ o = "engine" /\ held # engineDoc

\* Word that will make it read again, whatever it knows.
Unnumbered(o) ==
  \/ eventsLag
  \/ Refresh \in Elements(events) \cup Elements(wire)
  \/ o = "engine" /\ (engineLag \/ engineNews > 0)

\* Word that will, by its number.
Numbered(o) ==
  /\ baseline[o] < revision[o]
  /\ \/ Changed(o, revision[o]) \in Elements(events) \cup Elements(wire)
     \/ o = "desktop" /\ (changesLag \/ rereading \/ revision[o] \in Elements(changes))
     \/ o = "engine" /\ engineHeld = revision[o]

WordIsOnItsWay == \A o \in Owner : Behind(o) => Unnumbered(o) \/ Numbered(o)

FeedInv == TypeOK /\ Shape /\ NumbersAreOld /\ WordIsOnItsWay

-----------------------------------------------------------------------------
(* Properties. *)

\* Nothing tells of a change any more: no channel, no forwarder's hand, no
\* event on its way to the watcher.
NothingUnderWay ==
  /\ changes = <<>> /\ ~changesLag /\ ~rereading
  /\ engineNews = 0 /\ ~engineLag /\ engineHeld = 0
  /\ events = <<>> /\ ~eventsLag
  /\ wire = <<>>
  /\ ~stale

\* A listening host obeys what both owners have stored, unless word of the
\* difference is still on its way: no overflow, no interleaving of a change
\* with the subscription, the snapshot or a read, and no reconnection loses
\* the last change (settings_events.rs:125, ws.rs:478, watch.go session).
NothingMissed ==
  pc = "listening" /\ open /\ NothingUnderWay => applied = Stored

\* A restart finds what the last answered write or reset left, or what one
\* begun after it was writing (ADR-013 F13: "the written value is kept").
AcknowledgedWriteSurvives == file \in promised

\* It is kept where no write or reset fails once the file has changed, because
\* then the memory is the file's whenever no write is between the two.
FailuresLeaveTheFile == [][WriteFails => ~write.disk]_vars

MemoryIsTheFile ==
  /\ file \in promised
  /\ up /\ ~write.disk => raw = file
  /\ write.disk => Locked /\ file = write.doc

\* Once the daemon stays up and the watcher is left alone, the host comes to
\* obey the stored settings - as long as phones finish their requests, since the
\* forwarder of its events is also what stops the listener for phones.
HostCatchesUp == <>[](up /\ ~paused) => <>[](applied = Stored)

=============================================================================
