---------------------------- MODULE WsConnection ----------------------------
(***************************************************************************)
(* One WebSocket connection of the daemon, from its upgrade to the moment   *)
(* its control lease is given back.                                         *)
(*                                                                         *)
(* Four tasks share it: the receive loop, which answers subscriptions, the  *)
(* fan-out of the daemon's events, the heartbeat, and the send task, which  *)
(* alone writes to the socket.  They talk over two bounded channels and a   *)
(* signal; each waits where a channel is full or the client does not read.  *)
(* The lease is held until the receive loop has ended and the send task     *)
(* with it, so whatever keeps them waiting keeps a oneshot daemon alive.    *)
(***************************************************************************)
EXTENDS Integers, Sequences

CONSTANTS
  Interval,      \* HEARTBEAT_INTERVAL, in units of time
  Timeout,       \* CLIENT_TIMEOUT
  MaxLate,       \* bound on how long a tick is overdue
  Suspends,      \* the clock may leap over both of the heartbeat's waits
  OutboundSize,  \* of the channel of events (32)
  ControlSize,   \* of the channel of pings and the close request (16)
  SocketSize,    \* frames the socket takes while the client does not read
  Snapshots,     \* snapshots a subscription is answered with
  MaxRequests,   \* bound on subscriptions
  MaxEvents      \* bound on events of the daemon

ConstantsFit ==
  /\ Interval \in Nat \ {0} /\ Timeout \in Nat \ {0}
  /\ MaxLate \in Nat
  /\ Suspends \in BOOLEAN
  /\ OutboundSize \in Nat \ {0} /\ ControlSize \in Nat \ {0} /\ SocketSize \in Nat \ {0}
  /\ Snapshots \in Nat \ {0}
  /\ MaxRequests \in Nat /\ MaxEvents \in Nat

ASSUME ConstantsAssumption == ConstantsFit

VARIABLES
  client,      \* live, mute (connected, neither reads nor writes), or gone
  inbox,       \* subscriptions the daemon has not read
  parting,     \* behind them a close frame, or a payload the daemon cannot parse
  socket,      \* frames the client has not read
  outbound,    \* events in the channel
  control,     \* pings and close requests in the other one
  recv,        \* the receive loop; ended: the lease is back
  left,        \* snapshots it still has to send
  fanout,      \* the fan-out task
  send,        \* the send task, or the frame it is writing
  heartbeat,   \* the heartbeat task
  stale,       \* its signal to the receive loop
  tickIn,      \* time to the next tick of the interval; below 0, overdue
  deadlineIn,  \* time to the deadline of the last ping
  nrequests, nevents

clientVars == <<client, inbox, parting, nrequests>>
heartbeatVars == <<heartbeat, stale, tickIn, deadlineIn>>
fanoutVars == <<fanout, nevents>>
vars == <<clientVars, socket, outbound, control, recv, left, fanoutVars, send,
          heartbeatVars>>

-----------------------------------------------------------------------------

TypeOK ==
  /\ client \in {"live", "mute", "gone"}
  /\ nrequests \in 0..MaxRequests /\ inbox \in 0..nrequests /\ parting \in BOOLEAN
  /\ socket \in 0..SocketSize
  /\ outbound \in 0..OutboundSize
  /\ control \in Seq({"ping", "close"}) /\ Len(control) <= ControlSize
  /\ recv \in {"loop", "snapshot", "closing", "cleanup", "await", "ended"}
  /\ left \in 0..Snapshots /\ (recv = "snapshot" => left > 0)
  /\ fanout \in {"idle", "holding", "ended"} /\ nevents \in 0..MaxEvents
  /\ send \in {"idle", "event", "ping", "close", "ended"}
  /\ heartbeat \in {"first", "ping", "wait", "ended"}
  /\ stale \in BOOLEAN
  /\ tickIn \in -MaxLate..Interval /\ deadlineIn \in 0..Timeout

\* The first tick of an interval is due at once.
Init ==
  /\ client = "live" /\ inbox = 0 /\ parting = FALSE /\ nrequests = 0
  /\ socket = 0 /\ outbound = 0 /\ control = <<>>
  /\ recv = "loop" /\ left = 0
  /\ fanout = "idle" /\ nevents = 0
  /\ send = "idle"
  /\ heartbeat = "first" /\ stale = FALSE /\ tickIn = 0 /\ deadlineIn = 0

\* A channel whose receiver, the send task, is gone refuses everything.
Refused == send = "ended"

\* A slip: the last place is never used.
OutboundRoomButOne == outbound + 1 < OutboundSize

OutboundRoom == outbound < OutboundSize

ControlRoom == Len(control) < ControlSize

-----------------------------------------------------------------------------
(* The client, and what the network makes of it. *)

ClientAsks ==
  /\ client = "live" /\ ~parting /\ nrequests < MaxRequests
  /\ inbox' = inbox + 1
  /\ nrequests' = nrequests + 1
  /\ UNCHANGED <<client, parting, socket, outbound, control, recv, left, fanoutVars, send,
                 heartbeatVars>>

\* The client closes the connection in form, or sends what is no request; the
\* socket stands.
ClientParts ==
  /\ client = "live" /\ ~parting
  /\ parting' = TRUE
  /\ UNCHANGED <<client, inbox, nrequests, socket, outbound, control, recv, left,
                 fanoutVars, send, heartbeatVars>>

\* Pings are answered by the client's library; the daemon only logs a pong.
ClientReads ==
  /\ client = "live" /\ socket > 0
  /\ socket' = socket - 1
  /\ UNCHANGED <<clientVars, outbound, control, recv, left, fanoutVars, send,
                 heartbeatVars>>

\* A client that hangs, or a machine that sleeps, keeps its connection.
ClientTurns ==
  /\ \/ client = "live" /\ client' = "mute"
     \/ client = "mute" /\ client' = "live"
     \/ client # "gone" /\ client' = "gone"
  /\ UNCHANGED <<inbox, parting, nrequests, socket, outbound, control, recv, left,
                 fanoutVars, send, heartbeatVars>>

-----------------------------------------------------------------------------
(* The fan-out task. *)

FanIn ==
  /\ fanout = "idle" /\ nevents < MaxEvents
  /\ fanout' = "holding"
  /\ nevents' = nevents + 1
  /\ UNCHANGED <<clientVars, socket, outbound, control, recv, left, send, heartbeatVars>>

FanPut ==
  /\ fanout = "holding"
  /\ \/ Refused /\ fanout' = "ended" /\ UNCHANGED outbound
     \/ ~Refused /\ OutboundRoom /\ fanout' = "idle" /\ outbound' = outbound + 1
  /\ UNCHANGED <<clientVars, socket, control, recv, left, nevents, send, heartbeatVars>>

-----------------------------------------------------------------------------
(* The heartbeat. *)

\* A burst of missed ticks comes one after the other.
NextTick == tickIn <= 0 /\ tickIn' = tickIn + Interval

\* The first tick, or the next one while a pong is awaited: another ping is due,
\* whether or not the last one was answered.
Tick ==
  /\ heartbeat \in {"first", "wait"}
  /\ NextTick
  /\ heartbeat' = "ping"
  /\ UNCHANGED <<clientVars, socket, outbound, control, recv, left, fanoutVars, send,
                 stale, deadlineIn>>

SendPing ==
  /\ heartbeat = "ping"
  /\ \/ Refused /\ heartbeat' = "ended" /\ UNCHANGED <<control, deadlineIn>>
     \/ /\ ~Refused /\ ControlRoom
        /\ control' = Append(control, "ping")
        /\ heartbeat' = "wait"
        /\ deadlineIn' = Timeout
  /\ UNCHANGED <<clientVars, socket, outbound, recv, left, fanoutVars, send, stale, tickIn>>

Deadline ==
  /\ heartbeat = "wait" /\ deadlineIn = 0
  /\ stale' = TRUE
  /\ heartbeat' = "ended"
  /\ UNCHANGED <<clientVars, socket, outbound, control, recv, left, fanoutVars, send,
                 tickIn, deadlineIn>>

\* A unit of time; the heartbeat wakes before another one has passed.
Pass ==
  /\ heartbeat # "ended"
  /\ heartbeat \in {"first", "wait"} => tickIn > 0
  /\ heartbeat = "wait" => deadlineIn > 0
  /\ tickIn' = IF tickIn > -MaxLate THEN tickIn - 1 ELSE tickIn
  /\ deadlineIn' = IF deadlineIn > 0 THEN deadlineIn - 1 ELSE 0
  /\ UNCHANGED <<clientVars, socket, outbound, control, recv, left, fanoutVars, send,
                 heartbeat, stale>>

\* The machine slept and its clock did not: both waits are over at once, and
\* select! takes either.
Suspend ==
  /\ Suspends
  /\ heartbeat = "wait"
  /\ tickIn' = IF tickIn > 0 THEN 0 ELSE tickIn
  /\ deadlineIn' = 0
  /\ UNCHANGED <<clientVars, socket, outbound, control, recv, left, fanoutVars, send,
                 heartbeat, stale>>

-----------------------------------------------------------------------------
(* The send task. *)

TakeEvent ==
  /\ send = "idle" /\ outbound > 0
  /\ outbound' = outbound - 1
  /\ send' = "event"
  /\ UNCHANGED <<clientVars, socket, control, recv, left, fanoutVars, heartbeatVars>>

TakeControl ==
  /\ send = "idle" /\ control # <<>>
  /\ control' = Tail(control)
  /\ send' = Head(control)
  /\ UNCHANGED <<clientVars, socket, outbound, recv, left, fanoutVars, heartbeatVars>>

\* A socket that is broken, or from which a close frame has been read.
SocketRefuses == client = "gone" \/ (parting /\ recv \in {"cleanup", "await"})

\* A frame goes to the socket once it has room; an error of the socket, or the
\* daemon's own close frame, ends the task.
WriteFrame ==
  /\ send \in {"event", "ping", "close"}
  /\ \/ SocketRefuses /\ send' = "ended" /\ UNCHANGED socket
     \/ /\ client # "gone" /\ socket < SocketSize
        /\ socket' = socket + 1
        /\ send' = IF send = "close" THEN "ended" ELSE "idle"
  /\ UNCHANGED <<clientVars, outbound, control, recv, left, fanoutVars, heartbeatVars>>

\* A slip: the receive loop's own sender counts too, so nobody hangs up.
SendersNeverLeave == FALSE

\* Every sender of both channels is dropped.
SendersGone == recv = "await" /\ fanout = "ended" /\ heartbeat = "ended"

HangUp ==
  /\ send = "idle" /\ outbound = 0 /\ control = <<>>
  /\ SendersGone
  /\ send' = "ended"
  /\ UNCHANGED <<clientVars, socket, outbound, control, recv, left, fanoutVars,
                 heartbeatVars>>

-----------------------------------------------------------------------------
(* The receive loop. *)

ReceiveRequest ==
  /\ recv = "loop" /\ inbox > 0
  /\ inbox' = inbox - 1
  /\ recv' = "snapshot" /\ left' = Snapshots
  /\ UNCHANGED <<client, parting, nrequests, socket, outbound, control, fanoutVars, send,
                 heartbeatVars>>

\* The answer goes the way of the events and waits for its turn there.
SendSnapshot ==
  /\ recv = "snapshot"
  /\ \/ Refused /\ left' = 0 /\ recv' = "loop" /\ UNCHANGED outbound
     \/ /\ ~Refused /\ OutboundRoom
        /\ outbound' = outbound + 1
        /\ left' = left - 1
        /\ recv' = IF left = 1 THEN "loop" ELSE "snapshot"
  /\ UNCHANGED <<clientVars, socket, control, fanoutVars, send, heartbeatVars>>

\* The socket gives an error or its end, a close frame or a payload that is no
\* request is read, or the heartbeat has gone without a word.
ReceiveEnd ==
  /\ recv = "loop"
  /\ \/ client = "gone"
     \/ parting /\ inbox = 0
     \/ heartbeat = "ended" /\ ~stale
  /\ recv' = "cleanup"
  /\ UNCHANGED <<clientVars, socket, outbound, control, left, fanoutVars, send,
                 heartbeatVars>>

ReceiveStale ==
  /\ recv = "loop" /\ stale
  /\ stale' = FALSE
  /\ recv' = "closing"
  /\ UNCHANGED <<clientVars, socket, outbound, control, left, fanoutVars, send, heartbeat,
                 tickIn, deadlineIn>>

RequestClose ==
  /\ recv = "closing"
  /\ \/ Refused /\ UNCHANGED control
     \/ ~Refused /\ ControlRoom /\ control' = Append(control, "close")
  /\ recv' = "cleanup"
  /\ UNCHANGED <<clientVars, socket, outbound, left, fanoutVars, send, heartbeatVars>>

\* The senders are dropped and the other two senders' tasks aborted.
Cleanup ==
  /\ recv = "cleanup"
  /\ recv' = "await"
  /\ fanout' = "ended" /\ heartbeat' = "ended"
  /\ UNCHANGED <<clientVars, socket, outbound, control, left, nevents, send, stale, tickIn,
                 deadlineIn>>

\* The handler ends and with it the lease.
Release ==
  /\ recv = "await" /\ send = "ended"
  /\ recv' = "ended"
  /\ UNCHANGED <<clientVars, socket, outbound, control, left, fanoutVars, send,
                 heartbeatVars>>

Sending == TakeEvent \/ TakeControl \/ WriteFrame \/ HangUp
Receiving == ReceiveRequest \/ ReceiveEnd \/ ReceiveStale \/ RequestClose \/ Cleanup \/ Release

Next ==
  \/ ClientAsks \/ ClientParts \/ ClientReads \/ ClientTurns
  \/ FanIn \/ FanPut
  \/ Tick \/ SendPing \/ Deadline \/ Pass \/ Suspend
  \/ Sending
  \/ Receiving \/ SendSnapshot

\* The runtime runs its tasks, time passes and a live client reads.  The channel
\* serves its senders in turn, and select! takes either of two ready channels:
\* the answer and the event that are possible again and again are not passed
\* over for ever.
Fairness ==
  /\ WF_vars(ClientReads)
  /\ WF_vars(Tick \/ SendPing) /\ WF_vars(Pass)
  /\ WF_vars(FanPut)
  /\ WF_vars(Sending) /\ SF_vars(TakeEvent)
  /\ WF_vars(Receiving) /\ SF_vars(SendSnapshot)

Spec == Init /\ [][Next]_vars /\ Fairness

-----------------------------------------------------------------------------
(* Properties. *)

\* A client that is gone gives its lease back, whichever task was waiting where
\* and however full the channels were (ws.rs:288, "covering clean close, abrupt
\* TCP reset / kill -9").
LeaseComesBack == (client = "gone") ~> (recv = "ended")

\* A client that keeps reading has its subscriptions answered, unless the
\* connection is closed: the events of the daemon, sharing the channel with the
\* answers, do not keep the receive loop waiting for ever.
RequestsAreAnswered ==
  <>[](client = "live") => <>[](recv = "ended" \/ (recv = "loop" /\ inbox = 0))

\* A client that does not answer pings is considered stale and its connection is
\* closed (ws.rs:119, "If exceeded, the connection is considered stale and
\* closed"; ws.rs:291, "heartbeat-stale eviction").
MuteClientIsEvicted == <>[](client = "mute") => <>(recv \in {"closing", "cleanup", "await", "ended"})

\* A heartbeat whose interval is shorter than its timeout tells nobody anything.
HeartbeatIsSilent == ~stale /\ recv # "closing"

\* The lease outlives the tasks: when it is back nobody is left that could put a
\* frame on the socket or a message in a channel.
LeaseOutlivesTasks == recv = "ended" => {fanout, heartbeat, send} = {"ended"}

\* Such a heartbeat ends no connection either: the tasks stop for a client that is
\* gone or has parted by a frame of its own, and for no other, mute or not.
OnlyTheGoneAreReleased ==
  /\ recv \in {"cleanup", "await", "ended"} => client = "gone" \/ parting
  /\ "ended" \in {heartbeat, send} => client = "gone" \/ parting

=============================================================================
