---------------------------- MODULE X11Clipboard ----------------------------
(***************************************************************************)
(* The clipboard of an X11 session (crates/uc-platform, platform/linux/    *)
(* x11): the watcher thread that reads every new selection (event_loop.rs, *)
(* reader.rs) and the worker thread that reads and writes for the engine   *)
(* and serves what it wrote (clipboard.rs, writer.rs), each on a           *)
(* connection of its own to the X server.                                  *)
(*                                                                         *)
(* Both sleep in poll on the socket of their connection.  x11rb reads that *)
(* socket whenever it waits for the reply or the error check of a request: *)
(* the events it meets there move to a queue of the library, where         *)
(* poll_for_event finds them and poll does not see them.  The two places   *)
(* are `wsock`, `wbuf` for the watcher and `ksock`, `kbuf` for the worker. *)
(*                                                                         *)
(* The contents of the clipboard are not told apart: an owner serves its   *)
(* targets and one representation, or refuses.                             *)
(***************************************************************************)
EXTENDS Naturals, Sequences, SequencesExt

CONSTANTS
  Apps,      \* the windows of other applications
  Us,        \* the window of the worker
  NoOne,     \* no owner
  Baseline,  \* the round of the first read, which follows no change
  MaxTakes,  \* changes of the owner by other applications
  MaxCalls,  \* requests of the engine
  MaxNaps,   \* empty reads of one owner that fit in CHANGE_POLL_DEADLINE
  MaxOwed    \* requests for one target an application remembers, and the worker one

ASSUME X11Assumption ==
  /\ Us \notin Apps /\ NoOne \notin Apps \cup {Us} /\ Baseline \notin Apps \cup {Us, NoOne}
  /\ {MaxTakes, MaxCalls, MaxNaps, MaxOwed} \subseteq Nat

VARIABLES
  owner,     \* owner of the selection CLIPBOARD
  takes,     \* changes by other applications so far
  owed,      \* requests of the watcher that applications have not answered
  wsock, wbuf, ksock, kbuf,
  wpc,       \* where the watcher is
  flagged,   \* ReadContext::selection_changed, then pending_change
  initial,   \* the owner a round of reads is about
  naps,      \* its empty reads
  behind,    \* the owner was set after the last read began
  stop,      \* the shutdown signal of the watcher
  kpc,       \* where the worker is
  held,      \* WriterState holds payloads and the snapshot they came from
  queue,     \* the channel of requests
  woken,     \* the eventfd beside it
  calls

server == <<owner, takes, owed>>
watcherVars == <<wpc, flagged, initial, naps, stop>>
watcher == <<watcherVars, behind>>
worker == <<kpc, held, queue, woken, calls>>
vars == <<server, wsock, wbuf, ksock, kbuf, watcher, worker>>

Owners == Apps \cup {Us, NoOne}
Targets == {"targets", "data"}
Refusal(t) == IF t = "targets" THEN "noTargets" ELSE "noData"

TypeOK ==
  /\ owner \in Owners /\ takes \in 0..MaxTakes
  /\ owed \in [Targets -> 0..MaxOwed]
  /\ {wsock, wbuf} \subseteq Seq(Targets \cup {Refusal(t) : t \in Targets} \cup {"change"})
  /\ {ksock, kbuf} \subseteq Seq(Targets \cup {"clear"})
  /\ wpc \in {"ask", "targets", "askData", "data", "fetch", "judge", "return", "drain", "query",
              "rest", "stopped"}
  /\ {flagged, behind, stop, held, woken} \subseteq BOOLEAN
  /\ initial \in Owners \cup {Baseline} /\ naps \in 0..MaxNaps
  /\ kpc \in {"drain", "requests", "own", "verify", "reading", "rest", "stopped"}
  /\ queue \in Seq({"write", "erase", "read", "stop"}) /\ calls \in 0..MaxCalls

Init ==
  /\ owner \in Apps \cup {NoOne} /\ takes = 0 /\ owed = [t \in Targets |-> 0]
  /\ wsock = <<>> /\ wbuf = <<>> /\ ksock = <<>> /\ kbuf = <<>>
  /\ wpc = "ask" /\ flagged = FALSE /\ initial = Baseline /\ naps = 0 /\ behind = FALSE /\ stop = FALSE
  /\ kpc = "drain" /\ held = FALSE /\ queue = <<>> /\ woken = FALSE /\ calls = 0

-----------------------------------------------------------------------------
(* The X server and the other applications.                                 *)

\* An event for the watcher, while its connection lives.
Tell(event) == wsock' = IF wpc = "stopped" THEN <<>> ELSE Append(wsock, event)

\* SetSelectionOwner, as every client sees it: the watcher is told through
\* XFIXES, and the worker that it lost what it had.
SetOwner(o) ==
  /\ owner' = o
  /\ Tell("change")
  /\ behind' = (wpc # "stopped")
Clears(o) == IF owner = Us /\ o # Us THEN <<"clear">> ELSE <<>>

\* Another application copies, or the one that owned the selection leaves.
Take ==
  /\ takes < MaxTakes
  /\ takes' = takes + 1
  /\ \E o \in Apps \cup {NoOne} :
       /\ o = NoOne => owner \in Apps
       /\ SetOwner(o)
       /\ ksock' = ksock \o Clears(o)
  /\ UNCHANGED <<owed, wbuf, kbuf, watcherVars, worker>>

\* An application answers, now or much later, still the owner or not, or it
\* never does.
Answer ==
  \E t \in Targets :
    /\ owed[t] > 0
    /\ owed' = [owed EXCEPT ![t] = @ - 1]
    /\ \E a \in {t, Refusal(t)} : Tell(a)
    /\ UNCHANGED <<owner, takes, wbuf, ksock, kbuf, watcher, worker>>

-----------------------------------------------------------------------------
(* The watcher.                                                             *)

\* A round trip: what the socket holds goes to the queue of the library.
WatcherFills ==
  /\ wbuf' = wbuf \o wsock
  /\ wsock' = <<>>

\* ConvertSelection and its check: the owner is asked; without one the server
\* refuses at once.  Of requests given up and sent again to the worker one
\* stands for all.
Convert(t) ==
  /\ wbuf' = wbuf \o wsock \o (IF owner = NoOne THEN <<Refusal(t)>> ELSE <<>>)
  /\ wsock' = <<>>
  /\ ksock' = IF owner = Us /\ ~Contains(kbuf \o ksock, t) THEN Append(ksock, t) ELSE ksock
  /\ owed' = IF owner \in Apps /\ owed[t] < MaxOwed THEN [owed EXCEPT ![t] = @ + 1] ELSE owed

\* A read begins, unless the host is shutting down: the baseline read does
\* not ask.
Ask ==
  /\ wpc = "ask"
  /\ IF stop /\ initial # Baseline
     THEN /\ wpc' = "return"
          /\ UNCHANGED <<owed, wsock, wbuf, ksock, behind>>
     ELSE /\ Convert("targets")
          /\ behind' = FALSE
          /\ wpc' = "targets"
  /\ UNCHANGED <<owner, takes, kbuf, flagged, initial, naps, stop, worker>>

\* A slip: a change that lands in a read is dropped with everything else.
HearUnflagged(t) ==
  LET all == wbuf \o wsock IN
  /\ wpc = t /\ all # <<>>
  /\ wbuf' = Tail(all) /\ wsock' = <<>>
  /\ UNCHANGED flagged
  /\ wpc' = CASE Head(all) = t /\ t = "targets" -> "askData"
              [] Head(all) = t /\ t = "data" -> "fetch"
              [] Head(all) = Refusal(t) -> "judge"
              [] OTHER -> t

\* The next event while an answer is awaited: the answer, a change to be
\* remembered, or something to be dropped.
Hear(t) ==
  LET all == wbuf \o wsock IN
  /\ wpc = t /\ all # <<>>
  /\ wbuf' = Tail(all) /\ wsock' = <<>>
  /\ flagged' = (flagged \/ Head(all) = "change")
  /\ wpc' = CASE Head(all) = t /\ t = "targets" -> "askData"
              [] Head(all) = t /\ t = "data" -> "fetch"
              [] Head(all) = Refusal(t) -> "judge"
              [] OTHER -> t

\* READ_TIMEOUT is over and nothing is left to be looked at.
TimeOut(t) ==
  /\ wpc = t /\ wbuf = <<>>
  /\ wpc' = "judge"
  /\ UNCHANGED <<wbuf, wsock, flagged>>

Wait ==
  /\ \E t \in Targets : Hear(t) \/ TimeOut(t)
  /\ UNCHANGED <<server, ksock, kbuf, initial, naps, behind, stop, worker>>

AskData ==
  /\ wpc = "askData"
  /\ Convert("data")
  /\ wpc' = "data"
  /\ UNCHANGED <<owner, takes, kbuf, flagged, initial, naps, behind, stop, worker>>

\* The representation is fetched, its property deleted, the snapshot handed
\* to the handler.
Fetch ==
  /\ wpc = "fetch"
  /\ WatcherFills
  /\ wpc' = "return"
  /\ UNCHANGED <<server, ksock, kbuf, flagged, initial, naps, behind, stop, worker>>

\* A slip: the time of an owner is never over.
JudgeOn ==
  /\ wpc = "judge"
  /\ WatcherFills
  /\ \/ wpc' = "return" /\ UNCHANGED naps
     \/ owner = initial /\ owner # NoOne
        /\ wpc' = "ask" /\ naps' = naps + 1
  /\ UNCHANGED <<server, ksock, kbuf, flagged, initial, behind, stop, worker>>

\* Nothing could be read: the same owner is asked again until its time is
\* over; an owner that left or gave way ends the round.
Judge ==
  /\ wpc = "judge"
  /\ WatcherFills
  /\ \/ wpc' = "return" /\ UNCHANGED naps
     \/ owner = initial /\ owner # NoOne /\ naps < MaxNaps
        /\ wpc' = "ask" /\ naps' = naps + 1
  /\ UNCHANGED <<server, ksock, kbuf, flagged, initial, behind, stop, worker>>

\* The end of a round: another one, or rest.
Return ==
  /\ wpc = "return"
  /\ wpc' = IF initial = Baseline \/ (flagged /\ ~stop) THEN "drain" ELSE "rest"
  /\ initial' = NoOne /\ naps' = 0
  /\ UNCHANGED <<server, wsock, wbuf, ksock, kbuf, flagged, behind, stop, worker>>

\* poll wakes for what the socket holds.
Wake ==
  /\ wpc = "rest" /\ ~stop
  /\ wsock # <<>>
  /\ wpc' = "drain"
  /\ UNCHANGED <<server, wsock, wbuf, ksock, kbuf, flagged, initial, naps, behind, stop, worker>>

\* The shutdown is looked at before poll and wakes it.
Leave ==
  /\ wpc = "rest" /\ stop
  /\ wpc' = "stopped"
  /\ owed' = [t \in Targets |-> 0] /\ wsock' = <<>> /\ wbuf' = <<>>
  /\ flagged' = FALSE /\ behind' = FALSE
  /\ UNCHANGED <<owner, takes, ksock, kbuf, initial, naps, stop, worker>>

\* poll_for_event until there is none; a change, or one flagged before, starts a round.
Drain ==
  /\ wpc = "drain"
  /\ wpc' = IF flagged \/ Contains(wbuf \o wsock, "change") THEN "query" ELSE "rest"
  /\ wbuf' = <<>> /\ wsock' = <<>> /\ flagged' = FALSE
  /\ UNCHANGED <<server, ksock, kbuf, initial, naps, behind, stop, worker>>

\* The owner the round is about.
Query ==
  /\ wpc = "query"
  /\ WatcherFills
  /\ initial' = owner /\ wpc' = "ask"
  /\ UNCHANGED <<server, ksock, kbuf, flagged, naps, behind, stop, worker>>

\* The host shuts down: it is enough that it may before each look at it.
Shutdown ==
  /\ ~stop /\ wpc \in {"ask", "return", "rest"}
  /\ stop' = TRUE
  /\ UNCHANGED <<server, wsock, wbuf, ksock, kbuf, wpc, flagged, initial, naps, behind, worker>>

Watcher == Ask \/ Wait \/ AskData \/ Fetch \/ Judge \/ Return \/ Wake \/ Leave \/ Drain \/ Query

-----------------------------------------------------------------------------
(* The worker.                                                              *)

\* The engine asks: the request first, then the eventfd.  A request that comes
\* at another moment waits for this one.
Call ==
  /\ calls < MaxCalls /\ kpc \in {"requests", "rest"}
  /\ calls' = calls + 1
  /\ ~Contains(queue, "stop")
  /\ \E r \in {"write", "erase", "read", "stop"} : queue' = Append(queue, r)
  /\ woken' = TRUE
  /\ UNCHANGED <<server, wsock, wbuf, ksock, kbuf, watcher, kpc, held>>

WorkerFills(new) ==
  /\ kbuf' = kbuf \o ksock \o new
  /\ ksock' = <<>>

\* The answer to a paster: what is held, or a refusal.
Serve(t) == Tell(IF held THEN t ELSE Refusal(t))

\* The next event: someone pastes, or the selection is lost.
Handle(event) ==
  /\ IF event = "clear" THEN UNCHANGED wsock ELSE Serve(event)
  /\ held' = (held /\ event # "clear")

NextEvent ==
  LET all == kbuf \o ksock IN
  /\ kpc = "drain"
  /\ IF all = <<>>
     THEN kpc' = "requests" /\ UNCHANGED <<wsock, ksock, kbuf, held>>
     ELSE /\ Handle(Head(all))
          /\ kbuf' = Tail(all) /\ ksock' = <<>>
          /\ UNCHANGED kpc
  /\ UNCHANGED <<server, wbuf, watcher, queue, woken, calls>>

\* A slip: the wire is asked even for what is held.
ReadTheWire ==
  /\ kpc = "requests" /\ queue # <<>> /\ Head(queue) = "read"
  /\ queue' = Tail(queue)
  /\ kpc' = "reading" /\ WorkerFills(<<>>)
  /\ UNCHANGED <<server, wsock, wbuf, watcher, held, woken, calls>>

\* The next request.  A read is answered from what was written while the
\* selection is ours; a write may come to nothing before anything is touched.
Read ==
  /\ kpc = "requests" /\ queue # <<>> /\ Head(queue) = "read"
  /\ queue' = Tail(queue)
  /\ IF held THEN UNCHANGED <<kpc, ksock, kbuf>> ELSE kpc' = "reading" /\ WorkerFills(<<>>)
  /\ UNCHANGED <<server, wsock, wbuf, watcher, held, woken, calls>>

\* While the owner is awaited pasters are served and all else is dropped; the
\* answer or the deadline may come at any point.
Reading ==
  LET all == kbuf \o ksock IN
  /\ kpc = "reading"
  /\ \/ /\ all # <<>>
        /\ kbuf' = Tail(all) /\ ksock' = <<>>
        /\ IF Head(all) = "clear" THEN UNCHANGED wsock ELSE Serve(Head(all))
        /\ UNCHANGED kpc
     \/ /\ kpc' = "requests"
        /\ WorkerFills(<<>>) \/ UNCHANGED <<ksock, kbuf>>
        /\ UNCHANGED wsock
  /\ UNCHANGED <<server, wbuf, watcher, held, queue, woken, calls>>

Write ==
  /\ kpc = "requests" /\ queue # <<>> /\ Head(queue) = "write"
  /\ queue' = Tail(queue)
  /\ \/ held' = TRUE /\ kpc' = "own"
     \/ UNCHANGED <<held, kpc>>
  /\ UNCHANGED <<server, wsock, wbuf, ksock, kbuf, watcher, woken, calls>>

Own ==
  /\ kpc = "own"
  /\ SetOwner(Us)
  /\ WorkerFills(<<>>)
  /\ kpc' = "verify"
  /\ UNCHANGED <<takes, owed, wbuf, watcherVars, held, queue, woken, calls>>

\* A race that was lost is an error of the write.
Verify ==
  /\ kpc = "verify"
  /\ WorkerFills(<<>>)
  /\ held' = (held /\ owner = Us)
  /\ kpc' = "requests"
  /\ UNCHANGED <<server, wsock, wbuf, watcher, queue, woken, calls>>

\* An empty snapshot: nobody owns the selection any more.
Erase ==
  /\ kpc = "requests" /\ queue # <<>> /\ Head(queue) = "erase"
  /\ queue' = Tail(queue)
  /\ held' = FALSE
  /\ SetOwner(NoOne)
  /\ WorkerFills(Clears(NoOne))
  /\ UNCHANGED <<takes, owed, wbuf, watcherVars, kpc, woken, calls>>

\* The last request, when the handle is dropped: the connection closes, and
\* the selection is nobody's if it was ours.
Stop ==
  /\ kpc = "requests" /\ queue # <<>> /\ Head(queue) = "stop"
  /\ kpc' = "stopped" /\ held' = FALSE /\ queue' = <<>> /\ woken' = FALSE
  /\ ksock' = <<>> /\ kbuf' = <<>>
  /\ IF owner = Us THEN SetOwner(NoOne) ELSE UNCHANGED <<owner, wsock, behind>>
  /\ UNCHANGED <<takes, owed, wbuf, watcherVars, calls>>

\* Nothing is asked: poll, until the socket or the eventfd has something.
Rest ==
  /\ \/ kpc = "requests" /\ queue = <<>> /\ kpc' = "rest" /\ UNCHANGED woken
     \/ kpc = "rest" /\ (ksock # <<>> \/ woken) /\ kpc' = "drain" /\ woken' = FALSE
  /\ UNCHANGED <<server, wsock, wbuf, ksock, kbuf, watcher, held, queue, calls>>

Worker == NextEvent \/ Read \/ Reading \/ Write \/ Own \/ Verify \/ Erase \/ Stop \/ Rest

Next == Take \/ Answer \/ Shutdown \/ Call \/ Watcher \/ Worker

Spec == Init /\ [][Next]_vars

\* Both threads run on; applications and the engine need not.
FairSpec == Spec /\ WF_vars(Watcher) /\ WF_vars(Worker)

-----------------------------------------------------------------------------
(* Properties.                                                              *)

\* The watcher never sleeps on a change it has consumed: when it rests, a
\* read began after the last change of the owner, unless the word of that
\* change is still unread (selection_changed, pending_change).
NoChangeIsForgotten ==
  wpc = "rest" /\ ~stop /\ ~Contains(wbuf \o wsock, "change") => ~behind

\* What the worker serves and answers reads from is the selection's, or the
\* word that it is not any more is on its way (worker_main, install_snapshot).
HeldIsOwned ==
  held /\ kpc # "own" => owner = Us \/ Contains(kbuf \o ksock, "clear")

-----------------------------------------------------------------------------
(* What makes the two inductive.                                            *)

\* A change no read has begun after is known somewhere: in the flag, in a queue,
\* or to the read that is about to begin.
WordIsKept ==
  behind => stop \/ flagged \/ Contains(wbuf \o wsock, "change") \/ wpc \in {"query", "ask"}

\* The flag is consumed before the watcher rests, and only a shutdown stops it.
RestsUnflagged ==
  /\ wpc = "rest" /\ flagged => stop
  /\ wpc = "stopped" => stop

\* The wire is asked only for what the worker does not hold: the events dropped
\* meanwhile cannot be the loss of something held.
ReadsHoldNothing == kpc = "reading" => ~held

X11Inv == TypeOK /\ WordIsKept /\ RestsUnflagged /\ ReadsHoldNothing /\ HeldIsOwned

-----------------------------------------------------------------------------
(* What the source's comments say and these steps do not keep.              *)

\* "without it a clipboard change landing mid-read is dropped permanently"
\* (ReadContext): with the flag, every change is followed by a read.
ChangesAreRead ==
  behind ~> (~behind \/ stop)

\* "surface "we lost the race" as an error rather than silently writing
\* payloads no one will read" (install_snapshot): the selection we own is one
\* we can serve.
OwnedIsServed == kpc = "rest" /\ owner = Us => held

\* It is kept where the worker has seen every loss before it owns again: the word
\* of an earlier loss is the only one that empties a state just installed.
OwnsCaughtUp == [][Own => ~Contains(kbuf \o ksock, "clear")]_vars

OwnedIsHeld ==
  /\ owner = Us => held /\ ~Contains(kbuf \o ksock, "clear")
  /\ kpc = "own" => held
=============================================================================
