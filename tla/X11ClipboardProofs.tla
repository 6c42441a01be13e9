------------------------- MODULE X11ClipboardProofs -------------------------
(***************************************************************************)
(* For any applications and any bounds: the types, that the watcher never  *)
(* rests on a change whose word it has read, and that what the worker      *)
(* holds is the selection's or is known to be lost.                        *)
(***************************************************************************)
EXTENDS X11Clipboard, TLAPS

-----------------------------------------------------------------------------
(* Queues of events, as x11rb and the socket pass them on.                  *)

\* A queue is of the elements it holds.
LEMMA Emptied ==
  ASSUME NEW S
  PROVE  <<>> \in Seq(S) /\ \A e : ~Contains(<<>>, e)
  BY DEF Contains

LEMMA Single ==
  ASSUME NEW S, NEW d \in S
  PROVE  <<d>> \in Seq(S) /\ \A e : Contains(<<d>>, e) <=> e = d
  BY DEF Contains

LEMMA Joined ==
  ASSUME NEW S, NEW q \in Seq(S), NEW r \in Seq(S)
  PROVE  /\ q \o r \in Seq(S)
         /\ \A e : Contains(q \o r, e) <=> Contains(q, e) \/ Contains(r, e)
  <1> q \o r \in Seq(S) /\ Len(q \o r) = Len(q) + Len(r) /\ Len(q) \in Nat /\ Len(r) \in Nat
    OBVIOUS
  <1>1. ASSUME NEW e, Contains(q \o r, e) PROVE Contains(q, e) \/ Contains(r, e)
    <2>1. PICK i \in 1..Len(q \o r) : (q \o r)[i] = e
      BY <1>1 DEF Contains
    <2>2. CASE i <= Len(q)
      <3>1. i \in 1..Len(q) /\ q[i] = e
        BY <2>1, <2>2
      <3>2. QED BY <3>1 DEF Contains
    <2>3. CASE i > Len(q)
      <3>1. i - Len(q) \in 1..Len(r) /\ r[i - Len(q)] = e
        BY <2>1, <2>3
      <3>2. QED BY <3>1 DEF Contains
    <2>4. QED BY <2>2, <2>3
  <1>2. ASSUME NEW e, Contains(q, e) PROVE Contains(q \o r, e)
    <2>1. PICK i \in 1..Len(q) : q[i] = e
      BY <1>2 DEF Contains
    <2>2. i \in 1..Len(q \o r) /\ (q \o r)[i] = e
      BY <2>1
    <2>3. QED BY <2>2 DEF Contains
  <1>3. ASSUME NEW e, Contains(r, e) PROVE Contains(q \o r, e)
    <2>1. PICK i \in 1..Len(r) : r[i] = e
      BY <1>3 DEF Contains
    <2>2. i + Len(q) \in 1..Len(q \o r) /\ (q \o r)[i + Len(q)] = e
      BY <2>1
    <2>3. QED BY <2>2 DEF Contains
  <1>4. QED BY <1>1, <1>2, <1>3

LEMMA Appended ==
  ASSUME NEW S, NEW q \in Seq(S), NEW d \in S
  PROVE  /\ Append(q, d) \in Seq(S)
         /\ \A e : Contains(Append(q, d), e) <=> Contains(q, e) \/ e = d
  <1>1. Append(q, d) = q \o <<d>> /\ Append(q, d) \in Seq(S)
    OBVIOUS
  <1>2. <<d>> \in Seq(S) /\ \A e : Contains(<<d>>, e) <=> e = d
    BY Single
  <1>3. \A e : Contains(q \o <<d>>, e) <=> Contains(q, e) \/ Contains(<<d>>, e)
    BY <1>2, Joined
  <1>4. QED BY <1>1, <1>2, <1>3

LEMMA HeadAndTail ==
  ASSUME NEW S, NEW q \in Seq(S), q # <<>>
  PROVE  /\ Head(q) \in S /\ Tail(q) \in Seq(S)
         /\ \A e : Contains(q, e) <=> e = Head(q) \/ Contains(Tail(q), e)
  <1>1. Head(q) \in S /\ Tail(q) \in Seq(S) /\ q = <<Head(q)>> \o Tail(q)
    OBVIOUS
  <1>2. <<Head(q)>> \in Seq(S) /\ \A e : Contains(<<Head(q)>>, e) <=> e = Head(q)
    BY <1>1, Single
  <1>3. \A e : Contains(<<Head(q)>> \o Tail(q), e)
                 <=> Contains(<<Head(q)>>, e) \/ Contains(Tail(q), e)
    BY <1>1, <1>2, Joined
  <1>4. QED BY <1>1, <1>2, <1>3

\* The watcher's and the worker's events.
WEvents == Targets \cup {Refusal(t) : t \in Targets} \cup {"change"}
KEvents == Targets \cup {"clear"}

LEMMA Events ==
  /\ WEvents = {"targets", "data", "noTargets", "noData", "change"}
  /\ KEvents = {"targets", "data", "clear"}
  /\ \A t \in Targets : t \in WEvents /\ Refusal(t) \in WEvents /\ t \in KEvents
  BY DEF WEvents, KEvents, Targets, Refusal

\* The lemmas above for one set of events, as the steps use them.
Passes(S) ==
  /\ <<>> \in Seq(S) /\ \A e : ~Contains(<<>>, e)
  /\ \A d \in S : <<d>> \in Seq(S) /\ \A e : Contains(<<d>>, e) <=> e = d
  /\ \A q, r \in Seq(S) :
       q \o r \in Seq(S) /\ \A e : Contains(q \o r, e) <=> Contains(q, e) \/ Contains(r, e)
  /\ \A q \in Seq(S), d \in S :
       Append(q, d) \in Seq(S) /\ \A e : Contains(Append(q, d), e) <=> Contains(q, e) \/ e = d
  /\ \A q \in Seq(S) : q # <<>> =>
       /\ Head(q) \in S /\ Tail(q) \in Seq(S)
       /\ \A e : Contains(q, e) <=> e = Head(q) \/ Contains(Tail(q), e)

LEMMA QueuesPass == \A S : Passes(S)
  BY Emptied, Single, Joined, Appended, HeadAndTail DEF Passes

-----------------------------------------------------------------------------
(* The types, a group of variables at a time.                              *)

Requests == {"write", "erase", "read", "stop"}

TypeServer ==
  owner \in Owners /\ takes \in 0..MaxTakes /\ owed \in [Targets -> 0..MaxOwed]
TypeQueues ==
  wsock \in Seq(WEvents) /\ wbuf \in Seq(WEvents) /\ ksock \in Seq(KEvents) /\ kbuf \in Seq(KEvents)
TypeWatcher ==
  /\ wpc \in {"ask", "targets", "askData", "data", "fetch", "judge", "return", "drain", "query",
              "rest", "stopped"}
  /\ flagged \in BOOLEAN /\ behind \in BOOLEAN /\ stop \in BOOLEAN
  /\ initial \in Owners \cup {Baseline} /\ naps \in 0..MaxNaps
TypeWorker ==
  /\ held \in BOOLEAN /\ woken \in BOOLEAN
  /\ kpc \in {"drain", "requests", "own", "verify", "reading", "rest", "stopped"}
  /\ queue \in Seq(Requests) /\ calls \in 0..MaxCalls

LEMMA TypesGrouped == TypeOK <=> TypeServer /\ TypeQueues /\ TypeWatcher /\ TypeWorker
  BY DEF TypeOK, TypeServer, TypeQueues, TypeWatcher, TypeWorker, WEvents, KEvents, Requests

LEMMA Bounds ==
  /\ MaxTakes \in Nat /\ MaxCalls \in Nat /\ MaxNaps \in Nat /\ MaxOwed \in Nat
  /\ Us \notin Apps /\ NoOne \notin Apps /\ NoOne # Us
  BY X11Assumption DEF X11Assumption

LEMMA TypeStart == Init => TypeOK
  <1> SUFFICES ASSUME Init PROVE TypeServer /\ TypeQueues /\ TypeWatcher /\ TypeWorker
    BY TypesGrouped
  <1> USE Bounds
  <1>1. TypeServer BY DEF Init, TypeServer, Owners
  <1>2. TypeQueues BY Emptied DEF Init, TypeQueues
  <1>3. TypeWatcher
    <2>1. wpc = "ask" /\ initial = Baseline /\ naps = 0 BY DEF Init
    <2>2. flagged = FALSE /\ behind = FALSE /\ stop = FALSE BY DEF Init
    <2>3. naps \in 0..MaxNaps BY <2>1
    <2>4. QED BY <2>1, <2>2, <2>3 DEF TypeWatcher
  <1>4. TypeWorker
    <2>1. kpc = "drain" /\ queue = <<>> /\ calls = 0 BY DEF Init
    <2>2. held = FALSE /\ woken = FALSE BY DEF Init
    <2>3. queue \in Seq(Requests) /\ calls \in 0..MaxCalls BY <2>1, Emptied
    <2>4. QED BY <2>1, <2>2, <2>3 DEF TypeWorker
  <1>5. QED BY <1>1, <1>2, <1>3, <1>4

\* What another client's step and the worker's change of owner do to the types.
LEMMA Telling ==
  ASSUME wsock \in Seq(WEvents), NEW e \in WEvents, Tell(e)
  PROVE  wsock' \in Seq(WEvents)
  <1>1. <<>> \in Seq(WEvents) /\ Append(wsock, e) \in Seq(WEvents)
    BY Emptied, Appended
  <1>2. QED BY <1>1 DEF Tell

LEMMA Clearing == \A o : Clears(o) \in Seq(KEvents)
  BY Emptied, Single, Events DEF Clears

LEMMA ServerStep == TypeOK /\ [Next]_vars => TypeServer'
  <1> SUFFICES ASSUME TypeServer, TypeWatcher, [Next]_vars PROVE TypeServer'
    BY TypesGrouped
  <1> USE Bounds DEF TypeServer, server, vars, Owners
  <1>1. CASE Take
    BY <1>1 DEF Take, SetOwner
  <1>2. CASE Answer
    BY <1>2 DEF Answer
  <1>3. CASE Shutdown
    BY <1>3 DEF Shutdown
  <1>4. CASE Call
    BY <1>4 DEF Call
  <1>5. CASE Ask
    BY <1>5 DEF Ask, Convert, Targets
  <1>6. CASE Wait
    BY <1>6 DEF Wait
  <1>7. CASE AskData
    BY <1>7 DEF AskData, Convert, Targets
  <1>8. CASE Fetch
    BY <1>8 DEF Fetch
  <1>9. CASE Judge
    BY <1>9 DEF Judge
  <1>10. CASE Return
    BY <1>10 DEF Return
  <1>11. CASE Wake
    BY <1>11 DEF Wake
  <1>12. CASE Leave
    BY <1>12 DEF Leave
  <1>13. CASE Drain
    BY <1>13 DEF Drain
  <1>14. CASE Query
    BY <1>14 DEF Query
  <1>15. CASE NextEvent
    BY <1>15 DEF NextEvent
  <1>16. CASE Read
    BY <1>16 DEF Read
  <1>17. CASE Reading
    BY <1>17 DEF Reading
  <1>18. CASE Write
    BY <1>18 DEF Write
  <1>19. CASE Own
    BY <1>19 DEF Own, SetOwner
  <1>20. CASE Verify
    BY <1>20 DEF Verify
  <1>21. CASE Erase
    BY <1>21 DEF Erase, SetOwner
  <1>22. CASE Stop
    BY <1>22 DEF Stop, SetOwner
  <1>23. CASE Rest
    BY <1>23 DEF Rest
  <1>24. CASE UNCHANGED vars
    BY <1>24
  <1>25. QED
    BY <1>1, <1>2, <1>3, <1>4, <1>5, <1>6, <1>7, <1>8, <1>9, <1>10, <1>11, <1>12, <1>13, <1>14, <1>15, <1>16, <1>17, <1>18, <1>19, <1>20, <1>21, <1>22, <1>23, <1>24 DEF Next, Watcher, Worker

LEMMA WatcherStep == TypeOK /\ [Next]_vars => TypeWatcher'
  <1> SUFFICES ASSUME TypeServer, TypeWatcher, [Next]_vars PROVE TypeWatcher'
    BY TypesGrouped
  <1> USE Bounds DEF TypeWatcher, watcherVars, watcher, vars
  <1>1. CASE Take
    BY <1>1 DEF Take, SetOwner
  <1>2. CASE Answer
    BY <1>2 DEF Answer
  <1>3. CASE Shutdown
    BY <1>3 DEF Shutdown
  <1>4. CASE Call
    BY <1>4 DEF Call
  <1>5. CASE Ask
    BY <1>5 DEF Ask
  <1>6. CASE Wait
    BY <1>6 DEF Wait, Hear, TimeOut, Targets, Refusal
  <1>7. CASE AskData
    BY <1>7 DEF AskData
  <1>8. CASE Fetch
    BY <1>8 DEF Fetch
  <1>9. CASE Judge
    BY <1>9 DEF Judge
  <1>10. CASE Return
    BY <1>10 DEF Return, Owners
  <1>11. CASE Wake
    BY <1>11 DEF Wake
  <1>12. CASE Leave
    BY <1>12 DEF Leave
  <1>13. CASE Drain
    BY <1>13 DEF Drain
  <1>14. CASE Query
    BY <1>14 DEF Query, TypeServer
  <1>15. CASE NextEvent
    BY <1>15 DEF NextEvent
  <1>16. CASE Read
    BY <1>16 DEF Read
  <1>17. CASE Reading
    BY <1>17 DEF Reading
  <1>18. CASE Write
    BY <1>18 DEF Write
  <1>19. CASE Own
    BY <1>19 DEF Own, SetOwner
  <1>20. CASE Verify
    BY <1>20 DEF Verify
  <1>21. CASE Erase
    BY <1>21 DEF Erase, SetOwner
  <1>22. CASE Stop
    BY <1>22 DEF Stop, SetOwner
  <1>23. CASE Rest
    BY <1>23 DEF Rest
  <1>24. CASE UNCHANGED vars
    BY <1>24
  <1>25. QED
    BY <1>1, <1>2, <1>3, <1>4, <1>5, <1>6, <1>7, <1>8, <1>9, <1>10, <1>11, <1>12, <1>13, <1>14, <1>15, <1>16, <1>17, <1>18, <1>19, <1>20, <1>21, <1>22, <1>23, <1>24 DEF Next, Watcher, Worker

LEMMA WorkerStep == TypeOK /\ [Next]_vars => TypeWorker'
  <1> SUFFICES ASSUME TypeWorker, [Next]_vars PROVE TypeWorker'
    BY TypesGrouped
  <1> USE Bounds DEF TypeWorker, worker, vars
  <1>queue. /\ <<>> \in Seq(Requests)
        /\ \A r \in Requests : Append(queue, r) \in Seq(Requests)
        /\ queue # <<>> => Tail(queue) \in Seq(Requests)
    BY QueuesPass DEF Passes
  <1>1. CASE Take
    BY <1>1, <1>queue DEF Take
  <1>2. CASE Answer
    BY <1>2, <1>queue DEF Answer
  <1>3. CASE Shutdown
    BY <1>3, <1>queue DEF Shutdown
  <1>4. CASE Call
    BY <1>4, <1>queue DEF Call, Requests
  <1>5. CASE Ask
    BY <1>5, <1>queue DEF Ask
  <1>6. CASE Wait
    BY <1>6, <1>queue DEF Wait
  <1>7. CASE AskData
    BY <1>7, <1>queue DEF AskData
  <1>8. CASE Fetch
    BY <1>8, <1>queue DEF Fetch
  <1>9. CASE Judge
    BY <1>9, <1>queue DEF Judge
  <1>10. CASE Return
    BY <1>10, <1>queue DEF Return
  <1>11. CASE Wake
    BY <1>11, <1>queue DEF Wake
  <1>12. CASE Leave
    BY <1>12, <1>queue DEF Leave
  <1>13. CASE Drain
    BY <1>13, <1>queue DEF Drain
  <1>14. CASE Query
    BY <1>14, <1>queue DEF Query
  <1>15. CASE NextEvent
    BY <1>15, <1>queue DEF NextEvent, Handle
  <1>16. CASE Read
    BY <1>16, <1>queue DEF Read
  <1>17. CASE Reading
    BY <1>17, <1>queue DEF Reading
  <1>18. CASE Write
    <2>1. queue' \in Seq(Requests) BY <1>18, <1>queue DEF Write
    <2>2. held' \in BOOLEAN /\ kpc' \in {"requests", "own"} BY <1>18 DEF Write
    <2>3. QED BY <2>1, <2>2, <1>18 DEF Write
  <1>19. CASE Own
    BY <1>19, <1>queue DEF Own
  <1>20. CASE Verify
    BY <1>20, <1>queue DEF Verify
  <1>21. CASE Erase
    <2>1. queue' \in Seq(Requests) BY <1>21, <1>queue DEF Erase
    <2>2. held' \in BOOLEAN /\ kpc' = kpc BY <1>21 DEF Erase
    <2>3. QED BY <2>1, <2>2, <1>21 DEF Erase
  <1>22. CASE Stop
    BY <1>22, <1>queue DEF Stop
  <1>23. CASE Rest
    BY <1>23, <1>queue DEF Rest
  <1>24. CASE UNCHANGED vars
    BY <1>24, <1>queue
  <1>25. QED
    BY <1>1, <1>2, <1>3, <1>4, <1>5, <1>6, <1>7, <1>8, <1>9, <1>10, <1>11, <1>12, <1>13, <1>14, <1>15, <1>16, <1>17, <1>18, <1>19, <1>20, <1>21, <1>22, <1>23, <1>24 DEF Next, Watcher, Worker

LEMMA QueuesStep == TypeOK /\ [Next]_vars => TypeQueues'
  <1> SUFFICES ASSUME TypeServer, TypeQueues, TypeWatcher, [Next]_vars PROVE TypeQueues'
    BY TypesGrouped
  <1> USE DEF TypeQueues, server, worker, watcher, watcherVars, vars
  <1>pass. Passes(WEvents) /\ Passes(KEvents)
    BY QueuesPass
  <1>owns. \A o : SetOwner(o) => wsock' \in Seq(WEvents)
    BY Telling, Events DEF SetOwner
  <1>serves. \A t \in Targets : Serve(t) => wsock' \in Seq(WEvents)
    BY Telling, Events DEF Serve
  <1>fills. WatcherFills => wsock' \in Seq(WEvents) /\ wbuf' \in Seq(WEvents)
    BY <1>pass DEF WatcherFills, Passes
  <1>works. \A n \in Seq(KEvents) : WorkerFills(n) => ksock' \in Seq(KEvents) /\ kbuf' \in Seq(KEvents)
    BY <1>pass DEF WorkerFills, Passes
  <1>clears. <<>> \in Seq(KEvents) /\ \A o : Clears(o) \in Seq(KEvents)
    BY Emptied, Clearing
  <1>converts. \A t \in Targets : Convert(t) => wsock' \in Seq(WEvents) /\ wbuf' \in Seq(WEvents) /\ ksock' \in Seq(KEvents)
    <2> SUFFICES ASSUME NEW t \in Targets, Convert(t)
                 PROVE  wsock' \in Seq(WEvents) /\ wbuf' \in Seq(WEvents) /\ ksock' \in Seq(KEvents)
      OBVIOUS
    <2>1. <<>> \in Seq(WEvents) /\ <<Refusal(t)>> \in Seq(WEvents) /\ wbuf \o wsock \in Seq(WEvents)
      BY <1>pass, Events DEF Passes
    <2>2. (wbuf \o wsock) \o <<>> \in Seq(WEvents) /\ (wbuf \o wsock) \o <<Refusal(t)>> \in Seq(WEvents)
      BY <2>1, <1>pass DEF Passes
    <2>3. Append(ksock, t) \in Seq(KEvents)
      BY <1>pass, Events DEF Passes
    <2>4. QED BY <2>1, <2>2, <2>3 DEF Convert
  <1>targets. "targets" \in Targets /\ "data" \in Targets
    BY DEF Targets
  <1>1. CASE Take
    <2>1. PICK o \in Apps \cup {NoOne} : SetOwner(o) /\ ksock' = ksock \o Clears(o)
      BY <1>1 DEF Take
    <2>2. ksock' \in Seq(KEvents)
      BY <2>1, <1>clears, <1>pass DEF Passes
    <2>3. QED BY <2>1, <2>2, <1>owns, <1>1 DEF Take
  <1>2. CASE Answer
    BY <1>2, Telling, Events DEF Answer
  <1>3. CASE Ask
    BY <1>3, <1>converts, <1>targets DEF Ask
  <1>4. CASE Wait
    <2>1. PICK t \in Targets : Hear(t) \/ TimeOut(t)
      BY <1>4 DEF Wait
    <2>2. CASE TimeOut(t)
      BY <2>2, <1>4 DEF Wait, TimeOut
    <2>3. CASE Hear(t)
      <3>1. wbuf \o wsock \in Seq(WEvents) /\ <<>> \in Seq(WEvents)
        BY <1>pass DEF Passes
      <3>2. wbuf' \in Seq(WEvents) /\ wsock' \in Seq(WEvents)
        BY <2>3, <3>1, <1>pass DEF Hear, Passes
      <3>3. QED BY <3>2, <1>4 DEF Wait
    <2>4. QED BY <2>1, <2>2, <2>3
  <1>5. CASE AskData
    BY <1>5, <1>converts, <1>targets DEF AskData
  <1>6. CASE Fetch \/ Judge \/ Query
    BY <1>6, <1>fills DEF Fetch, Judge, Query
  <1>7. CASE Leave \/ Drain
    BY <1>7, <1>pass DEF Leave, Drain, Passes
  <1>8. CASE NextEvent
    <2>0. kbuf \o ksock \in Seq(KEvents)
      BY <1>pass DEF Passes
    <2>1. CASE kbuf \o ksock = <<>>
      BY <1>8, <2>1 DEF NextEvent
    <2>2. CASE kbuf \o ksock # <<>>
      <3>1. Head(kbuf \o ksock) \in KEvents /\ Tail(kbuf \o ksock) \in Seq(KEvents) /\ <<>> \in Seq(KEvents)
        BY <2>0, <2>2, <1>pass DEF Passes
      <3>2. Handle(Head(kbuf \o ksock)) /\ kbuf' = Tail(kbuf \o ksock) /\ ksock' = <<>> /\ wbuf' = wbuf
        BY <1>8, <2>2 DEF NextEvent
      <3>3. Head(kbuf \o ksock) # "clear" => Head(kbuf \o ksock) \in Targets
        BY <3>1 DEF KEvents
      <3>4. wsock' \in Seq(WEvents)
        BY <3>2, <3>3, <1>serves DEF Handle
      <3>5. QED BY <3>1, <3>2, <3>4
    <2>3. QED BY <2>1, <2>2
  <1>9. CASE Read
    BY <1>9, <1>works, <1>clears DEF Read
  <1>10. CASE Reading
    <2>0. kbuf \o ksock \in Seq(KEvents)
      BY <1>pass DEF Passes
    <2>1. CASE kpc' = "requests" /\ UNCHANGED wsock /\ (WorkerFills(<<>>) \/ UNCHANGED <<ksock, kbuf>>)
      BY <1>10, <2>1, <1>works, <1>clears DEF Reading
    <2>2. CASE /\ kbuf \o ksock # <<>>
               /\ kbuf' = Tail(kbuf \o ksock) /\ ksock' = <<>>
               /\ IF Head(kbuf \o ksock) = "clear" THEN UNCHANGED wsock ELSE Serve(Head(kbuf \o ksock))
      <3>1. Head(kbuf \o ksock) \in KEvents /\ Tail(kbuf \o ksock) \in Seq(KEvents) /\ <<>> \in Seq(KEvents)
        BY <2>0, <2>2, <1>pass DEF Passes
      <3>2. Head(kbuf \o ksock) # "clear" => Head(kbuf \o ksock) \in Targets
        BY <3>1 DEF KEvents
      <3>3. wsock' \in Seq(WEvents) /\ wbuf' = wbuf
        BY <1>10, <2>2, <3>2, <1>serves DEF Reading
      <3>4. QED BY <2>2, <3>1, <3>3
    <2>3. QED BY <1>10, <2>1, <2>2 DEF Reading
  <1>11. CASE Own
    BY <1>11, <1>owns, <1>works, <1>clears DEF Own
  <1>12. CASE Verify
    BY <1>12, <1>works, <1>clears DEF Verify
  <1>13. CASE Erase
    BY <1>13, <1>owns, <1>works, <1>clears DEF Erase
  <1>14. CASE Stop
    BY <1>14, <1>owns, <1>clears DEF Stop
  <1>15. CASE Shutdown \/ Call \/ Return \/ Wake \/ Write \/ Rest \/ UNCHANGED vars
    BY <1>15 DEF Shutdown, Call, Return, Wake, Write, Rest
  <1>16. QED
    BY <1>1, <1>2, <1>3, <1>4, <1>5, <1>6, <1>7, <1>8, <1>9, <1>10, <1>11, <1>12, <1>13, <1>14, <1>15 DEF Next, Watcher, Worker

LEMMA TypeStep == TypeOK /\ [Next]_vars => TypeOK'
  <1>1. TypeOK' <=> TypeServer' /\ TypeQueues' /\ TypeWatcher' /\ TypeWorker'
    BY TypesGrouped, PTL
  <1>2. QED BY <1>1, ServerStep, QueuesStep, WatcherStep, WorkerStep

-----------------------------------------------------------------------------
(* The watcher: the word of a change is kept until a read follows it.       *)

Kept == Contains(wbuf \o wsock, "change")

\* What is told joins what is kept, and a change of the owner is told to a watcher
\* that runs.
LEMMA TellingKeeps ==
  ASSUME TypeQueues, RestsUnflagged, NEW e \in WEvents, Tell(e), wbuf' = wbuf
  PROVE  wpc # "stopped" => (Kept' <=> Kept \/ e = "change")
  <1> SUFFICES ASSUME wpc # "stopped" PROVE Kept' <=> Kept \/ e = "change"
    OBVIOUS
  <1>1. wsock' = Append(wsock, e)
    BY DEF Tell
  <1>2. Append(wsock, e) \in Seq(WEvents)
    BY Appended DEF TypeQueues
  <1>3. Contains(wbuf \o Append(wsock, e), "change")
          <=> Contains(wbuf, "change") \/ Contains(Append(wsock, e), "change")
    BY <1>2, Joined DEF TypeQueues
  <1>4. Contains(Append(wsock, e), "change") <=> Contains(wsock, "change") \/ e = "change"
    BY Appended DEF TypeQueues
  <1>5. Kept <=> Contains(wbuf, "change") \/ Contains(wsock, "change")
    BY Joined DEF Kept, TypeQueues
  <1>6. QED BY <1>1, <1>3, <1>4, <1>5 DEF Kept

LEMMA OwnerIsTold ==
  ASSUME TypeQueues, TypeWatcher, RestsUnflagged, NEW o, SetOwner(o), wbuf' = wbuf,
         wpc' = wpc, stop' = stop, flagged' = flagged
  PROVE  WordIsKept' /\ RestsUnflagged'
  <1>1. wpc # "stopped" => Kept'
    BY TellingKeeps, Events DEF SetOwner
  <1>2. behind' => wpc # "stopped"
    BY DEF SetOwner
  <1>3. QED BY <1>1, <1>2 DEF WordIsKept, RestsUnflagged, Kept

LEMMA AnswerIsTold ==
  ASSUME TypeQueues, TypeWatcher, WordIsKept, RestsUnflagged, NEW e \in WEvents, Tell(e),
         UNCHANGED <<wbuf, wpc, stop, flagged, behind>>
  PROVE  WordIsKept' /\ RestsUnflagged'
  <1>1. wpc # "stopped" => (Kept => Kept')
    BY TellingKeeps
  <1>2. QED BY <1>1 DEF WordIsKept, RestsUnflagged, Kept

\* A round trip moves the events and loses none.
LEMMA FillingKeeps ==
  ASSUME TypeQueues, NEW r \in Seq(WEvents), wbuf' = wbuf \o wsock \o r, wsock' = <<>>
  PROVE  Kept => Kept'
  <1>1. Passes(WEvents) /\ wbuf \o wsock \in Seq(WEvents) /\ <<>> \in Seq(WEvents)
    BY QueuesPass DEF Passes, TypeQueues
  <1>2. wbuf' \in Seq(WEvents) /\ (Kept => Contains(wbuf', "change"))
    BY <1>1 DEF Passes, Kept
  <1>3. QED BY <1>1, <1>2 DEF Passes, Kept

LEMMA WordStep ==
  ASSUME TypeOK, WordIsKept, RestsUnflagged, [Next]_vars
  PROVE  WordIsKept' /\ RestsUnflagged'
  <1> TypeServer /\ TypeQueues /\ TypeWatcher /\ TypeWorker
    BY TypesGrouped
  <1> USE DEF server, worker, watcher, watcherVars, vars
  <1>pass. Passes(WEvents) /\ <<>> \in Seq(WEvents) /\ wbuf \o wsock \in Seq(WEvents)
    BY QueuesPass DEF Passes, TypeQueues
  <1>fills. WatcherFills => (Kept => Kept')
    <2> SUFFICES ASSUME WatcherFills PROVE Kept => Kept'
      OBVIOUS
    <2>1. wbuf' = wbuf \o wsock /\ wsock' = <<>>
      BY DEF WatcherFills
    <2>2. Contains(wbuf' \o wsock', "change") <=> Contains(wbuf', "change") \/ Contains(wsock', "change")
      BY <2>1, <1>pass DEF Passes
    <2>3. QED BY <2>1, <2>2, <1>pass DEF Kept
  <1>converts. \A t \in Targets : Convert(t) => (Kept => Kept')
    <2> SUFFICES ASSUME NEW t \in Targets, Convert(t) PROVE Kept => Kept'
      OBVIOUS
    <2>1. <<Refusal(t)>> \in Seq(WEvents)
      BY Single, Events
    <2>2. (IF owner = NoOne THEN <<Refusal(t)>> ELSE <<>>) \in Seq(WEvents)
      BY <2>1, <1>pass
    <2>3. QED BY <2>2, FillingKeeps DEF Convert
  <1>serves. ASSUME NEW t \in Targets, Serve(t), UNCHANGED <<wbuf, wpc, stop, flagged, behind>>
             PROVE  WordIsKept' /\ RestsUnflagged'
    <2>1. PICK e \in WEvents : Tell(e)
      BY <1>serves, Events DEF Serve
    <2>2. QED BY <2>1, <1>serves, AnswerIsTold
  <1>events. /\ \A e \in KEvents : e # "clear" => e \in Targets
             /\ \A q \in Seq(KEvents) : q # <<>> => Head(q) \in KEvents
             /\ kbuf \o ksock \in Seq(KEvents)
    BY QueuesPass DEF KEvents, Passes, TypeQueues
  <1>quiet. ASSUME UNCHANGED <<wbuf, wsock, wpc, stop, flagged, behind>>
            PROVE  WordIsKept' /\ RestsUnflagged'
    BY <1>quiet DEF WordIsKept, RestsUnflagged
  <1>1. CASE Take
    BY <1>1, OwnerIsTold DEF Take
  <1>2. CASE Answer
    <2>1. PICK e \in WEvents : Tell(e)
      BY <1>2, Events DEF Answer
    <2>2. QED BY <2>1, <1>2, AnswerIsTold DEF Answer
  <1>3. CASE Shutdown
    BY <1>3 DEF Shutdown, WordIsKept, RestsUnflagged
  <1>4. CASE Ask
    BY <1>4 DEF Ask, WordIsKept, RestsUnflagged
  <1>5. CASE Wait
    <2>1. PICK t \in Targets : Hear(t) \/ TimeOut(t)
      BY <1>5 DEF Wait
    <2>2. CASE TimeOut(t)
      BY <2>2, <1>5, Events DEF Wait, TimeOut, WordIsKept, RestsUnflagged, Targets
    <2>3. CASE Hear(t)
      <3> DEFINE all == wbuf \o wsock
      <3>1. /\ all # <<>> /\ wbuf' = Tail(all) /\ wsock' = <<>> /\ wpc = t
            /\ flagged' = (flagged \/ Head(all) = "change")
            /\ wpc' \in {"askData", "fetch", "judge", t}
            /\ UNCHANGED <<stop, behind>>
        BY <2>3, <1>5 DEF Hear, Wait
      <3>2. Tail(all) \in Seq(WEvents) /\ (Kept <=> Head(all) = "change" \/ Contains(Tail(all), "change"))
        BY <3>1, <1>pass DEF Passes, Kept
      <3>3. Kept' <=> Contains(Tail(all), "change")
        BY <3>1, <3>2, <1>pass DEF Passes, Kept
      <3>4. WordIsKept'
        BY <3>1, <3>2, <3>3, Events DEF WordIsKept, Kept, Targets
      <3>5. RestsUnflagged'
        BY <3>1 DEF RestsUnflagged, Targets
      <3>6. QED BY <3>4, <3>5
    <2>4. QED BY <2>1, <2>2, <2>3
  <1>6. CASE AskData
    <2>1. Kept => Kept'
      BY <1>6, <1>converts DEF AskData, Targets
    <2>2. QED BY <2>1, <1>6 DEF AskData, WordIsKept, RestsUnflagged, Kept
  <1>7. CASE Fetch \/ Judge
    <2>1. Kept => Kept'
      BY <1>7, <1>fills DEF Fetch, Judge
    <2>2. QED BY <2>1, <1>7 DEF Fetch, Judge, WordIsKept, RestsUnflagged, Kept
  <1>8. CASE Query
    BY <1>8 DEF Query, WordIsKept, RestsUnflagged
  <1>9. CASE Return
    BY <1>9 DEF Return, WordIsKept, RestsUnflagged
  <1>10. CASE Wake
    BY <1>10 DEF Wake, WordIsKept, RestsUnflagged
  <1>11. CASE Leave
    BY <1>11 DEF Leave, WordIsKept, RestsUnflagged
  <1>12. CASE Drain
    BY <1>12 DEF Drain, WordIsKept, RestsUnflagged
  <1>13. CASE NextEvent
    <2>1. CASE UNCHANGED wsock
      BY <2>1, <1>13, <1>quiet DEF NextEvent
    <2>2. CASE wsock' # wsock
      <3>1. PICK t \in Targets : Serve(t)
        BY <2>2, <1>13, <1>events DEF NextEvent, Handle
      <3>2. QED BY <3>1, <1>13, <1>serves DEF NextEvent
    <2>3. QED BY <2>1, <2>2
  <1>14. CASE Reading
    <2>1. CASE UNCHANGED wsock
      BY <2>1, <1>14, <1>quiet DEF Reading
    <2>2. CASE wsock' # wsock
      <3>1. PICK t \in Targets : Serve(t)
        BY <2>2, <1>14, <1>events DEF Reading
      <3>2. QED BY <3>1, <1>14, <1>serves DEF Reading
    <2>3. QED BY <2>1, <2>2
  <1>15. CASE Own
    BY <1>15, OwnerIsTold DEF Own
  <1>16. CASE Erase
    BY <1>16, OwnerIsTold DEF Erase
  <1>17. CASE Stop
    <2>1. CASE owner = Us
      BY <2>1, <1>17, OwnerIsTold DEF Stop
    <2>2. CASE owner # Us
      BY <2>2, <1>17, <1>quiet DEF Stop
    <2>3. QED BY <2>1, <2>2
  <1>18. CASE Call \/ Read \/ Write \/ Verify \/ Rest \/ UNCHANGED vars
    BY <1>18, <1>quiet DEF Call, Read, Write, Verify, Rest
  <1>19. QED
    BY <1>1, <1>2, <1>3, <1>4, <1>5, <1>6, <1>7, <1>8, <1>9, <1>10, <1>11, <1>12, <1>13, <1>14, <1>15, <1>16, <1>17, <1>18 DEF Next, Watcher, Worker

-----------------------------------------------------------------------------
(* The worker: what it holds is the selection's, or its loss is queued.     *)

Lost == Contains(kbuf \o ksock, "clear")

\* A round trip and what another client adds keep a loss that is queued.
LEMMA LossIsKept ==
  ASSUME TypeQueues, NEW r \in Seq(KEvents), WorkerFills(r)
  PROVE  Lost' <=> Lost \/ Contains(r, "clear")
  <1>1. Passes(KEvents) /\ kbuf \o ksock \in Seq(KEvents) /\ <<>> \in Seq(KEvents)
    BY QueuesPass DEF Passes, TypeQueues
  <1>2. kbuf' = (kbuf \o ksock) \o r /\ ksock' = <<>>
    BY DEF WorkerFills
  <1>3. kbuf' \in Seq(KEvents) /\ (Contains(kbuf', "clear") <=> Lost \/ Contains(r, "clear"))
    BY <1>1, <1>2 DEF Passes, Lost
  <1>4. QED BY <1>1, <1>2, <1>3 DEF Passes, Lost

LEMMA LossIsQueued ==
  ASSUME TypeQueues, NEW r \in Seq(KEvents), kbuf' = kbuf, ksock' = ksock \o r
  PROVE  Lost' <=> Lost \/ Contains(r, "clear")
  <1>1. ksock \o r \in Seq(KEvents)
    BY Joined DEF TypeQueues
  <1>2. Contains(ksock \o r, "clear") <=> Contains(ksock, "clear") \/ Contains(r, "clear")
    BY Joined DEF TypeQueues
  <1>3. Lost' <=> Contains(kbuf, "clear") \/ Contains(ksock \o r, "clear")
    BY <1>1, Joined DEF TypeQueues, Lost
  <1>4. Lost <=> Contains(kbuf, "clear") \/ Contains(ksock, "clear")
    BY Joined DEF TypeQueues, Lost
  <1>5. QED BY <1>2, <1>3, <1>4

LEMMA ConvertKeepsLoss ==
  ASSUME TypeQueues, NEW t \in Targets, Convert(t), kbuf' = kbuf
  PROVE  Lost => Lost'
  <1>1. CASE UNCHANGED ksock
    BY <1>1 DEF Lost
  <1>2. CASE ksock' = Append(ksock, t)
    <2>1. t \in KEvents
      BY Events
    <2>2. <<t>> \in Seq(KEvents)
      BY <2>1
    <2>3. ksock' = ksock \o <<t>>
      BY <1>2, <2>1 DEF TypeQueues
    <2>4. QED BY <2>2, <2>3, LossIsQueued
  <1>3. QED BY <1>1, <1>2 DEF Convert

LEMMA HeldStep ==
  ASSUME TypeOK, ReadsHoldNothing, HeldIsOwned, [Next]_vars
  PROVE  ReadsHoldNothing' /\ HeldIsOwned'
  <1> TypeServer /\ TypeQueues /\ TypeWatcher /\ TypeWorker
    BY TypesGrouped
  <1> USE DEF server, worker, watcher, watcherVars, vars
  <1>none. <<>> \in Seq(KEvents) /\ ~Contains(<<>>, "clear")
    BY Emptied
  <1>quiet. ASSUME UNCHANGED <<owner, kbuf, ksock, kpc, held>>
            PROVE  ReadsHoldNothing' /\ HeldIsOwned'
    BY <1>quiet DEF ReadsHoldNothing, HeldIsOwned
  <1>keeps. ASSUME UNCHANGED <<owner, kpc, held>>, Lost => Lost'
            PROVE  ReadsHoldNothing' /\ HeldIsOwned'
    BY <1>keeps DEF ReadsHoldNothing, HeldIsOwned, Lost
  <1>next. ASSUME kbuf \o ksock # <<>>, Head(kbuf \o ksock) # "clear",
                  kbuf' = Tail(kbuf \o ksock), ksock' = <<>>
           PROVE  Lost => Lost'
    <2>1. Passes(KEvents) /\ kbuf \o ksock \in Seq(KEvents)
      BY QueuesPass DEF Passes, TypeQueues
    <2>2. Tail(kbuf \o ksock) \in Seq(KEvents) /\ (Lost => Contains(Tail(kbuf \o ksock), "clear"))
      BY <1>next, <2>1 DEF Passes, Lost
    <2>3. QED BY <1>next, <1>none, <2>1, <2>2 DEF Passes, Lost
  <1>1. CASE Take
    <2>1. PICK o \in Apps \cup {NoOne} : SetOwner(o) /\ ksock' = ksock \o Clears(o)
      BY <1>1 DEF Take
    <2>2. Clears(o) \in Seq(KEvents) /\ (owner = Us => Contains(Clears(o), "clear"))
      BY <2>1, Bounds, Clearing, Single, Events DEF Clears
    <2>3. Lost' <=> Lost \/ Contains(Clears(o), "clear")
      BY <2>1, <2>2, <1>1, LossIsQueued DEF Take
    <2>4. QED BY <2>2, <2>3, <1>1 DEF Take, ReadsHoldNothing, HeldIsOwned, Lost
  <1>2. CASE Ask
    BY <1>2, <1>quiet, <1>keeps, ConvertKeepsLoss DEF Ask, Targets
  <1>3. CASE AskData
    BY <1>3, <1>keeps, ConvertKeepsLoss DEF AskData, Targets
  <1>4. CASE NextEvent
    <2>1. CASE kbuf \o ksock = <<>>
      BY <2>1, <1>4 DEF NextEvent, ReadsHoldNothing, HeldIsOwned
    <2>2. CASE kbuf \o ksock # <<>> /\ Head(kbuf \o ksock) = "clear"
      BY <2>2, <1>4 DEF NextEvent, Handle, ReadsHoldNothing, HeldIsOwned
    <2>3. CASE kbuf \o ksock # <<>> /\ Head(kbuf \o ksock) # "clear"
      <3>1. /\ kbuf' = Tail(kbuf \o ksock) /\ ksock' = <<>> /\ UNCHANGED <<owner, kpc>>
            /\ held' = held
        BY <2>3, <1>4 DEF NextEvent, Handle, TypeWorker
      <3>2. QED BY <2>3, <3>1, <1>next, <1>keeps
    <2>4. QED BY <2>1, <2>2, <2>3
  <1>5. CASE Read
    BY <1>5 DEF Read, ReadsHoldNothing, HeldIsOwned
  <1>6. CASE Reading
    BY <1>6 DEF Reading, ReadsHoldNothing, HeldIsOwned
  <1>7. CASE Write
    BY <1>7 DEF Write, ReadsHoldNothing, HeldIsOwned
  <1>8. CASE Own
    BY <1>8 DEF Own, SetOwner, ReadsHoldNothing, HeldIsOwned
  <1>9. CASE Verify
    BY <1>9 DEF Verify, ReadsHoldNothing, HeldIsOwned
  <1>10. CASE Erase
    BY <1>10 DEF Erase, ReadsHoldNothing, HeldIsOwned
  <1>11. CASE Stop
    BY <1>11 DEF Stop, ReadsHoldNothing, HeldIsOwned
  <1>12. CASE Rest
    BY <1>12 DEF Rest, ReadsHoldNothing, HeldIsOwned
  <1>13. CASE Answer \/ Shutdown \/ Call
    BY <1>13, <1>quiet DEF Answer, Shutdown, Call
  <1>14. CASE Wait \/ Fetch \/ Judge \/ Return \/ Wake \/ Leave \/ Drain \/ Query \/ UNCHANGED vars
    BY <1>14, <1>quiet DEF Wait, Fetch, Judge, Return, Wake, Leave, Drain, Query
  <1>15. QED
    BY <1>1, <1>2, <1>3, <1>4, <1>5, <1>6, <1>7, <1>8, <1>9, <1>10, <1>11, <1>12, <1>13, <1>14 DEF Next, Watcher, Worker

-----------------------------------------------------------------------------
(* The other direction: the selection we own is held.                       *)

LEMMA ServedStep ==
  ASSUME TypeOK, OwnedIsHeld, [Next]_vars, [Own => ~Contains(kbuf \o ksock, "clear")]_vars
  PROVE  OwnedIsHeld'
  <1> TypeServer /\ TypeQueues /\ TypeWatcher /\ TypeWorker
    BY TypesGrouped
  <1> USE DEF server, worker, watcher, watcherVars, vars, OwnedIsHeld
  <1>none. <<>> \in Seq(KEvents) /\ ~Contains(<<>>, "clear")
    BY Emptied
  <1>quiet. ASSUME UNCHANGED <<owner, kbuf, ksock, kpc, held>>
            PROVE  OwnedIsHeld'
    BY <1>quiet
  <1>next. ASSUME kbuf \o ksock # <<>>, kbuf' = Tail(kbuf \o ksock), ksock' = <<>>
           PROVE  (Lost' => Lost) /\ (Head(kbuf \o ksock) = "clear" => Lost)
    <2>1. Passes(KEvents) /\ kbuf \o ksock \in Seq(KEvents)
      BY QueuesPass DEF Passes, TypeQueues
    <2>2. /\ Tail(kbuf \o ksock) \in Seq(KEvents)
          /\ Lost <=> Head(kbuf \o ksock) = "clear" \/ Contains(Tail(kbuf \o ksock), "clear")
      BY <1>next, <2>1 DEF Passes, Lost
    <2>3. QED BY <1>next, <1>none, <2>1, <2>2 DEF Passes, Lost
  <1>asks. ASSUME NEW t \in Targets, Convert(t), kbuf' = kbuf
           PROVE  Lost' => Lost
    <2>1. CASE UNCHANGED ksock
      BY <2>1, <1>asks DEF Lost
    <2>2. CASE ksock' = Append(ksock, t)
      <3>1. t \in KEvents /\ t # "clear"
        BY Events DEF Targets
      <3>2. <<t>> \in Seq(KEvents) /\ ~Contains(<<t>>, "clear")
        BY <3>1, Single
      <3>3. ksock' = ksock \o <<t>>
        BY <2>2, <3>1 DEF TypeQueues
      <3>4. QED BY <3>2, <3>3, <1>asks, LossIsQueued
    <2>3. QED BY <2>1, <2>2, <1>asks DEF Convert
  <1>1. CASE Take
    <2>1. PICK o \in Apps \cup {NoOne} : SetOwner(o) /\ ksock' = ksock \o Clears(o)
      BY <1>1 DEF Take
    <2>2. owner' # Us
      BY <2>1, Bounds DEF SetOwner
    <2>3. QED BY <2>2, <1>1 DEF Take
  <1>2. CASE Ask
    BY <1>2, <1>quiet, <1>asks DEF Ask, Targets, Lost
  <1>3. CASE AskData
    BY <1>3, <1>asks DEF AskData, Targets, Lost
  <1>4. CASE NextEvent
    <2>1. CASE kbuf \o ksock = <<>>
      BY <2>1, <1>4 DEF NextEvent
    <2>2. CASE kbuf \o ksock # <<>> /\ Head(kbuf \o ksock) = "clear"
      <3>1. Lost /\ UNCHANGED owner /\ kpc = "drain" /\ UNCHANGED kpc
        BY <2>2, <1>4, <1>next DEF NextEvent
      <3>2. QED BY <3>1 DEF Lost
    <2>3. CASE kbuf \o ksock # <<>> /\ Head(kbuf \o ksock) # "clear"
      <3>1. held' = held /\ UNCHANGED <<owner, kpc>>
        BY <2>3, <1>4 DEF NextEvent, Handle, TypeWorker
      <3>2. Lost' => Lost
        BY <2>3, <1>4, <1>next DEF NextEvent
      <3>3. QED BY <3>1, <3>2 DEF Lost
    <2>4. QED BY <2>1, <2>2, <2>3
  <1>5. CASE Read
    <2>1. Lost' => Lost
      BY <1>5, <1>none, LossIsKept DEF Read, Lost
    <2>2. UNCHANGED <<owner, held>> /\ kpc' # "own"
      BY <1>5 DEF Read
    <2>3. QED BY <2>1, <2>2 DEF Lost
  <1>6. CASE Reading
    <2>1. Lost' => Lost
      BY <1>6, <1>none, <1>next, LossIsKept DEF Reading, Lost
    <2>2. UNCHANGED <<owner, held>> /\ kpc' # "own"
      BY <1>6 DEF Reading
    <2>3. QED BY <2>1, <2>2 DEF Lost
  <1>7. CASE Write
    <2>1. UNCHANGED <<owner, kbuf, ksock>> /\ (held' \/ held' = held) /\ (kpc' = "own" => held')
      BY <1>7 DEF Write
    <2>2. QED BY <2>1 DEF TypeWorker
  <1>8. CASE Own
    <2>1. CASE UNCHANGED vars
      BY <2>1
    <2>2. CASE ~Lost
      <3>1. ~Lost'
        BY <2>2, <1>8, <1>none, LossIsKept DEF Own
      <3>2. held' /\ kpc' # "own"
        BY <1>8 DEF Own
      <3>3. QED BY <3>1, <3>2 DEF Lost
    <2>3. QED BY <2>1, <2>2, <1>8 DEF Lost
  <1>9. CASE Verify
    <2>1. Lost' => Lost
      BY <1>9, <1>none, LossIsKept DEF Verify
    <2>2. UNCHANGED owner /\ (owner = Us => held' = held) /\ kpc' # "own"
      BY <1>9 DEF Verify, TypeWorker
    <2>3. QED BY <2>1, <2>2 DEF Lost
  <1>10. CASE Erase
    BY <1>10, Bounds DEF Erase, SetOwner
  <1>11. CASE Stop
    BY <1>11, Bounds DEF Stop, SetOwner
  <1>12. CASE Rest
    BY <1>12 DEF Rest
  <1>13. CASE Answer \/ Shutdown \/ Call
    BY <1>13, <1>quiet DEF Answer, Shutdown, Call
  <1>14. CASE Wait \/ Fetch \/ Judge \/ Return \/ Wake \/ Leave \/ Drain \/ Query \/ UNCHANGED vars
    BY <1>14, <1>quiet DEF Wait, Fetch, Judge, Return, Wake, Leave, Drain, Query
  <1>15. QED
    BY <1>1, <1>2, <1>3, <1>4, <1>5, <1>6, <1>7, <1>8, <1>9, <1>10, <1>11, <1>12, <1>13, <1>14 DEF Next, Watcher, Worker

-----------------------------------------------------------------------------
(* The theorems.                                                            *)

\* The words of changes and of losses are where the two threads will find them.
THEOREM ClipboardInvariant == Spec => []X11Inv
  <1>1. Init => X11Inv
    BY TypeStart DEF Init, X11Inv, WordIsKept, RestsUnflagged, ReadsHoldNothing, HeldIsOwned
  <1>2. X11Inv /\ [Next]_vars => X11Inv'
    BY TypeStep, WordStep, HeldStep DEF X11Inv
  <1>3. QED BY <1>1, <1>2, PTL DEF Spec

\* The types of the two threads and their queues, whatever the bounds.
THEOREM ClipboardTypes == Spec => []TypeOK
  <1>1. X11Inv => TypeOK
    BY DEF X11Inv
  <1>2. QED BY <1>1, ClipboardInvariant, PTL

\* A watcher that rests has read after every change whose word it has taken,
\* however reads, answers, time-outs and changes interleave (event_loop.rs run,
\* reader.rs read_snapshot).
THEOREM ChangesAreKept == Spec => []NoChangeIsForgotten
  <1>1. X11Inv => NoChangeIsForgotten
    BY DEF X11Inv, WordIsKept, RestsUnflagged, NoChangeIsForgotten
  <1>2. QED BY <1>1, ClipboardInvariant, PTL

\* What the worker serves and answers reads from is the selection's, or the event
\* that says otherwise is queued (clipboard.rs worker_main, writer.rs
\* install_snapshot).
THEOREM HoldingsAreOwned == Spec => []HeldIsOwned
  <1>1. X11Inv => HeldIsOwned
    BY DEF X11Inv
  <1>2. QED BY <1>1, ClipboardInvariant, PTL

\* The word of an earlier loss, still queued when the worker owns the selection
\* again, is the only way to own what cannot be served: a worker that has seen
\* every loss by then holds what it owns (OwnedIsServed, writer.rs
\* install_snapshot).
THEOREM OnlyStaleLossesEmpty == Spec /\ OwnsCaughtUp => []OwnedIsServed
  <1>1. Init => OwnedIsHeld
    BY Bounds DEF Init, OwnedIsHeld
  <1>2. OwnedIsHeld => OwnedIsServed
    BY DEF OwnedIsHeld, OwnedIsServed
  <1>3. QED BY <1>1, <1>2, ServedStep, ClipboardTypes, PTL DEF Spec, OwnsCaughtUp

=============================================================================
