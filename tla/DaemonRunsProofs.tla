-------------------------- MODULE DaemonRunsProofs -------------------------
(***************************************************************************)
(* For any number of runs: the types, that no crash is forgotten and no    *)
(* clean end reported, that a handover is never older than the last clear, *)
(* that the connection files lead to the run that serves, and that a run   *)
(* which comes to an end of itself leaves none behind.                     *)
(***************************************************************************)
EXTENDS DaemonRuns, TLAPS

-----------------------------------------------------------------------------
(* The types, a group of variables at a time.                              *)

TypePhase == phase \in [Runs -> Phases]

TypeRuns ==
  /\ marker \in 0..MaxRuns /\ handover \in 0..MaxRuns
  /\ startupConn \in 0..MaxRuns /\ daemonConn \in 0..MaxRuns
  /\ http \in [Runs -> {"down", "up", "failed"}]

TypeAsked == stop \subseteq Runs /\ graceful \subseteq Runs /\ heard \subseteq Runs /\ termed \subseteq Runs

TypeHistory ==
  /\ consumers \subseteq Runs /\ crashed \subseteq Runs /\ spared \subseteq Runs
  /\ told \subseteq Runs /\ unmarked \subseteq Runs /\ untidy \subseteq Runs

LEMMA TypeParts == TypeOK <=> TypePhase /\ TypeRuns /\ TypeAsked /\ TypeHistory
  BY DEF TypeOK, TypePhase, TypeRuns, TypeAsked, TypeHistory

\* A run is a number a file may hold; none is the mark of nobody.
LEMMA RunNumbers ==
  /\ \A p \in Runs : p \in 0..MaxRuns /\ p # Nobody
  /\ Nobody \in 0..MaxRuns
  /\ \A r \in 0..MaxRuns : r # Nobody => r \in Runs
  BY RunsAssumption DEF Runs, Nobody

\* A step keeps the type of the places.
LEMMA PhaseTyped ==
  ASSUME TypePhase, [Next]_vars
  PROVE  TypePhase'
  <1>0. CASE UNCHANGED vars
    BY <1>0 DEF vars, TypePhase, Phases
  <1>1. ASSUME NEW p \in Runs, Spawn(p) PROVE TypePhase'
    BY <1>1 DEF Spawn, Goto, Die, RemoveMarker, KeepMarker, Remove, asked, files, history, TypePhase, Phases
  <1>2. ASSUME NEW p \in Runs, Claim(p) PROVE TypePhase'
    BY <1>2 DEF Claim, Goto, Die, RemoveMarker, KeepMarker, Remove, asked, files, history, TypePhase, Phases
  <1>3. ASSUME NEW p \in Runs, ClearHandover(p) PROVE TypePhase'
    BY <1>3 DEF ClearHandover, Goto, Die, RemoveMarker, KeepMarker, Remove, asked, files, history, TypePhase, Phases
  <1>4. ASSUME NEW p \in Runs, PreparingFails(p) PROVE TypePhase'
    BY <1>4 DEF PreparingFails, Goto, Die, RemoveMarker, KeepMarker, Remove, asked, files, history, TypePhase, Phases
  <1>5. ASSUME NEW p \in Runs, BindStartup(p) PROVE TypePhase'
    BY <1>5 DEF BindStartup, Goto, Die, RemoveMarker, KeepMarker, Remove, asked, files, history, TypePhase, Phases
  <1>6. ASSUME NEW p \in Runs, EngineStarted(p) PROVE TypePhase'
    BY <1>6 DEF EngineStarted, Goto, Die, RemoveMarker, KeepMarker, Remove, asked, files, history, TypePhase, Phases
  <1>7. ASSUME NEW p \in Runs, EngineFails(p) PROVE TypePhase'
    BY <1>7 DEF EngineFails, Goto, Die, RemoveMarker, KeepMarker, Remove, asked, files, history, TypePhase, Phases
  <1>8. ASSUME NEW p \in Runs, Abandon(p) PROVE TypePhase'
    BY <1>8 DEF Abandon, Goto, Die, RemoveMarker, KeepMarker, Remove, asked, files, history, TypePhase, Phases
  <1>9. ASSUME NEW p \in Runs, LeaveRefusal(p) PROVE TypePhase'
    BY <1>9 DEF LeaveRefusal, Goto, Die, RemoveMarker, KeepMarker, Remove, asked, files, history, TypePhase, Phases
  <1>10. ASSUME NEW p \in Runs, RetryAsked(p) PROVE TypePhase'
    BY <1>10 DEF RetryAsked, Goto, Die, RemoveMarker, KeepMarker, Remove, asked, files, history, TypePhase, Phases
  <1>11. ASSUME NEW p \in Runs, Detect(p) PROVE TypePhase'
    BY <1>11 DEF Detect, Goto, Die, RemoveMarker, KeepMarker, Remove, asked, files, history, TypePhase, Phases
  <1>12. ASSUME NEW p \in Runs, Mark(p) PROVE TypePhase'
    BY <1>12 DEF Mark, Goto, Die, RemoveMarker, KeepMarker, Remove, asked, files, history, TypePhase, Phases
  <1>13. ASSUME NEW p \in Runs, MarkFails(p) PROVE TypePhase'
    BY <1>13 DEF MarkFails, Goto, Die, RemoveMarker, KeepMarker, Remove, asked, files, history, TypePhase, Phases
  <1>14. ASSUME NEW p \in Runs, HttpUp(p) PROVE TypePhase'
    BY <1>14 DEF HttpUp, Goto, Die, RemoveMarker, KeepMarker, Remove, asked, files, history, TypePhase, Phases
  <1>15. ASSUME NEW p \in Runs, HttpFails(p) PROVE TypePhase'
    BY <1>15 DEF HttpFails, Goto, Die, RemoveMarker, KeepMarker, Remove, asked, files, history, TypePhase, Phases
  <1>16. ASSUME NEW p \in Runs, EnterService(p) PROVE TypePhase'
    BY <1>16 DEF EnterService, Goto, Die, RemoveMarker, KeepMarker, Remove, asked, files, history, TypePhase, Phases
  <1>17. ASSUME NEW p \in Runs, GracefulStop(p) PROVE TypePhase'
    BY <1>17 DEF GracefulStop, Goto, Die, RemoveMarker, KeepMarker, Remove, asked, files, history, TypePhase, Phases
  <1>18. ASSUME NEW p \in Runs, EndRun(p) PROVE TypePhase'
    BY <1>18 DEF EndRun, Goto, Die, RemoveMarker, KeepMarker, Remove, asked, files, history, TypePhase, Phases
  <1>19. ASSUME NEW p \in Runs, Drained(p) PROVE TypePhase'
    BY <1>19 DEF Drained, Goto, Die, RemoveMarker, KeepMarker, Remove, asked, files, history, TypePhase, Phases
  <1>20. ASSUME NEW p \in Runs, HttpLost(p) PROVE TypePhase'
    BY <1>20 DEF HttpLost, Goto, Die, RemoveMarker, KeepMarker, Remove, asked, files, history, TypePhase, Phases
  <1>21. ASSUME NEW p \in Runs, Withdraw(p) PROVE TypePhase'
    BY <1>21 DEF Withdraw, Goto, Die, RemoveMarker, KeepMarker, Remove, asked, files, history, TypePhase, Phases
  <1>22. ASSUME NEW p \in Runs, MarkClean(p) PROVE TypePhase'
    BY <1>22 DEF MarkClean, Goto, Die, RemoveMarker, KeepMarker, Remove, asked, files, history, TypePhase, Phases
  <1>23. ASSUME NEW p \in Runs, LeaveLingering(p) PROVE TypePhase'
    BY <1>23 DEF LeaveLingering, Goto, Die, RemoveMarker, KeepMarker, Remove, asked, files, history, TypePhase, Phases
  <1>24. ASSUME NEW p \in Runs, Quit(p) PROVE TypePhase'
    BY <1>24 DEF Quit, Goto, Die, RemoveMarker, KeepMarker, Remove, asked, files, history, TypePhase, Phases
  <1>25. ASSUME NEW p \in Runs, AskStop(p) PROVE TypePhase'
    BY <1>25 DEF AskStop, Goto, Die, RemoveMarker, KeepMarker, Remove, asked, files, history, TypePhase, Phases
  <1>26. ASSUME NEW p \in Runs, Signal(p) PROVE TypePhase'
    BY <1>26 DEF Signal, Goto, Die, RemoveMarker, KeepMarker, Remove, asked, files, history, TypePhase, Phases
  <1>27. ASSUME NEW p \in Runs, Kill(p) PROVE TypePhase'
    BY <1>27 DEF Kill, Goto, Die, RemoveMarker, KeepMarker, Remove, asked, files, history, TypePhase, Phases
  <1>28. ASSUME NEW p \in Runs, TokenFails(p) PROVE TypePhase'
    BY <1>28 DEF TokenFails, Goto, Die, RemoveMarker, KeepMarker, Remove, asked, files, history, TypePhase, Phases
  <1> QED
    BY <1>0, <1>1, <1>2, <1>3, <1>4, <1>5, <1>6, <1>7, <1>8, <1>9, <1>10, <1>11, <1>12, <1>13, <1>14, <1>15, <1>16, <1>17, <1>18, <1>19, <1>20, <1>21, <1>22, <1>23, <1>24, <1>25, <1>26, <1>27, <1>28
    DEF Next, Start, End, Await, Environment

\* A step keeps the types of what names a run.
LEMMA RunsTyped ==
  ASSUME TypeRuns, [Next]_vars
  PROVE  TypeRuns'
  <1>0. CASE UNCHANGED vars
    BY <1>0, RunNumbers DEF vars, TypeRuns
  <1>1. ASSUME NEW p \in Runs, Spawn(p) PROVE TypeRuns'
    BY <1>1, RunNumbers DEF Spawn, Goto, Die, RemoveMarker, KeepMarker, Remove, asked, files, history, TypeRuns
  <1>2. ASSUME NEW p \in Runs, Claim(p) PROVE TypeRuns'
    BY <1>2, RunNumbers DEF Claim, Goto, Die, RemoveMarker, KeepMarker, Remove, asked, files, history, TypeRuns
  <1>3. ASSUME NEW p \in Runs, ClearHandover(p) PROVE TypeRuns'
    BY <1>3, RunNumbers DEF ClearHandover, Goto, Die, RemoveMarker, KeepMarker, Remove, asked, files, history, TypeRuns
  <1>4. ASSUME NEW p \in Runs, PreparingFails(p) PROVE TypeRuns'
    BY <1>4, RunNumbers DEF PreparingFails, Goto, Die, RemoveMarker, KeepMarker, Remove, asked, files, history, TypeRuns
  <1>5. ASSUME NEW p \in Runs, BindStartup(p) PROVE TypeRuns'
    BY <1>5, RunNumbers DEF BindStartup, Goto, Die, RemoveMarker, KeepMarker, Remove, asked, files, history, TypeRuns
  <1>6. ASSUME NEW p \in Runs, EngineStarted(p) PROVE TypeRuns'
    BY <1>6, RunNumbers DEF EngineStarted, Goto, Die, RemoveMarker, KeepMarker, Remove, asked, files, history, TypeRuns
  <1>7. ASSUME NEW p \in Runs, EngineFails(p) PROVE TypeRuns'
    BY <1>7, RunNumbers DEF EngineFails, Goto, Die, RemoveMarker, KeepMarker, Remove, asked, files, history, TypeRuns
  <1>8. ASSUME NEW p \in Runs, Abandon(p) PROVE TypeRuns'
    BY <1>8, RunNumbers DEF Abandon, Goto, Die, RemoveMarker, KeepMarker, Remove, asked, files, history, TypeRuns
  <1>9. ASSUME NEW p \in Runs, LeaveRefusal(p) PROVE TypeRuns'
    BY <1>9, RunNumbers DEF LeaveRefusal, Goto, Die, RemoveMarker, KeepMarker, Remove, asked, files, history, TypeRuns
  <1>10. ASSUME NEW p \in Runs, RetryAsked(p) PROVE TypeRuns'
    BY <1>10, RunNumbers DEF RetryAsked, Goto, Die, RemoveMarker, KeepMarker, Remove, asked, files, history, TypeRuns
  <1>11. ASSUME NEW p \in Runs, Detect(p) PROVE TypeRuns'
    BY <1>11, RunNumbers DEF Detect, Goto, Die, RemoveMarker, KeepMarker, Remove, asked, files, history, TypeRuns
  <1>12. ASSUME NEW p \in Runs, Mark(p) PROVE TypeRuns'
    BY <1>12, RunNumbers DEF Mark, Goto, Die, RemoveMarker, KeepMarker, Remove, asked, files, history, TypeRuns
  <1>13. ASSUME NEW p \in Runs, MarkFails(p) PROVE TypeRuns'
    BY <1>13, RunNumbers DEF MarkFails, Goto, Die, RemoveMarker, KeepMarker, Remove, asked, files, history, TypeRuns
  <1>14. ASSUME NEW p \in Runs, HttpUp(p) PROVE TypeRuns'
    BY <1>14, RunNumbers DEF HttpUp, Goto, Die, RemoveMarker, KeepMarker, Remove, asked, files, history, TypeRuns
  <1>15. ASSUME NEW p \in Runs, HttpFails(p) PROVE TypeRuns'
    BY <1>15, RunNumbers DEF HttpFails, Goto, Die, RemoveMarker, KeepMarker, Remove, asked, files, history, TypeRuns
  <1>16. ASSUME NEW p \in Runs, EnterService(p) PROVE TypeRuns'
    BY <1>16, RunNumbers DEF EnterService, Goto, Die, RemoveMarker, KeepMarker, Remove, asked, files, history, TypeRuns
  <1>17. ASSUME NEW p \in Runs, GracefulStop(p) PROVE TypeRuns'
    BY <1>17, RunNumbers DEF GracefulStop, Goto, Die, RemoveMarker, KeepMarker, Remove, asked, files, history, TypeRuns
  <1>18. ASSUME NEW p \in Runs, EndRun(p) PROVE TypeRuns'
    BY <1>18, RunNumbers DEF EndRun, Goto, Die, RemoveMarker, KeepMarker, Remove, asked, files, history, TypeRuns
  <1>19. ASSUME NEW p \in Runs, Drained(p) PROVE TypeRuns'
    BY <1>19, RunNumbers DEF Drained, Goto, Die, RemoveMarker, KeepMarker, Remove, asked, files, history, TypeRuns
  <1>20. ASSUME NEW p \in Runs, HttpLost(p) PROVE TypeRuns'
    BY <1>20, RunNumbers DEF HttpLost, Goto, Die, RemoveMarker, KeepMarker, Remove, asked, files, history, TypeRuns
  <1>21. ASSUME NEW p \in Runs, Withdraw(p) PROVE TypeRuns'
    BY <1>21, RunNumbers DEF Withdraw, Goto, Die, RemoveMarker, KeepMarker, Remove, asked, files, history, TypeRuns
  <1>22. ASSUME NEW p \in Runs, MarkClean(p) PROVE TypeRuns'
    BY <1>22, RunNumbers DEF MarkClean, Goto, Die, RemoveMarker, KeepMarker, Remove, asked, files, history, TypeRuns
  <1>23. ASSUME NEW p \in Runs, LeaveLingering(p) PROVE TypeRuns'
    BY <1>23, RunNumbers DEF LeaveLingering, Goto, Die, RemoveMarker, KeepMarker, Remove, asked, files, history, TypeRuns
  <1>24. ASSUME NEW p \in Runs, Quit(p) PROVE TypeRuns'
    BY <1>24, RunNumbers DEF Quit, Goto, Die, RemoveMarker, KeepMarker, Remove, asked, files, history, TypeRuns
  <1>25. ASSUME NEW p \in Runs, AskStop(p) PROVE TypeRuns'
    BY <1>25, RunNumbers DEF AskStop, Goto, Die, RemoveMarker, KeepMarker, Remove, asked, files, history, TypeRuns
  <1>26. ASSUME NEW p \in Runs, Signal(p) PROVE TypeRuns'
    BY <1>26, RunNumbers DEF Signal, Goto, Die, RemoveMarker, KeepMarker, Remove, asked, files, history, TypeRuns
  <1>27. ASSUME NEW p \in Runs, Kill(p) PROVE TypeRuns'
    BY <1>27, RunNumbers DEF Kill, Goto, Die, RemoveMarker, KeepMarker, Remove, asked, files, history, TypeRuns
  <1>28. ASSUME NEW p \in Runs, TokenFails(p) PROVE TypeRuns'
    BY <1>28, RunNumbers DEF TokenFails, Goto, Die, RemoveMarker, KeepMarker, Remove, asked, files, history, TypeRuns
  <1> QED
    BY <1>0, <1>1, <1>2, <1>3, <1>4, <1>5, <1>6, <1>7, <1>8, <1>9, <1>10, <1>11, <1>12, <1>13, <1>14, <1>15, <1>16, <1>17, <1>18, <1>19, <1>20, <1>21, <1>22, <1>23, <1>24, <1>25, <1>26, <1>27, <1>28
    DEF Next, Start, End, Await, Environment

\* A step keeps the types of what is asked.
LEMMA AskedTyped ==
  ASSUME TypeAsked, [Next]_vars
  PROVE  TypeAsked'
  <1>0. CASE UNCHANGED vars
    BY <1>0 DEF vars, TypeAsked
  <1>1. ASSUME NEW p \in Runs, Spawn(p) PROVE TypeAsked'
    BY <1>1 DEF Spawn, Goto, Die, RemoveMarker, KeepMarker, Remove, asked, files, history, TypeAsked
  <1>2. ASSUME NEW p \in Runs, Claim(p) PROVE TypeAsked'
    BY <1>2 DEF Claim, Goto, Die, RemoveMarker, KeepMarker, Remove, asked, files, history, TypeAsked
  <1>3. ASSUME NEW p \in Runs, ClearHandover(p) PROVE TypeAsked'
    BY <1>3 DEF ClearHandover, Goto, Die, RemoveMarker, KeepMarker, Remove, asked, files, history, TypeAsked
  <1>4. ASSUME NEW p \in Runs, PreparingFails(p) PROVE TypeAsked'
    BY <1>4 DEF PreparingFails, Goto, Die, RemoveMarker, KeepMarker, Remove, asked, files, history, TypeAsked
  <1>5. ASSUME NEW p \in Runs, BindStartup(p) PROVE TypeAsked'
    BY <1>5 DEF BindStartup, Goto, Die, RemoveMarker, KeepMarker, Remove, asked, files, history, TypeAsked
  <1>6. ASSUME NEW p \in Runs, EngineStarted(p) PROVE TypeAsked'
    BY <1>6 DEF EngineStarted, Goto, Die, RemoveMarker, KeepMarker, Remove, asked, files, history, TypeAsked
  <1>7. ASSUME NEW p \in Runs, EngineFails(p) PROVE TypeAsked'
    BY <1>7 DEF EngineFails, Goto, Die, RemoveMarker, KeepMarker, Remove, asked, files, history, TypeAsked
  <1>8. ASSUME NEW p \in Runs, Abandon(p) PROVE TypeAsked'
    BY <1>8 DEF Abandon, Goto, Die, RemoveMarker, KeepMarker, Remove, asked, files, history, TypeAsked
  <1>9. ASSUME NEW p \in Runs, LeaveRefusal(p) PROVE TypeAsked'
    BY <1>9 DEF LeaveRefusal, Goto, Die, RemoveMarker, KeepMarker, Remove, asked, files, history, TypeAsked
  <1>10. ASSUME NEW p \in Runs, RetryAsked(p) PROVE TypeAsked'
    BY <1>10 DEF RetryAsked, Goto, Die, RemoveMarker, KeepMarker, Remove, asked, files, history, TypeAsked
  <1>11. ASSUME NEW p \in Runs, Detect(p) PROVE TypeAsked'
    BY <1>11 DEF Detect, Goto, Die, RemoveMarker, KeepMarker, Remove, asked, files, history, TypeAsked
  <1>12. ASSUME NEW p \in Runs, Mark(p) PROVE TypeAsked'
    BY <1>12 DEF Mark, Goto, Die, RemoveMarker, KeepMarker, Remove, asked, files, history, TypeAsked
  <1>13. ASSUME NEW p \in Runs, MarkFails(p) PROVE TypeAsked'
    BY <1>13 DEF MarkFails, Goto, Die, RemoveMarker, KeepMarker, Remove, asked, files, history, TypeAsked
  <1>14. ASSUME NEW p \in Runs, HttpUp(p) PROVE TypeAsked'
    BY <1>14 DEF HttpUp, Goto, Die, RemoveMarker, KeepMarker, Remove, asked, files, history, TypeAsked
  <1>15. ASSUME NEW p \in Runs, HttpFails(p) PROVE TypeAsked'
    BY <1>15 DEF HttpFails, Goto, Die, RemoveMarker, KeepMarker, Remove, asked, files, history, TypeAsked
  <1>16. ASSUME NEW p \in Runs, EnterService(p) PROVE TypeAsked'
    BY <1>16 DEF EnterService, Goto, Die, RemoveMarker, KeepMarker, Remove, asked, files, history, TypeAsked
  <1>17. ASSUME NEW p \in Runs, GracefulStop(p) PROVE TypeAsked'
    BY <1>17 DEF GracefulStop, Goto, Die, RemoveMarker, KeepMarker, Remove, asked, files, history, TypeAsked
  <1>18. ASSUME NEW p \in Runs, EndRun(p) PROVE TypeAsked'
    BY <1>18 DEF EndRun, Goto, Die, RemoveMarker, KeepMarker, Remove, asked, files, history, TypeAsked
  <1>19. ASSUME NEW p \in Runs, Drained(p) PROVE TypeAsked'
    BY <1>19 DEF Drained, Goto, Die, RemoveMarker, KeepMarker, Remove, asked, files, history, TypeAsked
  <1>20. ASSUME NEW p \in Runs, HttpLost(p) PROVE TypeAsked'
    BY <1>20 DEF HttpLost, Goto, Die, RemoveMarker, KeepMarker, Remove, asked, files, history, TypeAsked
  <1>21. ASSUME NEW p \in Runs, Withdraw(p) PROVE TypeAsked'
    BY <1>21 DEF Withdraw, Goto, Die, RemoveMarker, KeepMarker, Remove, asked, files, history, TypeAsked
  <1>22. ASSUME NEW p \in Runs, MarkClean(p) PROVE TypeAsked'
    BY <1>22 DEF MarkClean, Goto, Die, RemoveMarker, KeepMarker, Remove, asked, files, history, TypeAsked
  <1>23. ASSUME NEW p \in Runs, LeaveLingering(p) PROVE TypeAsked'
    BY <1>23 DEF LeaveLingering, Goto, Die, RemoveMarker, KeepMarker, Remove, asked, files, history, TypeAsked
  <1>24. ASSUME NEW p \in Runs, Quit(p) PROVE TypeAsked'
    BY <1>24 DEF Quit, Goto, Die, RemoveMarker, KeepMarker, Remove, asked, files, history, TypeAsked
  <1>25. ASSUME NEW p \in Runs, AskStop(p) PROVE TypeAsked'
    BY <1>25 DEF AskStop, Goto, Die, RemoveMarker, KeepMarker, Remove, asked, files, history, TypeAsked
  <1>26. ASSUME NEW p \in Runs, Signal(p) PROVE TypeAsked'
    BY <1>26 DEF Signal, Goto, Die, RemoveMarker, KeepMarker, Remove, asked, files, history, TypeAsked
  <1>27. ASSUME NEW p \in Runs, Kill(p) PROVE TypeAsked'
    BY <1>27 DEF Kill, Goto, Die, RemoveMarker, KeepMarker, Remove, asked, files, history, TypeAsked
  <1>28. ASSUME NEW p \in Runs, TokenFails(p) PROVE TypeAsked'
    BY <1>28 DEF TokenFails, Goto, Die, RemoveMarker, KeepMarker, Remove, asked, files, history, TypeAsked
  <1> QED
    BY <1>0, <1>1, <1>2, <1>3, <1>4, <1>5, <1>6, <1>7, <1>8, <1>9, <1>10, <1>11, <1>12, <1>13, <1>14, <1>15, <1>16, <1>17, <1>18, <1>19, <1>20, <1>21, <1>22, <1>23, <1>24, <1>25, <1>26, <1>27, <1>28
    DEF Next, Start, End, Await, Environment

\* A step keeps the types of the histories.
LEMMA HistoryTyped ==
  ASSUME TypeRuns, TypeHistory, [Next]_vars
  PROVE  TypeHistory'
  <1>0. CASE UNCHANGED vars
    BY <1>0, RunNumbers DEF vars, TypeHistory, TypeRuns
  <1>1. ASSUME NEW p \in Runs, Spawn(p) PROVE TypeHistory'
    BY <1>1, RunNumbers DEF Spawn, Goto, Die, RemoveMarker, KeepMarker, Remove, asked, files, history, TypeHistory, TypeRuns
  <1>2. ASSUME NEW p \in Runs, Claim(p) PROVE TypeHistory'
    BY <1>2, RunNumbers DEF Claim, Goto, Die, RemoveMarker, KeepMarker, Remove, asked, files, history, TypeHistory, TypeRuns
  <1>3. ASSUME NEW p \in Runs, ClearHandover(p) PROVE TypeHistory'
    BY <1>3, RunNumbers DEF ClearHandover, Goto, Die, RemoveMarker, KeepMarker, Remove, asked, files, history, TypeHistory, TypeRuns
  <1>4. ASSUME NEW p \in Runs, PreparingFails(p) PROVE TypeHistory'
    BY <1>4, RunNumbers DEF PreparingFails, Goto, Die, RemoveMarker, KeepMarker, Remove, asked, files, history, TypeHistory, TypeRuns
  <1>5. ASSUME NEW p \in Runs, BindStartup(p) PROVE TypeHistory'
    BY <1>5, RunNumbers DEF BindStartup, Goto, Die, RemoveMarker, KeepMarker, Remove, asked, files, history, TypeHistory, TypeRuns
  <1>6. ASSUME NEW p \in Runs, EngineStarted(p) PROVE TypeHistory'
    BY <1>6, RunNumbers DEF EngineStarted, Goto, Die, RemoveMarker, KeepMarker, Remove, asked, files, history, TypeHistory, TypeRuns
  <1>7. ASSUME NEW p \in Runs, EngineFails(p) PROVE TypeHistory'
    BY <1>7, RunNumbers DEF EngineFails, Goto, Die, RemoveMarker, KeepMarker, Remove, asked, files, history, TypeHistory, TypeRuns
  <1>8. ASSUME NEW p \in Runs, Abandon(p) PROVE TypeHistory'
    BY <1>8, RunNumbers DEF Abandon, Goto, Die, RemoveMarker, KeepMarker, Remove, asked, files, history, TypeHistory, TypeRuns
  <1>9. ASSUME NEW p \in Runs, LeaveRefusal(p) PROVE TypeHistory'
    BY <1>9, RunNumbers DEF LeaveRefusal, Goto, Die, RemoveMarker, KeepMarker, Remove, asked, files, history, TypeHistory, TypeRuns
  <1>10. ASSUME NEW p \in Runs, RetryAsked(p) PROVE TypeHistory'
    BY <1>10, RunNumbers DEF RetryAsked, Goto, Die, RemoveMarker, KeepMarker, Remove, asked, files, history, TypeHistory, TypeRuns
  <1>11. ASSUME NEW p \in Runs, Detect(p) PROVE TypeHistory'
    BY <1>11, RunNumbers DEF Detect, Goto, Die, RemoveMarker, KeepMarker, Remove, asked, files, history, TypeHistory, TypeRuns
  <1>12. ASSUME NEW p \in Runs, Mark(p) PROVE TypeHistory'
    BY <1>12, RunNumbers DEF Mark, Goto, Die, RemoveMarker, KeepMarker, Remove, asked, files, history, TypeHistory, TypeRuns
  <1>13. ASSUME NEW p \in Runs, MarkFails(p) PROVE TypeHistory'
    BY <1>13, RunNumbers DEF MarkFails, Goto, Die, RemoveMarker, KeepMarker, Remove, asked, files, history, TypeHistory, TypeRuns
  <1>14. ASSUME NEW p \in Runs, HttpUp(p) PROVE TypeHistory'
    BY <1>14, RunNumbers DEF HttpUp, Goto, Die, RemoveMarker, KeepMarker, Remove, asked, files, history, TypeHistory, TypeRuns
  <1>15. ASSUME NEW p \in Runs, HttpFails(p) PROVE TypeHistory'
    BY <1>15, RunNumbers DEF HttpFails, Goto, Die, RemoveMarker, KeepMarker, Remove, asked, files, history, TypeHistory, TypeRuns
  <1>16. ASSUME NEW p \in Runs, EnterService(p) PROVE TypeHistory'
    BY <1>16, RunNumbers DEF EnterService, Goto, Die, RemoveMarker, KeepMarker, Remove, asked, files, history, TypeHistory, TypeRuns
  <1>17. ASSUME NEW p \in Runs, GracefulStop(p) PROVE TypeHistory'
    BY <1>17, RunNumbers DEF GracefulStop, Goto, Die, RemoveMarker, KeepMarker, Remove, asked, files, history, TypeHistory, TypeRuns
  <1>18. ASSUME NEW p \in Runs, EndRun(p) PROVE TypeHistory'
    BY <1>18, RunNumbers DEF EndRun, Goto, Die, RemoveMarker, KeepMarker, Remove, asked, files, history, TypeHistory, TypeRuns
  <1>19. ASSUME NEW p \in Runs, Drained(p) PROVE TypeHistory'
    BY <1>19, RunNumbers DEF Drained, Goto, Die, RemoveMarker, KeepMarker, Remove, asked, files, history, TypeHistory, TypeRuns
  <1>20. ASSUME NEW p \in Runs, HttpLost(p) PROVE TypeHistory'
    BY <1>20, RunNumbers DEF HttpLost, Goto, Die, RemoveMarker, KeepMarker, Remove, asked, files, history, TypeHistory, TypeRuns
  <1>21. ASSUME NEW p \in Runs, Withdraw(p) PROVE TypeHistory'
    BY <1>21, RunNumbers DEF Withdraw, Goto, Die, RemoveMarker, KeepMarker, Remove, asked, files, history, TypeHistory, TypeRuns
  <1>22. ASSUME NEW p \in Runs, MarkClean(p) PROVE TypeHistory'
    BY <1>22, RunNumbers DEF MarkClean, Goto, Die, RemoveMarker, KeepMarker, Remove, asked, files, history, TypeHistory, TypeRuns
  <1>23. ASSUME NEW p \in Runs, LeaveLingering(p) PROVE TypeHistory'
    BY <1>23, RunNumbers DEF LeaveLingering, Goto, Die, RemoveMarker, KeepMarker, Remove, asked, files, history, TypeHistory, TypeRuns
  <1>24. ASSUME NEW p \in Runs, Quit(p) PROVE TypeHistory'
    BY <1>24, RunNumbers DEF Quit, Goto, Die, RemoveMarker, KeepMarker, Remove, asked, files, history, TypeHistory, TypeRuns
  <1>25. ASSUME NEW p \in Runs, AskStop(p) PROVE TypeHistory'
    BY <1>25, RunNumbers DEF AskStop, Goto, Die, RemoveMarker, KeepMarker, Remove, asked, files, history, TypeHistory, TypeRuns
  <1>26. ASSUME NEW p \in Runs, Signal(p) PROVE TypeHistory'
    BY <1>26, RunNumbers DEF Signal, Goto, Die, RemoveMarker, KeepMarker, Remove, asked, files, history, TypeHistory, TypeRuns
  <1>27. ASSUME NEW p \in Runs, Kill(p) PROVE TypeHistory'
    BY <1>27, RunNumbers DEF Kill, Goto, Die, RemoveMarker, KeepMarker, Remove, asked, files, history, TypeHistory, TypeRuns
  <1>28. ASSUME NEW p \in Runs, TokenFails(p) PROVE TypeHistory'
    BY <1>28, RunNumbers DEF TokenFails, Goto, Die, RemoveMarker, KeepMarker, Remove, asked, files, history, TypeHistory, TypeRuns
  <1> QED
    BY <1>0, <1>1, <1>2, <1>3, <1>4, <1>5, <1>6, <1>7, <1>8, <1>9, <1>10, <1>11, <1>12, <1>13, <1>14, <1>15, <1>16, <1>17, <1>18, <1>19, <1>20, <1>21, <1>22, <1>23, <1>24, <1>25, <1>26, <1>27, <1>28
    DEF Next, Start, End, Await, Environment

-----------------------------------------------------------------------------
(* The lock and what it protects.                                          *)

\* A step leaves one process past the claim.
LEMMA HolderKept ==
  ASSUME TypePhase, OneHolder, [Next]_vars
  PROVE  OneHolder'
  <1>0. CASE UNCHANGED vars
    BY <1>0 DEF vars, OneHolder, Holds, Alive, TypePhase
  <1>1. ASSUME NEW p \in Runs, Spawn(p) PROVE OneHolder'
    BY <1>1 DEF Spawn, Goto, Die, RemoveMarker, KeepMarker, Remove, asked, files, history, OneHolder, Holds, Alive, TypePhase
  <1>2. ASSUME NEW p \in Runs, Claim(p) PROVE OneHolder'
    BY <1>2 DEF Claim, Goto, Die, RemoveMarker, KeepMarker, Remove, asked, files, history, OneHolder, Holds, Alive, TypePhase
  <1>3. ASSUME NEW p \in Runs, ClearHandover(p) PROVE OneHolder'
    BY <1>3 DEF ClearHandover, Goto, Die, RemoveMarker, KeepMarker, Remove, asked, files, history, OneHolder, Holds, Alive, TypePhase
  <1>4. ASSUME NEW p \in Runs, PreparingFails(p) PROVE OneHolder'
    BY <1>4 DEF PreparingFails, Goto, Die, RemoveMarker, KeepMarker, Remove, asked, files, history, OneHolder, Holds, Alive, TypePhase
  <1>5. ASSUME NEW p \in Runs, BindStartup(p) PROVE OneHolder'
    BY <1>5 DEF BindStartup, Goto, Die, RemoveMarker, KeepMarker, Remove, asked, files, history, OneHolder, Holds, Alive, TypePhase
  <1>6. ASSUME NEW p \in Runs, EngineStarted(p) PROVE OneHolder'
    BY <1>6 DEF EngineStarted, Goto, Die, RemoveMarker, KeepMarker, Remove, asked, files, history, OneHolder, Holds, Alive, TypePhase
  <1>7. ASSUME NEW p \in Runs, EngineFails(p) PROVE OneHolder'
    BY <1>7 DEF EngineFails, Goto, Die, RemoveMarker, KeepMarker, Remove, asked, files, history, OneHolder, Holds, Alive, TypePhase
  <1>8. ASSUME NEW p \in Runs, Abandon(p) PROVE OneHolder'
    BY <1>8 DEF Abandon, Goto, Die, RemoveMarker, KeepMarker, Remove, asked, files, history, OneHolder, Holds, Alive, TypePhase
  <1>9. ASSUME NEW p \in Runs, LeaveRefusal(p) PROVE OneHolder'
    BY <1>9 DEF LeaveRefusal, Goto, Die, RemoveMarker, KeepMarker, Remove, asked, files, history, OneHolder, Holds, Alive, TypePhase
  <1>10. ASSUME NEW p \in Runs, RetryAsked(p) PROVE OneHolder'
    BY <1>10 DEF RetryAsked, Goto, Die, RemoveMarker, KeepMarker, Remove, asked, files, history, OneHolder, Holds, Alive, TypePhase
  <1>11. ASSUME NEW p \in Runs, Detect(p) PROVE OneHolder'
    BY <1>11 DEF Detect, Goto, Die, RemoveMarker, KeepMarker, Remove, asked, files, history, OneHolder, Holds, Alive, TypePhase
  <1>12. ASSUME NEW p \in Runs, Mark(p) PROVE OneHolder'
    BY <1>12 DEF Mark, Goto, Die, RemoveMarker, KeepMarker, Remove, asked, files, history, OneHolder, Holds, Alive, TypePhase
  <1>13. ASSUME NEW p \in Runs, MarkFails(p) PROVE OneHolder'
    BY <1>13 DEF MarkFails, Goto, Die, RemoveMarker, KeepMarker, Remove, asked, files, history, OneHolder, Holds, Alive, TypePhase
  <1>14. ASSUME NEW p \in Runs, HttpUp(p) PROVE OneHolder'
    BY <1>14 DEF HttpUp, Goto, Die, RemoveMarker, KeepMarker, Remove, asked, files, history, OneHolder, Holds, Alive, TypePhase
  <1>15. ASSUME NEW p \in Runs, HttpFails(p) PROVE OneHolder'
    BY <1>15 DEF HttpFails, Goto, Die, RemoveMarker, KeepMarker, Remove, asked, files, history, OneHolder, Holds, Alive, TypePhase
  <1>16. ASSUME NEW p \in Runs, EnterService(p) PROVE OneHolder'
    BY <1>16 DEF EnterService, Goto, Die, RemoveMarker, KeepMarker, Remove, asked, files, history, OneHolder, Holds, Alive, TypePhase
  <1>17. ASSUME NEW p \in Runs, GracefulStop(p) PROVE OneHolder'
    BY <1>17 DEF GracefulStop, Goto, Die, RemoveMarker, KeepMarker, Remove, asked, files, history, OneHolder, Holds, Alive, TypePhase
  <1>18. ASSUME NEW p \in Runs, EndRun(p) PROVE OneHolder'
    BY <1>18 DEF EndRun, Goto, Die, RemoveMarker, KeepMarker, Remove, asked, files, history, OneHolder, Holds, Alive, TypePhase
  <1>19. ASSUME NEW p \in Runs, Drained(p) PROVE OneHolder'
    BY <1>19 DEF Drained, Goto, Die, RemoveMarker, KeepMarker, Remove, asked, files, history, OneHolder, Holds, Alive, TypePhase
  <1>20. ASSUME NEW p \in Runs, HttpLost(p) PROVE OneHolder'
    BY <1>20 DEF HttpLost, Goto, Die, RemoveMarker, KeepMarker, Remove, asked, files, history, OneHolder, Holds, Alive, TypePhase
  <1>21. ASSUME NEW p \in Runs, Withdraw(p) PROVE OneHolder'
    BY <1>21 DEF Withdraw, Goto, Die, RemoveMarker, KeepMarker, Remove, asked, files, history, OneHolder, Holds, Alive, TypePhase
  <1>22. ASSUME NEW p \in Runs, MarkClean(p) PROVE OneHolder'
    BY <1>22 DEF MarkClean, Goto, Die, RemoveMarker, KeepMarker, Remove, asked, files, history, OneHolder, Holds, Alive, TypePhase
  <1>23. ASSUME NEW p \in Runs, LeaveLingering(p) PROVE OneHolder'
    BY <1>23 DEF LeaveLingering, Goto, Die, RemoveMarker, KeepMarker, Remove, asked, files, history, OneHolder, Holds, Alive, TypePhase
  <1>24. ASSUME NEW p \in Runs, Quit(p) PROVE OneHolder'
    BY <1>24 DEF Quit, Goto, Die, RemoveMarker, KeepMarker, Remove, asked, files, history, OneHolder, Holds, Alive, TypePhase
  <1>25. ASSUME NEW p \in Runs, AskStop(p) PROVE OneHolder'
    BY <1>25 DEF AskStop, Goto, Die, RemoveMarker, KeepMarker, Remove, asked, files, history, OneHolder, Holds, Alive, TypePhase
  <1>26. ASSUME NEW p \in Runs, Signal(p) PROVE OneHolder'
    BY <1>26 DEF Signal, Goto, Die, RemoveMarker, KeepMarker, Remove, asked, files, history, OneHolder, Holds, Alive, TypePhase
  <1>27. ASSUME NEW p \in Runs, Kill(p) PROVE OneHolder'
    BY <1>27 DEF Kill, Goto, Die, RemoveMarker, KeepMarker, Remove, asked, files, history, OneHolder, Holds, Alive, TypePhase
  <1>28. ASSUME NEW p \in Runs, TokenFails(p) PROVE OneHolder'
    BY <1>28 DEF TokenFails, Goto, Die, RemoveMarker, KeepMarker, Remove, asked, files, history, OneHolder, Holds, Alive, TypePhase
  <1> QED
    BY <1>0, <1>1, <1>2, <1>3, <1>4, <1>5, <1>6, <1>7, <1>8, <1>9, <1>10, <1>11, <1>12, <1>13, <1>14, <1>15, <1>16, <1>17, <1>18, <1>19, <1>20, <1>21, <1>22, <1>23, <1>24, <1>25, <1>26, <1>27, <1>28
    DEF Next, Start, End, Await, Environment

\* A step leaves a marker with a run that wrote it.
LEMMA MarkerKept ==
  ASSUME TypePhase, TypeRuns, TypeHistory, OneHolder, MarkerShape, [Next]_vars
  PROVE  MarkerShape'
  <1>0. CASE UNCHANGED vars
    BY <1>0, RunNumbers DEF vars, MarkerShape, Unmarking, OneHolder, Holds, Alive, TypePhase, TypeRuns, TypeHistory
  <1>1. ASSUME NEW p \in Runs, Spawn(p) PROVE MarkerShape'
    BY <1>1, RunNumbers DEF Spawn, Goto, Die, RemoveMarker, KeepMarker, Remove, asked, files, history, MarkerShape, Unmarking, OneHolder, Holds, Alive, TypePhase, TypeRuns, TypeHistory
  <1>2. ASSUME NEW p \in Runs, Claim(p) PROVE MarkerShape'
    BY <1>2, RunNumbers DEF Claim, Goto, Die, RemoveMarker, KeepMarker, Remove, asked, files, history, MarkerShape, Unmarking, OneHolder, Holds, Alive, TypePhase, TypeRuns, TypeHistory
  <1>3. ASSUME NEW p \in Runs, ClearHandover(p) PROVE MarkerShape'
    BY <1>3, RunNumbers DEF ClearHandover, Goto, Die, RemoveMarker, KeepMarker, Remove, asked, files, history, MarkerShape, Unmarking, OneHolder, Holds, Alive, TypePhase, TypeRuns, TypeHistory
  <1>4. ASSUME NEW p \in Runs, PreparingFails(p) PROVE MarkerShape'
    BY <1>4, RunNumbers DEF PreparingFails, Goto, Die, RemoveMarker, KeepMarker, Remove, asked, files, history, MarkerShape, Unmarking, OneHolder, Holds, Alive, TypePhase, TypeRuns, TypeHistory
  <1>5. ASSUME NEW p \in Runs, BindStartup(p) PROVE MarkerShape'
    BY <1>5, RunNumbers DEF BindStartup, Goto, Die, RemoveMarker, KeepMarker, Remove, asked, files, history, MarkerShape, Unmarking, OneHolder, Holds, Alive, TypePhase, TypeRuns, TypeHistory
  <1>6. ASSUME NEW p \in Runs, EngineStarted(p) PROVE MarkerShape'
    BY <1>6, RunNumbers DEF EngineStarted, Goto, Die, RemoveMarker, KeepMarker, Remove, asked, files, history, MarkerShape, Unmarking, OneHolder, Holds, Alive, TypePhase, TypeRuns, TypeHistory
  <1>7. ASSUME NEW p \in Runs, EngineFails(p) PROVE MarkerShape'
    BY <1>7, RunNumbers DEF EngineFails, Goto, Die, RemoveMarker, KeepMarker, Remove, asked, files, history, MarkerShape, Unmarking, OneHolder, Holds, Alive, TypePhase, TypeRuns, TypeHistory
  <1>8. ASSUME NEW p \in Runs, Abandon(p) PROVE MarkerShape'
    BY <1>8, RunNumbers DEF Abandon, Goto, Die, RemoveMarker, KeepMarker, Remove, asked, files, history, MarkerShape, Unmarking, OneHolder, Holds, Alive, TypePhase, TypeRuns, TypeHistory
  <1>9. ASSUME NEW p \in Runs, LeaveRefusal(p) PROVE MarkerShape'
    BY <1>9, RunNumbers DEF LeaveRefusal, Goto, Die, RemoveMarker, KeepMarker, Remove, asked, files, history, MarkerShape, Unmarking, OneHolder, Holds, Alive, TypePhase, TypeRuns, TypeHistory
  <1>10. ASSUME NEW p \in Runs, RetryAsked(p) PROVE MarkerShape'
    BY <1>10, RunNumbers DEF RetryAsked, Goto, Die, RemoveMarker, KeepMarker, Remove, asked, files, history, MarkerShape, Unmarking, OneHolder, Holds, Alive, TypePhase, TypeRuns, TypeHistory
  <1>11. ASSUME NEW p \in Runs, Detect(p) PROVE MarkerShape'
    BY <1>11, RunNumbers DEF Detect, Goto, Die, RemoveMarker, KeepMarker, Remove, asked, files, history, MarkerShape, Unmarking, OneHolder, Holds, Alive, TypePhase, TypeRuns, TypeHistory
  <1>12. ASSUME NEW p \in Runs, Mark(p) PROVE MarkerShape'
    BY <1>12, RunNumbers DEF Mark, Goto, Die, RemoveMarker, KeepMarker, Remove, asked, files, history, MarkerShape, Unmarking, OneHolder, Holds, Alive, TypePhase, TypeRuns, TypeHistory
  <1>13. ASSUME NEW p \in Runs, MarkFails(p) PROVE MarkerShape'
    BY <1>13, RunNumbers DEF MarkFails, Goto, Die, RemoveMarker, KeepMarker, Remove, asked, files, history, MarkerShape, Unmarking, OneHolder, Holds, Alive, TypePhase, TypeRuns, TypeHistory
  <1>14. ASSUME NEW p \in Runs, HttpUp(p) PROVE MarkerShape'
    BY <1>14, RunNumbers DEF HttpUp, Goto, Die, RemoveMarker, KeepMarker, Remove, asked, files, history, MarkerShape, Unmarking, OneHolder, Holds, Alive, TypePhase, TypeRuns, TypeHistory
  <1>15. ASSUME NEW p \in Runs, HttpFails(p) PROVE MarkerShape'
    BY <1>15, RunNumbers DEF HttpFails, Goto, Die, RemoveMarker, KeepMarker, Remove, asked, files, history, MarkerShape, Unmarking, OneHolder, Holds, Alive, TypePhase, TypeRuns, TypeHistory
  <1>16. ASSUME NEW p \in Runs, EnterService(p) PROVE MarkerShape'
    BY <1>16, RunNumbers DEF EnterService, Goto, Die, RemoveMarker, KeepMarker, Remove, asked, files, history, MarkerShape, Unmarking, OneHolder, Holds, Alive, TypePhase, TypeRuns, TypeHistory
  <1>17. ASSUME NEW p \in Runs, GracefulStop(p) PROVE MarkerShape'
    BY <1>17, RunNumbers DEF GracefulStop, Goto, Die, RemoveMarker, KeepMarker, Remove, asked, files, history, MarkerShape, Unmarking, OneHolder, Holds, Alive, TypePhase, TypeRuns, TypeHistory
  <1>18. ASSUME NEW p \in Runs, EndRun(p) PROVE MarkerShape'
    BY <1>18, RunNumbers DEF EndRun, Goto, Die, RemoveMarker, KeepMarker, Remove, asked, files, history, MarkerShape, Unmarking, OneHolder, Holds, Alive, TypePhase, TypeRuns, TypeHistory
  <1>19. ASSUME NEW p \in Runs, Drained(p) PROVE MarkerShape'
    BY <1>19, RunNumbers DEF Drained, Goto, Die, RemoveMarker, KeepMarker, Remove, asked, files, history, MarkerShape, Unmarking, OneHolder, Holds, Alive, TypePhase, TypeRuns, TypeHistory
  <1>20. ASSUME NEW p \in Runs, HttpLost(p) PROVE MarkerShape'
    BY <1>20, RunNumbers DEF HttpLost, Goto, Die, RemoveMarker, KeepMarker, Remove, asked, files, history, MarkerShape, Unmarking, OneHolder, Holds, Alive, TypePhase, TypeRuns, TypeHistory
  <1>21. ASSUME NEW p \in Runs, Withdraw(p) PROVE MarkerShape'
    BY <1>21, RunNumbers DEF Withdraw, Goto, Die, RemoveMarker, KeepMarker, Remove, asked, files, history, MarkerShape, Unmarking, OneHolder, Holds, Alive, TypePhase, TypeRuns, TypeHistory
  <1>22. ASSUME NEW p \in Runs, MarkClean(p) PROVE MarkerShape'
    BY <1>22, RunNumbers DEF MarkClean, Goto, Die, RemoveMarker, KeepMarker, Remove, asked, files, history, MarkerShape, Unmarking, OneHolder, Holds, Alive, TypePhase, TypeRuns, TypeHistory
  <1>23. ASSUME NEW p \in Runs, LeaveLingering(p) PROVE MarkerShape'
    BY <1>23, RunNumbers DEF LeaveLingering, Goto, Die, RemoveMarker, KeepMarker, Remove, asked, files, history, MarkerShape, Unmarking, OneHolder, Holds, Alive, TypePhase, TypeRuns, TypeHistory
  <1>24. ASSUME NEW p \in Runs, Quit(p) PROVE MarkerShape'
    BY <1>24, RunNumbers DEF Quit, Goto, Die, RemoveMarker, KeepMarker, Remove, asked, files, history, MarkerShape, Unmarking, OneHolder, Holds, Alive, TypePhase, TypeRuns, TypeHistory
  <1>25. ASSUME NEW p \in Runs, AskStop(p) PROVE MarkerShape'
    BY <1>25, RunNumbers DEF AskStop, Goto, Die, RemoveMarker, KeepMarker, Remove, asked, files, history, MarkerShape, Unmarking, OneHolder, Holds, Alive, TypePhase, TypeRuns, TypeHistory
  <1>26. ASSUME NEW p \in Runs, Signal(p) PROVE MarkerShape'
    BY <1>26, RunNumbers DEF Signal, Goto, Die, RemoveMarker, KeepMarker, Remove, asked, files, history, MarkerShape, Unmarking, OneHolder, Holds, Alive, TypePhase, TypeRuns, TypeHistory
  <1>27. ASSUME NEW p \in Runs, Kill(p) PROVE MarkerShape'
    BY <1>27, RunNumbers DEF Kill, Goto, Die, RemoveMarker, KeepMarker, Remove, asked, files, history, MarkerShape, Unmarking, OneHolder, Holds, Alive, TypePhase, TypeRuns, TypeHistory
  <1>28. ASSUME NEW p \in Runs, TokenFails(p) PROVE MarkerShape'
    BY <1>28, RunNumbers DEF TokenFails, Goto, Die, RemoveMarker, KeepMarker, Remove, asked, files, history, MarkerShape, Unmarking, OneHolder, Holds, Alive, TypePhase, TypeRuns, TypeHistory
  <1> QED
    BY <1>0, <1>1, <1>2, <1>3, <1>4, <1>5, <1>6, <1>7, <1>8, <1>9, <1>10, <1>11, <1>12, <1>13, <1>14, <1>15, <1>16, <1>17, <1>18, <1>19, <1>20, <1>21, <1>22, <1>23, <1>24, <1>25, <1>26, <1>27, <1>28
    DEF Next, Start, End, Await, Environment

\* A step reports nobody who was spared.
LEMMA NoFalseAlarmKept ==
  ASSUME TypePhase, TypeRuns, TypeHistory, OneHolder, MarkerShape, NoFalseAlarm, [Next]_vars
  PROVE  NoFalseAlarm'
  <1>0. CASE UNCHANGED vars
    BY <1>0, RunNumbers DEF vars, NoFalseAlarm, MarkerShape, Unmarking, TypePhase, TypeRuns, TypeHistory
  <1>1. ASSUME NEW p \in Runs, Spawn(p) PROVE NoFalseAlarm'
    BY <1>1, RunNumbers DEF Spawn, Goto, Die, RemoveMarker, KeepMarker, Remove, asked, files, history, NoFalseAlarm, MarkerShape, Unmarking, TypePhase, TypeRuns, TypeHistory
  <1>2. ASSUME NEW p \in Runs, Claim(p) PROVE NoFalseAlarm'
    BY <1>2, RunNumbers DEF Claim, Goto, Die, RemoveMarker, KeepMarker, Remove, asked, files, history, NoFalseAlarm, MarkerShape, Unmarking, TypePhase, TypeRuns, TypeHistory
  <1>3. ASSUME NEW p \in Runs, ClearHandover(p) PROVE NoFalseAlarm'
    BY <1>3, RunNumbers DEF ClearHandover, Goto, Die, RemoveMarker, KeepMarker, Remove, asked, files, history, NoFalseAlarm, MarkerShape, Unmarking, TypePhase, TypeRuns, TypeHistory
  <1>4. ASSUME NEW p \in Runs, PreparingFails(p) PROVE NoFalseAlarm'
    BY <1>4, RunNumbers DEF PreparingFails, Goto, Die, RemoveMarker, KeepMarker, Remove, asked, files, history, NoFalseAlarm, MarkerShape, Unmarking, TypePhase, TypeRuns, TypeHistory
  <1>5. ASSUME NEW p \in Runs, BindStartup(p) PROVE NoFalseAlarm'
    BY <1>5, RunNumbers DEF BindStartup, Goto, Die, RemoveMarker, KeepMarker, Remove, asked, files, history, NoFalseAlarm, MarkerShape, Unmarking, TypePhase, TypeRuns, TypeHistory
  <1>6. ASSUME NEW p \in Runs, EngineStarted(p) PROVE NoFalseAlarm'
    BY <1>6, RunNumbers DEF EngineStarted, Goto, Die, RemoveMarker, KeepMarker, Remove, asked, files, history, NoFalseAlarm, MarkerShape, Unmarking, TypePhase, TypeRuns, TypeHistory
  <1>7. ASSUME NEW p \in Runs, EngineFails(p) PROVE NoFalseAlarm'
    BY <1>7, RunNumbers DEF EngineFails, Goto, Die, RemoveMarker, KeepMarker, Remove, asked, files, history, NoFalseAlarm, MarkerShape, Unmarking, TypePhase, TypeRuns, TypeHistory
  <1>8. ASSUME NEW p \in Runs, Abandon(p) PROVE NoFalseAlarm'
    BY <1>8, RunNumbers DEF Abandon, Goto, Die, RemoveMarker, KeepMarker, Remove, asked, files, history, NoFalseAlarm, MarkerShape, Unmarking, TypePhase, TypeRuns, TypeHistory
  <1>9. ASSUME NEW p \in Runs, LeaveRefusal(p) PROVE NoFalseAlarm'
    BY <1>9, RunNumbers DEF LeaveRefusal, Goto, Die, RemoveMarker, KeepMarker, Remove, asked, files, history, NoFalseAlarm, MarkerShape, Unmarking, TypePhase, TypeRuns, TypeHistory
  <1>10. ASSUME NEW p \in Runs, RetryAsked(p) PROVE NoFalseAlarm'
    BY <1>10, RunNumbers DEF RetryAsked, Goto, Die, RemoveMarker, KeepMarker, Remove, asked, files, history, NoFalseAlarm, MarkerShape, Unmarking, TypePhase, TypeRuns, TypeHistory
  <1>11. ASSUME NEW p \in Runs, Detect(p) PROVE NoFalseAlarm'
    BY <1>11, RunNumbers DEF Detect, Goto, Die, RemoveMarker, KeepMarker, Remove, asked, files, history, NoFalseAlarm, MarkerShape, Unmarking, TypePhase, TypeRuns, TypeHistory
  <1>12. ASSUME NEW p \in Runs, Mark(p) PROVE NoFalseAlarm'
    BY <1>12, RunNumbers DEF Mark, Goto, Die, RemoveMarker, KeepMarker, Remove, asked, files, history, NoFalseAlarm, MarkerShape, Unmarking, TypePhase, TypeRuns, TypeHistory
  <1>13. ASSUME NEW p \in Runs, MarkFails(p) PROVE NoFalseAlarm'
    BY <1>13, RunNumbers DEF MarkFails, Goto, Die, RemoveMarker, KeepMarker, Remove, asked, files, history, NoFalseAlarm, MarkerShape, Unmarking, TypePhase, TypeRuns, TypeHistory
  <1>14. ASSUME NEW p \in Runs, HttpUp(p) PROVE NoFalseAlarm'
    BY <1>14, RunNumbers DEF HttpUp, Goto, Die, RemoveMarker, KeepMarker, Remove, asked, files, history, NoFalseAlarm, MarkerShape, Unmarking, TypePhase, TypeRuns, TypeHistory
  <1>15. ASSUME NEW p \in Runs, HttpFails(p) PROVE NoFalseAlarm'
    BY <1>15, RunNumbers DEF HttpFails, Goto, Die, RemoveMarker, KeepMarker, Remove, asked, files, history, NoFalseAlarm, MarkerShape, Unmarking, TypePhase, TypeRuns, TypeHistory
  <1>16. ASSUME NEW p \in Runs, EnterService(p) PROVE NoFalseAlarm'
    BY <1>16, RunNumbers DEF EnterService, Goto, Die, RemoveMarker, KeepMarker, Remove, asked, files, history, NoFalseAlarm, MarkerShape, Unmarking, TypePhase, TypeRuns, TypeHistory
  <1>17. ASSUME NEW p \in Runs, GracefulStop(p) PROVE NoFalseAlarm'
    BY <1>17, RunNumbers DEF GracefulStop, Goto, Die, RemoveMarker, KeepMarker, Remove, asked, files, history, NoFalseAlarm, MarkerShape, Unmarking, TypePhase, TypeRuns, TypeHistory
  <1>18. ASSUME NEW p \in Runs, EndRun(p) PROVE NoFalseAlarm'
    BY <1>18, RunNumbers DEF EndRun, Goto, Die, RemoveMarker, KeepMarker, Remove, asked, files, history, NoFalseAlarm, MarkerShape, Unmarking, TypePhase, TypeRuns, TypeHistory
  <1>19. ASSUME NEW p \in Runs, Drained(p) PROVE NoFalseAlarm'
    BY <1>19, RunNumbers DEF Drained, Goto, Die, RemoveMarker, KeepMarker, Remove, asked, files, history, NoFalseAlarm, MarkerShape, Unmarking, TypePhase, TypeRuns, TypeHistory
  <1>20. ASSUME NEW p \in Runs, HttpLost(p) PROVE NoFalseAlarm'
    BY <1>20, RunNumbers DEF HttpLost, Goto, Die, RemoveMarker, KeepMarker, Remove, asked, files, history, NoFalseAlarm, MarkerShape, Unmarking, TypePhase, TypeRuns, TypeHistory
  <1>21. ASSUME NEW p \in Runs, Withdraw(p) PROVE NoFalseAlarm'
    BY <1>21, RunNumbers DEF Withdraw, Goto, Die, RemoveMarker, KeepMarker, Remove, asked, files, history, NoFalseAlarm, MarkerShape, Unmarking, TypePhase, TypeRuns, TypeHistory
  <1>22. ASSUME NEW p \in Runs, MarkClean(p) PROVE NoFalseAlarm'
    BY <1>22, RunNumbers DEF MarkClean, Goto, Die, RemoveMarker, KeepMarker, Remove, asked, files, history, NoFalseAlarm, MarkerShape, Unmarking, TypePhase, TypeRuns, TypeHistory
  <1>23. ASSUME NEW p \in Runs, LeaveLingering(p) PROVE NoFalseAlarm'
    BY <1>23, RunNumbers DEF LeaveLingering, Goto, Die, RemoveMarker, KeepMarker, Remove, asked, files, history, NoFalseAlarm, MarkerShape, Unmarking, TypePhase, TypeRuns, TypeHistory
  <1>24. ASSUME NEW p \in Runs, Quit(p) PROVE NoFalseAlarm'
    BY <1>24, RunNumbers DEF Quit, Goto, Die, RemoveMarker, KeepMarker, Remove, asked, files, history, NoFalseAlarm, MarkerShape, Unmarking, TypePhase, TypeRuns, TypeHistory
  <1>25. ASSUME NEW p \in Runs, AskStop(p) PROVE NoFalseAlarm'
    BY <1>25, RunNumbers DEF AskStop, Goto, Die, RemoveMarker, KeepMarker, Remove, asked, files, history, NoFalseAlarm, MarkerShape, Unmarking, TypePhase, TypeRuns, TypeHistory
  <1>26. ASSUME NEW p \in Runs, Signal(p) PROVE NoFalseAlarm'
    BY <1>26, RunNumbers DEF Signal, Goto, Die, RemoveMarker, KeepMarker, Remove, asked, files, history, NoFalseAlarm, MarkerShape, Unmarking, TypePhase, TypeRuns, TypeHistory
  <1>27. ASSUME NEW p \in Runs, Kill(p) PROVE NoFalseAlarm'
    BY <1>27, RunNumbers DEF Kill, Goto, Die, RemoveMarker, KeepMarker, Remove, asked, files, history, NoFalseAlarm, MarkerShape, Unmarking, TypePhase, TypeRuns, TypeHistory
  <1>28. ASSUME NEW p \in Runs, TokenFails(p) PROVE NoFalseAlarm'
    BY <1>28, RunNumbers DEF TokenFails, Goto, Die, RemoveMarker, KeepMarker, Remove, asked, files, history, NoFalseAlarm, MarkerShape, Unmarking, TypePhase, TypeRuns, TypeHistory
  <1> QED
    BY <1>0, <1>1, <1>2, <1>3, <1>4, <1>5, <1>6, <1>7, <1>8, <1>9, <1>10, <1>11, <1>12, <1>13, <1>14, <1>15, <1>16, <1>17, <1>18, <1>19, <1>20, <1>21, <1>22, <1>23, <1>24, <1>25, <1>26, <1>27, <1>28
    DEF Next, Start, End, Await, Environment

\* A step leaves a serving run its own marker.
LEMMA OwnMarkerKept ==
  ASSUME TypePhase, TypeRuns, TypeHistory, OneHolder, MarkerShape, MarkerIsOwn, [Next]_vars
  PROVE  MarkerIsOwn'
  <1>0. CASE UNCHANGED vars
    BY <1>0, RunNumbers DEF vars, MarkerIsOwn, MarkerShape, Unmarking, Serving, OneHolder, Holds, Alive, TypePhase, TypeRuns, TypeHistory
  <1>1. ASSUME NEW p \in Runs, Spawn(p) PROVE MarkerIsOwn'
    BY <1>1, RunNumbers DEF Spawn, Goto, Die, RemoveMarker, KeepMarker, Remove, asked, files, history, MarkerIsOwn, MarkerShape, Unmarking, Serving, OneHolder, Holds, Alive, TypePhase, TypeRuns, TypeHistory
  <1>2. ASSUME NEW p \in Runs, Claim(p) PROVE MarkerIsOwn'
    BY <1>2, RunNumbers DEF Claim, Goto, Die, RemoveMarker, KeepMarker, Remove, asked, files, history, MarkerIsOwn, MarkerShape, Unmarking, Serving, OneHolder, Holds, Alive, TypePhase, TypeRuns, TypeHistory
  <1>3. ASSUME NEW p \in Runs, ClearHandover(p) PROVE MarkerIsOwn'
    BY <1>3, RunNumbers DEF ClearHandover, Goto, Die, RemoveMarker, KeepMarker, Remove, asked, files, history, MarkerIsOwn, MarkerShape, Unmarking, Serving, OneHolder, Holds, Alive, TypePhase, TypeRuns, TypeHistory
  <1>4. ASSUME NEW p \in Runs, PreparingFails(p) PROVE MarkerIsOwn'
    BY <1>4, RunNumbers DEF PreparingFails, Goto, Die, RemoveMarker, KeepMarker, Remove, asked, files, history, MarkerIsOwn, MarkerShape, Unmarking, Serving, OneHolder, Holds, Alive, TypePhase, TypeRuns, TypeHistory
  <1>5. ASSUME NEW p \in Runs, BindStartup(p) PROVE MarkerIsOwn'
    BY <1>5, RunNumbers DEF BindStartup, Goto, Die, RemoveMarker, KeepMarker, Remove, asked, files, history, MarkerIsOwn, MarkerShape, Unmarking, Serving, OneHolder, Holds, Alive, TypePhase, TypeRuns, TypeHistory
  <1>6. ASSUME NEW p \in Runs, EngineStarted(p) PROVE MarkerIsOwn'
    BY <1>6, RunNumbers DEF EngineStarted, Goto, Die, RemoveMarker, KeepMarker, Remove, asked, files, history, MarkerIsOwn, MarkerShape, Unmarking, Serving, OneHolder, Holds, Alive, TypePhase, TypeRuns, TypeHistory
  <1>7. ASSUME NEW p \in Runs, EngineFails(p) PROVE MarkerIsOwn'
    BY <1>7, RunNumbers DEF EngineFails, Goto, Die, RemoveMarker, KeepMarker, Remove, asked, files, history, MarkerIsOwn, MarkerShape, Unmarking, Serving, OneHolder, Holds, Alive, TypePhase, TypeRuns, TypeHistory
  <1>8. ASSUME NEW p \in Runs, Abandon(p) PROVE MarkerIsOwn'
    BY <1>8, RunNumbers DEF Abandon, Goto, Die, RemoveMarker, KeepMarker, Remove, asked, files, history, MarkerIsOwn, MarkerShape, Unmarking, Serving, OneHolder, Holds, Alive, TypePhase, TypeRuns, TypeHistory
  <1>9. ASSUME NEW p \in Runs, LeaveRefusal(p) PROVE MarkerIsOwn'
    BY <1>9, RunNumbers DEF LeaveRefusal, Goto, Die, RemoveMarker, KeepMarker, Remove, asked, files, history, MarkerIsOwn, MarkerShape, Unmarking, Serving, OneHolder, Holds, Alive, TypePhase, TypeRuns, TypeHistory
  <1>10. ASSUME NEW p \in Runs, RetryAsked(p) PROVE MarkerIsOwn'
    BY <1>10, RunNumbers DEF RetryAsked, Goto, Die, RemoveMarker, KeepMarker, Remove, asked, files, history, MarkerIsOwn, MarkerShape, Unmarking, Serving, OneHolder, Holds, Alive, TypePhase, TypeRuns, TypeHistory
  <1>11. ASSUME NEW p \in Runs, Detect(p) PROVE MarkerIsOwn'
    BY <1>11, RunNumbers DEF Detect, Goto, Die, RemoveMarker, KeepMarker, Remove, asked, files, history, MarkerIsOwn, MarkerShape, Unmarking, Serving, OneHolder, Holds, Alive, TypePhase, TypeRuns, TypeHistory
  <1>12. ASSUME NEW p \in Runs, Mark(p) PROVE MarkerIsOwn'
    BY <1>12, RunNumbers DEF Mark, Goto, Die, RemoveMarker, KeepMarker, Remove, asked, files, history, MarkerIsOwn, MarkerShape, Unmarking, Serving, OneHolder, Holds, Alive, TypePhase, TypeRuns, TypeHistory
  <1>13. ASSUME NEW p \in Runs, MarkFails(p) PROVE MarkerIsOwn'
    BY <1>13, RunNumbers DEF MarkFails, Goto, Die, RemoveMarker, KeepMarker, Remove, asked, files, history, MarkerIsOwn, MarkerShape, Unmarking, Serving, OneHolder, Holds, Alive, TypePhase, TypeRuns, TypeHistory
  <1>14. ASSUME NEW p \in Runs, HttpUp(p) PROVE MarkerIsOwn'
    BY <1>14, RunNumbers DEF HttpUp, Goto, Die, RemoveMarker, KeepMarker, Remove, asked, files, history, MarkerIsOwn, MarkerShape, Unmarking, Serving, OneHolder, Holds, Alive, TypePhase, TypeRuns, TypeHistory
  <1>15. ASSUME NEW p \in Runs, HttpFails(p) PROVE MarkerIsOwn'
    BY <1>15, RunNumbers DEF HttpFails, Goto, Die, RemoveMarker, KeepMarker, Remove, asked, files, history, MarkerIsOwn, MarkerShape, Unmarking, Serving, OneHolder, Holds, Alive, TypePhase, TypeRuns, TypeHistory
  <1>16. ASSUME NEW p \in Runs, EnterService(p) PROVE MarkerIsOwn'
    BY <1>16, RunNumbers DEF EnterService, Goto, Die, RemoveMarker, KeepMarker, Remove, asked, files, history, MarkerIsOwn, MarkerShape, Unmarking, Serving, OneHolder, Holds, Alive, TypePhase, TypeRuns, TypeHistory
  <1>17. ASSUME NEW p \in Runs, GracefulStop(p) PROVE MarkerIsOwn'
    BY <1>17, RunNumbers DEF GracefulStop, Goto, Die, RemoveMarker, KeepMarker, Remove, asked, files, history, MarkerIsOwn, MarkerShape, Unmarking, Serving, OneHolder, Holds, Alive, TypePhase, TypeRuns, TypeHistory
  <1>18. ASSUME NEW p \in Runs, EndRun(p) PROVE MarkerIsOwn'
    BY <1>18, RunNumbers DEF EndRun, Goto, Die, RemoveMarker, KeepMarker, Remove, asked, files, history, MarkerIsOwn, MarkerShape, Unmarking, Serving, OneHolder, Holds, Alive, TypePhase, TypeRuns, TypeHistory
  <1>19. ASSUME NEW p \in Runs, Drained(p) PROVE MarkerIsOwn'
    BY <1>19, RunNumbers DEF Drained, Goto, Die, RemoveMarker, KeepMarker, Remove, asked, files, history, MarkerIsOwn, MarkerShape, Unmarking, Serving, OneHolder, Holds, Alive, TypePhase, TypeRuns, TypeHistory
  <1>20. ASSUME NEW p \in Runs, HttpLost(p) PROVE MarkerIsOwn'
    BY <1>20, RunNumbers DEF HttpLost, Goto, Die, RemoveMarker, KeepMarker, Remove, asked, files, history, MarkerIsOwn, MarkerShape, Unmarking, Serving, OneHolder, Holds, Alive, TypePhase, TypeRuns, TypeHistory
  <1>21. ASSUME NEW p \in Runs, Withdraw(p) PROVE MarkerIsOwn'
    BY <1>21, RunNumbers DEF Withdraw, Goto, Die, RemoveMarker, KeepMarker, Remove, asked, files, history, MarkerIsOwn, MarkerShape, Unmarking, Serving, OneHolder, Holds, Alive, TypePhase, TypeRuns, TypeHistory
  <1>22. ASSUME NEW p \in Runs, MarkClean(p) PROVE MarkerIsOwn'
    BY <1>22, RunNumbers DEF MarkClean, Goto, Die, RemoveMarker, KeepMarker, Remove, asked, files, history, MarkerIsOwn, MarkerShape, Unmarking, Serving, OneHolder, Holds, Alive, TypePhase, TypeRuns, TypeHistory
  <1>23. ASSUME NEW p \in Runs, LeaveLingering(p) PROVE MarkerIsOwn'
    BY <1>23, RunNumbers DEF LeaveLingering, Goto, Die, RemoveMarker, KeepMarker, Remove, asked, files, history, MarkerIsOwn, MarkerShape, Unmarking, Serving, OneHolder, Holds, Alive, TypePhase, TypeRuns, TypeHistory
  <1>24. ASSUME NEW p \in Runs, Quit(p) PROVE MarkerIsOwn'
    BY <1>24, RunNumbers DEF Quit, Goto, Die, RemoveMarker, KeepMarker, Remove, asked, files, history, MarkerIsOwn, MarkerShape, Unmarking, Serving, OneHolder, Holds, Alive, TypePhase, TypeRuns, TypeHistory
  <1>25. ASSUME NEW p \in Runs, AskStop(p) PROVE MarkerIsOwn'
    BY <1>25, RunNumbers DEF AskStop, Goto, Die, RemoveMarker, KeepMarker, Remove, asked, files, history, MarkerIsOwn, MarkerShape, Unmarking, Serving, OneHolder, Holds, Alive, TypePhase, TypeRuns, TypeHistory
  <1>26. ASSUME NEW p \in Runs, Signal(p) PROVE MarkerIsOwn'
    BY <1>26, RunNumbers DEF Signal, Goto, Die, RemoveMarker, KeepMarker, Remove, asked, files, history, MarkerIsOwn, MarkerShape, Unmarking, Serving, OneHolder, Holds, Alive, TypePhase, TypeRuns, TypeHistory
  <1>27. ASSUME NEW p \in Runs, Kill(p) PROVE MarkerIsOwn'
    BY <1>27, RunNumbers DEF Kill, Goto, Die, RemoveMarker, KeepMarker, Remove, asked, files, history, MarkerIsOwn, MarkerShape, Unmarking, Serving, OneHolder, Holds, Alive, TypePhase, TypeRuns, TypeHistory
  <1>28. ASSUME NEW p \in Runs, TokenFails(p) PROVE MarkerIsOwn'
    BY <1>28, RunNumbers DEF TokenFails, Goto, Die, RemoveMarker, KeepMarker, Remove, asked, files, history, MarkerIsOwn, MarkerShape, Unmarking, Serving, OneHolder, Holds, Alive, TypePhase, TypeRuns, TypeHistory
  <1> QED
    BY <1>0, <1>1, <1>2, <1>3, <1>4, <1>5, <1>6, <1>7, <1>8, <1>9, <1>10, <1>11, <1>12, <1>13, <1>14, <1>15, <1>16, <1>17, <1>18, <1>19, <1>20, <1>21, <1>22, <1>23, <1>24, <1>25, <1>26, <1>27, <1>28
    DEF Next, Start, End, Await, Environment

\* A step forgets no crash.
LEMMA CrashKept ==
  ASSUME TypePhase, TypeRuns, TypeHistory, OneHolder, MarkerShape, MarkerIsOwn, CrashIsReported, [Next]_vars
  PROVE  CrashIsReported'
  <1>0. CASE UNCHANGED vars
    BY <1>0, RunNumbers DEF vars, CrashIsReported, MarkerShape, MarkerIsOwn, Serving, TypePhase, TypeRuns, TypeHistory
  <1>1. ASSUME NEW p \in Runs, Spawn(p) PROVE CrashIsReported'
    BY <1>1, RunNumbers DEF Spawn, Goto, Die, RemoveMarker, KeepMarker, Remove, asked, files, history, CrashIsReported, MarkerShape, MarkerIsOwn, Serving, TypePhase, TypeRuns, TypeHistory
  <1>2. ASSUME NEW p \in Runs, Claim(p) PROVE CrashIsReported'
    BY <1>2, RunNumbers DEF Claim, Goto, Die, RemoveMarker, KeepMarker, Remove, asked, files, history, CrashIsReported, MarkerShape, MarkerIsOwn, Serving, TypePhase, TypeRuns, TypeHistory
  <1>3. ASSUME NEW p \in Runs, ClearHandover(p) PROVE CrashIsReported'
    BY <1>3, RunNumbers DEF ClearHandover, Goto, Die, RemoveMarker, KeepMarker, Remove, asked, files, history, CrashIsReported, MarkerShape, MarkerIsOwn, Serving, TypePhase, TypeRuns, TypeHistory
  <1>4. ASSUME NEW p \in Runs, PreparingFails(p) PROVE CrashIsReported'
    BY <1>4, RunNumbers DEF PreparingFails, Goto, Die, RemoveMarker, KeepMarker, Remove, asked, files, history, CrashIsReported, MarkerShape, MarkerIsOwn, Serving, TypePhase, TypeRuns, TypeHistory
  <1>5. ASSUME NEW p \in Runs, BindStartup(p) PROVE CrashIsReported'
    BY <1>5, RunNumbers DEF BindStartup, Goto, Die, RemoveMarker, KeepMarker, Remove, asked, files, history, CrashIsReported, MarkerShape, MarkerIsOwn, Serving, TypePhase, TypeRuns, TypeHistory
  <1>6. ASSUME NEW p \in Runs, EngineStarted(p) PROVE CrashIsReported'
    BY <1>6, RunNumbers DEF EngineStarted, Goto, Die, RemoveMarker, KeepMarker, Remove, asked, files, history, CrashIsReported, MarkerShape, MarkerIsOwn, Serving, TypePhase, TypeRuns, TypeHistory
  <1>7. ASSUME NEW p \in Runs, EngineFails(p) PROVE CrashIsReported'
    BY <1>7, RunNumbers DEF EngineFails, Goto, Die, RemoveMarker, KeepMarker, Remove, asked, files, history, CrashIsReported, MarkerShape, MarkerIsOwn, Serving, TypePhase, TypeRuns, TypeHistory
  <1>8. ASSUME NEW p \in Runs, Abandon(p) PROVE CrashIsReported'
    BY <1>8, RunNumbers DEF Abandon, Goto, Die, RemoveMarker, KeepMarker, Remove, asked, files, history, CrashIsReported, MarkerShape, MarkerIsOwn, Serving, TypePhase, TypeRuns, TypeHistory
  <1>9. ASSUME NEW p \in Runs, LeaveRefusal(p) PROVE CrashIsReported'
    BY <1>9, RunNumbers DEF LeaveRefusal, Goto, Die, RemoveMarker, KeepMarker, Remove, asked, files, history, CrashIsReported, MarkerShape, MarkerIsOwn, Serving, TypePhase, TypeRuns, TypeHistory
  <1>10. ASSUME NEW p \in Runs, RetryAsked(p) PROVE CrashIsReported'
    BY <1>10, RunNumbers DEF RetryAsked, Goto, Die, RemoveMarker, KeepMarker, Remove, asked, files, history, CrashIsReported, MarkerShape, MarkerIsOwn, Serving, TypePhase, TypeRuns, TypeHistory
  <1>11. ASSUME NEW p \in Runs, Detect(p) PROVE CrashIsReported'
    BY <1>11, RunNumbers DEF Detect, Goto, Die, RemoveMarker, KeepMarker, Remove, asked, files, history, CrashIsReported, MarkerShape, MarkerIsOwn, Serving, TypePhase, TypeRuns, TypeHistory
  <1>12. ASSUME NEW p \in Runs, Mark(p) PROVE CrashIsReported'
    BY <1>12, RunNumbers DEF Mark, Goto, Die, RemoveMarker, KeepMarker, Remove, asked, files, history, CrashIsReported, MarkerShape, MarkerIsOwn, Serving, TypePhase, TypeRuns, TypeHistory
  <1>13. ASSUME NEW p \in Runs, MarkFails(p) PROVE CrashIsReported'
    BY <1>13, RunNumbers DEF MarkFails, Goto, Die, RemoveMarker, KeepMarker, Remove, asked, files, history, CrashIsReported, MarkerShape, MarkerIsOwn, Serving, TypePhase, TypeRuns, TypeHistory
  <1>14. ASSUME NEW p \in Runs, HttpUp(p) PROVE CrashIsReported'
    BY <1>14, RunNumbers DEF HttpUp, Goto, Die, RemoveMarker, KeepMarker, Remove, asked, files, history, CrashIsReported, MarkerShape, MarkerIsOwn, Serving, TypePhase, TypeRuns, TypeHistory
  <1>15. ASSUME NEW p \in Runs, HttpFails(p) PROVE CrashIsReported'
    BY <1>15, RunNumbers DEF HttpFails, Goto, Die, RemoveMarker, KeepMarker, Remove, asked, files, history, CrashIsReported, MarkerShape, MarkerIsOwn, Serving, TypePhase, TypeRuns, TypeHistory
  <1>16. ASSUME NEW p \in Runs, EnterService(p) PROVE CrashIsReported'
    BY <1>16, RunNumbers DEF EnterService, Goto, Die, RemoveMarker, KeepMarker, Remove, asked, files, history, CrashIsReported, MarkerShape, MarkerIsOwn, Serving, TypePhase, TypeRuns, TypeHistory
  <1>17. ASSUME NEW p \in Runs, GracefulStop(p) PROVE CrashIsReported'
    BY <1>17, RunNumbers DEF GracefulStop, Goto, Die, RemoveMarker, KeepMarker, Remove, asked, files, history, CrashIsReported, MarkerShape, MarkerIsOwn, Serving, TypePhase, TypeRuns, TypeHistory
  <1>18. ASSUME NEW p \in Runs, EndRun(p) PROVE CrashIsReported'
    BY <1>18, RunNumbers DEF EndRun, Goto, Die, RemoveMarker, KeepMarker, Remove, asked, files, history, CrashIsReported, MarkerShape, MarkerIsOwn, Serving, TypePhase, TypeRuns, TypeHistory
  <1>19. ASSUME NEW p \in Runs, Drained(p) PROVE CrashIsReported'
    BY <1>19, RunNumbers DEF Drained, Goto, Die, RemoveMarker, KeepMarker, Remove, asked, files, history, CrashIsReported, MarkerShape, MarkerIsOwn, Serving, TypePhase, TypeRuns, TypeHistory
  <1>20. ASSUME NEW p \in Runs, HttpLost(p) PROVE CrashIsReported'
    BY <1>20, RunNumbers DEF HttpLost, Goto, Die, RemoveMarker, KeepMarker, Remove, asked, files, history, CrashIsReported, MarkerShape, MarkerIsOwn, Serving, TypePhase, TypeRuns, TypeHistory
  <1>21. ASSUME NEW p \in Runs, Withdraw(p) PROVE CrashIsReported'
    BY <1>21, RunNumbers DEF Withdraw, Goto, Die, RemoveMarker, KeepMarker, Remove, asked, files, history, CrashIsReported, MarkerShape, MarkerIsOwn, Serving, TypePhase, TypeRuns, TypeHistory
  <1>22. ASSUME NEW p \in Runs, MarkClean(p) PROVE CrashIsReported'
    BY <1>22, RunNumbers DEF MarkClean, Goto, Die, RemoveMarker, KeepMarker, Remove, asked, files, history, CrashIsReported, MarkerShape, MarkerIsOwn, Serving, TypePhase, TypeRuns, TypeHistory
  <1>23. ASSUME NEW p \in Runs, LeaveLingering(p) PROVE CrashIsReported'
    BY <1>23, RunNumbers DEF LeaveLingering, Goto, Die, RemoveMarker, KeepMarker, Remove, asked, files, history, CrashIsReported, MarkerShape, MarkerIsOwn, Serving, TypePhase, TypeRuns, TypeHistory
  <1>24. ASSUME NEW p \in Runs, Quit(p) PROVE CrashIsReported'
    BY <1>24, RunNumbers DEF Quit, Goto, Die, RemoveMarker, KeepMarker, Remove, asked, files, history, CrashIsReported, MarkerShape, MarkerIsOwn, Serving, TypePhase, TypeRuns, TypeHistory
  <1>25. ASSUME NEW p \in Runs, AskStop(p) PROVE CrashIsReported'
    BY <1>25, RunNumbers DEF AskStop, Goto, Die, RemoveMarker, KeepMarker, Remove, asked, files, history, CrashIsReported, MarkerShape, MarkerIsOwn, Serving, TypePhase, TypeRuns, TypeHistory
  <1>26. ASSUME NEW p \in Runs, Signal(p) PROVE CrashIsReported'
    BY <1>26, RunNumbers DEF Signal, Goto, Die, RemoveMarker, KeepMarker, Remove, asked, files, history, CrashIsReported, MarkerShape, MarkerIsOwn, Serving, TypePhase, TypeRuns, TypeHistory
  <1>27. ASSUME NEW p \in Runs, Kill(p) PROVE CrashIsReported'
    BY <1>27, RunNumbers DEF Kill, Goto, Die, RemoveMarker, KeepMarker, Remove, asked, files, history, CrashIsReported, MarkerShape, MarkerIsOwn, Serving, TypePhase, TypeRuns, TypeHistory
  <1>28. ASSUME NEW p \in Runs, TokenFails(p) PROVE CrashIsReported'
    BY <1>28, RunNumbers DEF TokenFails, Goto, Die, RemoveMarker, KeepMarker, Remove, asked, files, history, CrashIsReported, MarkerShape, MarkerIsOwn, Serving, TypePhase, TypeRuns, TypeHistory
  <1> QED
    BY <1>0, <1>1, <1>2, <1>3, <1>4, <1>5, <1>6, <1>7, <1>8, <1>9, <1>10, <1>11, <1>12, <1>13, <1>14, <1>15, <1>16, <1>17, <1>18, <1>19, <1>20, <1>21, <1>22, <1>23, <1>24, <1>25, <1>26, <1>27, <1>28
    DEF Next, Start, End, Await, Environment

\* A step leaves the record's consumer the holder.
LEMMA ConsumerKept ==
  ASSUME TypePhase, OneHolder, ConsumerHolds, [Next]_vars
  PROVE  ConsumerHolds'
  <1>0. CASE UNCHANGED vars
    BY <1>0 DEF vars, ConsumerHolds, OneHolder, Holds, Alive, TypePhase
  <1>1. ASSUME NEW p \in Runs, Spawn(p) PROVE ConsumerHolds'
    BY <1>1 DEF Spawn, Goto, Die, RemoveMarker, KeepMarker, Remove, asked, files, history, ConsumerHolds, OneHolder, Holds, Alive, TypePhase
  <1>2. ASSUME NEW p \in Runs, Claim(p) PROVE ConsumerHolds'
    BY <1>2 DEF Claim, Goto, Die, RemoveMarker, KeepMarker, Remove, asked, files, history, ConsumerHolds, OneHolder, Holds, Alive, TypePhase
  <1>3. ASSUME NEW p \in Runs, ClearHandover(p) PROVE ConsumerHolds'
    BY <1>3 DEF ClearHandover, Goto, Die, RemoveMarker, KeepMarker, Remove, asked, files, history, ConsumerHolds, OneHolder, Holds, Alive, TypePhase
  <1>4. ASSUME NEW p \in Runs, PreparingFails(p) PROVE ConsumerHolds'
    BY <1>4 DEF PreparingFails, Goto, Die, RemoveMarker, KeepMarker, Remove, asked, files, history, ConsumerHolds, OneHolder, Holds, Alive, TypePhase
  <1>5. ASSUME NEW p \in Runs, BindStartup(p) PROVE ConsumerHolds'
    BY <1>5 DEF BindStartup, Goto, Die, RemoveMarker, KeepMarker, Remove, asked, files, history, ConsumerHolds, OneHolder, Holds, Alive, TypePhase
  <1>6. ASSUME NEW p \in Runs, EngineStarted(p) PROVE ConsumerHolds'
    BY <1>6 DEF EngineStarted, Goto, Die, RemoveMarker, KeepMarker, Remove, asked, files, history, ConsumerHolds, OneHolder, Holds, Alive, TypePhase
  <1>7. ASSUME NEW p \in Runs, EngineFails(p) PROVE ConsumerHolds'
    BY <1>7 DEF EngineFails, Goto, Die, RemoveMarker, KeepMarker, Remove, asked, files, history, ConsumerHolds, OneHolder, Holds, Alive, TypePhase
  <1>8. ASSUME NEW p \in Runs, Abandon(p) PROVE ConsumerHolds'
    BY <1>8 DEF Abandon, Goto, Die, RemoveMarker, KeepMarker, Remove, asked, files, history, ConsumerHolds, OneHolder, Holds, Alive, TypePhase
  <1>9. ASSUME NEW p \in Runs, LeaveRefusal(p) PROVE ConsumerHolds'
    BY <1>9 DEF LeaveRefusal, Goto, Die, RemoveMarker, KeepMarker, Remove, asked, files, history, ConsumerHolds, OneHolder, Holds, Alive, TypePhase
  <1>10. ASSUME NEW p \in Runs, RetryAsked(p) PROVE ConsumerHolds'
    BY <1>10 DEF RetryAsked, Goto, Die, RemoveMarker, KeepMarker, Remove, asked, files, history, ConsumerHolds, OneHolder, Holds, Alive, TypePhase
  <1>11. ASSUME NEW p \in Runs, Detect(p) PROVE ConsumerHolds'
    BY <1>11 DEF Detect, Goto, Die, RemoveMarker, KeepMarker, Remove, asked, files, history, ConsumerHolds, OneHolder, Holds, Alive, TypePhase
  <1>12. ASSUME NEW p \in Runs, Mark(p) PROVE ConsumerHolds'
    BY <1>12 DEF Mark, Goto, Die, RemoveMarker, KeepMarker, Remove, asked, files, history, ConsumerHolds, OneHolder, Holds, Alive, TypePhase
  <1>13. ASSUME NEW p \in Runs, MarkFails(p) PROVE ConsumerHolds'
    BY <1>13 DEF MarkFails, Goto, Die, RemoveMarker, KeepMarker, Remove, asked, files, history, ConsumerHolds, OneHolder, Holds, Alive, TypePhase
  <1>14. ASSUME NEW p \in Runs, HttpUp(p) PROVE ConsumerHolds'
    BY <1>14 DEF HttpUp, Goto, Die, RemoveMarker, KeepMarker, Remove, asked, files, history, ConsumerHolds, OneHolder, Holds, Alive, TypePhase
  <1>15. ASSUME NEW p \in Runs, HttpFails(p) PROVE ConsumerHolds'
    BY <1>15 DEF HttpFails, Goto, Die, RemoveMarker, KeepMarker, Remove, asked, files, history, ConsumerHolds, OneHolder, Holds, Alive, TypePhase
  <1>16. ASSUME NEW p \in Runs, EnterService(p) PROVE ConsumerHolds'
    BY <1>16 DEF EnterService, Goto, Die, RemoveMarker, KeepMarker, Remove, asked, files, history, ConsumerHolds, OneHolder, Holds, Alive, TypePhase
  <1>17. ASSUME NEW p \in Runs, GracefulStop(p) PROVE ConsumerHolds'
    BY <1>17 DEF GracefulStop, Goto, Die, RemoveMarker, KeepMarker, Remove, asked, files, history, ConsumerHolds, OneHolder, Holds, Alive, TypePhase
  <1>18. ASSUME NEW p \in Runs, EndRun(p) PROVE ConsumerHolds'
    BY <1>18 DEF EndRun, Goto, Die, RemoveMarker, KeepMarker, Remove, asked, files, history, ConsumerHolds, OneHolder, Holds, Alive, TypePhase
  <1>19. ASSUME NEW p \in Runs, Drained(p) PROVE ConsumerHolds'
    BY <1>19 DEF Drained, Goto, Die, RemoveMarker, KeepMarker, Remove, asked, files, history, ConsumerHolds, OneHolder, Holds, Alive, TypePhase
  <1>20. ASSUME NEW p \in Runs, HttpLost(p) PROVE ConsumerHolds'
    BY <1>20 DEF HttpLost, Goto, Die, RemoveMarker, KeepMarker, Remove, asked, files, history, ConsumerHolds, OneHolder, Holds, Alive, TypePhase
  <1>21. ASSUME NEW p \in Runs, Withdraw(p) PROVE ConsumerHolds'
    BY <1>21 DEF Withdraw, Goto, Die, RemoveMarker, KeepMarker, Remove, asked, files, history, ConsumerHolds, OneHolder, Holds, Alive, TypePhase
  <1>22. ASSUME NEW p \in Runs, MarkClean(p) PROVE ConsumerHolds'
    BY <1>22 DEF MarkClean, Goto, Die, RemoveMarker, KeepMarker, Remove, asked, files, history, ConsumerHolds, OneHolder, Holds, Alive, TypePhase
  <1>23. ASSUME NEW p \in Runs, LeaveLingering(p) PROVE ConsumerHolds'
    BY <1>23 DEF LeaveLingering, Goto, Die, RemoveMarker, KeepMarker, Remove, asked, files, history, ConsumerHolds, OneHolder, Holds, Alive, TypePhase
  <1>24. ASSUME NEW p \in Runs, Quit(p) PROVE ConsumerHolds'
    BY <1>24 DEF Quit, Goto, Die, RemoveMarker, KeepMarker, Remove, asked, files, history, ConsumerHolds, OneHolder, Holds, Alive, TypePhase
  <1>25. ASSUME NEW p \in Runs, AskStop(p) PROVE ConsumerHolds'
    BY <1>25 DEF AskStop, Goto, Die, RemoveMarker, KeepMarker, Remove, asked, files, history, ConsumerHolds, OneHolder, Holds, Alive, TypePhase
  <1>26. ASSUME NEW p \in Runs, Signal(p) PROVE ConsumerHolds'
    BY <1>26 DEF Signal, Goto, Die, RemoveMarker, KeepMarker, Remove, asked, files, history, ConsumerHolds, OneHolder, Holds, Alive, TypePhase
  <1>27. ASSUME NEW p \in Runs, Kill(p) PROVE ConsumerHolds'
    BY <1>27 DEF Kill, Goto, Die, RemoveMarker, KeepMarker, Remove, asked, files, history, ConsumerHolds, OneHolder, Holds, Alive, TypePhase
  <1>28. ASSUME NEW p \in Runs, TokenFails(p) PROVE ConsumerHolds'
    BY <1>28 DEF TokenFails, Goto, Die, RemoveMarker, KeepMarker, Remove, asked, files, history, ConsumerHolds, OneHolder, Holds, Alive, TypePhase
  <1> QED
    BY <1>0, <1>1, <1>2, <1>3, <1>4, <1>5, <1>6, <1>7, <1>8, <1>9, <1>10, <1>11, <1>12, <1>13, <1>14, <1>15, <1>16, <1>17, <1>18, <1>19, <1>20, <1>21, <1>22, <1>23, <1>24, <1>25, <1>26, <1>27, <1>28
    DEF Next, Start, End, Await, Environment

\* A step leaves a handover with its consumer.
LEMMA HandoverKept ==
  ASSUME TypePhase, ConsumerHolds, HandoverIsTheLast, [Next]_vars
  PROVE  HandoverIsTheLast'
  <1>0. CASE UNCHANGED vars
    BY <1>0 DEF vars, HandoverIsTheLast, ConsumerHolds, Holds, Alive, TypePhase
  <1>1. ASSUME NEW p \in Runs, Spawn(p) PROVE HandoverIsTheLast'
    BY <1>1 DEF Spawn, Goto, Die, RemoveMarker, KeepMarker, Remove, asked, files, history, HandoverIsTheLast, ConsumerHolds, Holds, Alive, TypePhase
  <1>2. ASSUME NEW p \in Runs, Claim(p) PROVE HandoverIsTheLast'
    BY <1>2 DEF Claim, Goto, Die, RemoveMarker, KeepMarker, Remove, asked, files, history, HandoverIsTheLast, ConsumerHolds, Holds, Alive, TypePhase
  <1>3. ASSUME NEW p \in Runs, ClearHandover(p) PROVE HandoverIsTheLast'
    BY <1>3 DEF ClearHandover, Goto, Die, RemoveMarker, KeepMarker, Remove, asked, files, history, HandoverIsTheLast, ConsumerHolds, Holds, Alive, TypePhase
  <1>4. ASSUME NEW p \in Runs, PreparingFails(p) PROVE HandoverIsTheLast'
    BY <1>4 DEF PreparingFails, Goto, Die, RemoveMarker, KeepMarker, Remove, asked, files, history, HandoverIsTheLast, ConsumerHolds, Holds, Alive, TypePhase
  <1>5. ASSUME NEW p \in Runs, BindStartup(p) PROVE HandoverIsTheLast'
    BY <1>5 DEF BindStartup, Goto, Die, RemoveMarker, KeepMarker, Remove, asked, files, history, HandoverIsTheLast, ConsumerHolds, Holds, Alive, TypePhase
  <1>6. ASSUME NEW p \in Runs, EngineStarted(p) PROVE HandoverIsTheLast'
    BY <1>6 DEF EngineStarted, Goto, Die, RemoveMarker, KeepMarker, Remove, asked, files, history, HandoverIsTheLast, ConsumerHolds, Holds, Alive, TypePhase
  <1>7. ASSUME NEW p \in Runs, EngineFails(p) PROVE HandoverIsTheLast'
    BY <1>7 DEF EngineFails, Goto, Die, RemoveMarker, KeepMarker, Remove, asked, files, history, HandoverIsTheLast, ConsumerHolds, Holds, Alive, TypePhase
  <1>8. ASSUME NEW p \in Runs, Abandon(p) PROVE HandoverIsTheLast'
    BY <1>8 DEF Abandon, Goto, Die, RemoveMarker, KeepMarker, Remove, asked, files, history, HandoverIsTheLast, ConsumerHolds, Holds, Alive, TypePhase
  <1>9. ASSUME NEW p \in Runs, LeaveRefusal(p) PROVE HandoverIsTheLast'
    BY <1>9 DEF LeaveRefusal, Goto, Die, RemoveMarker, KeepMarker, Remove, asked, files, history, HandoverIsTheLast, ConsumerHolds, Holds, Alive, TypePhase
  <1>10. ASSUME NEW p \in Runs, RetryAsked(p) PROVE HandoverIsTheLast'
    BY <1>10 DEF RetryAsked, Goto, Die, RemoveMarker, KeepMarker, Remove, asked, files, history, HandoverIsTheLast, ConsumerHolds, Holds, Alive, TypePhase
  <1>11. ASSUME NEW p \in Runs, Detect(p) PROVE HandoverIsTheLast'
    BY <1>11 DEF Detect, Goto, Die, RemoveMarker, KeepMarker, Remove, asked, files, history, HandoverIsTheLast, ConsumerHolds, Holds, Alive, TypePhase
  <1>12. ASSUME NEW p \in Runs, Mark(p) PROVE HandoverIsTheLast'
    BY <1>12 DEF Mark, Goto, Die, RemoveMarker, KeepMarker, Remove, asked, files, history, HandoverIsTheLast, ConsumerHolds, Holds, Alive, TypePhase
  <1>13. ASSUME NEW p \in Runs, MarkFails(p) PROVE HandoverIsTheLast'
    BY <1>13 DEF MarkFails, Goto, Die, RemoveMarker, KeepMarker, Remove, asked, files, history, HandoverIsTheLast, ConsumerHolds, Holds, Alive, TypePhase
  <1>14. ASSUME NEW p \in Runs, HttpUp(p) PROVE HandoverIsTheLast'
    BY <1>14 DEF HttpUp, Goto, Die, RemoveMarker, KeepMarker, Remove, asked, files, history, HandoverIsTheLast, ConsumerHolds, Holds, Alive, TypePhase
  <1>15. ASSUME NEW p \in Runs, HttpFails(p) PROVE HandoverIsTheLast'
    BY <1>15 DEF HttpFails, Goto, Die, RemoveMarker, KeepMarker, Remove, asked, files, history, HandoverIsTheLast, ConsumerHolds, Holds, Alive, TypePhase
  <1>16. ASSUME NEW p \in Runs, EnterService(p) PROVE HandoverIsTheLast'
    BY <1>16 DEF EnterService, Goto, Die, RemoveMarker, KeepMarker, Remove, asked, files, history, HandoverIsTheLast, ConsumerHolds, Holds, Alive, TypePhase
  <1>17. ASSUME NEW p \in Runs, GracefulStop(p) PROVE HandoverIsTheLast'
    BY <1>17 DEF GracefulStop, Goto, Die, RemoveMarker, KeepMarker, Remove, asked, files, history, HandoverIsTheLast, ConsumerHolds, Holds, Alive, TypePhase
  <1>18. ASSUME NEW p \in Runs, EndRun(p) PROVE HandoverIsTheLast'
    BY <1>18 DEF EndRun, Goto, Die, RemoveMarker, KeepMarker, Remove, asked, files, history, HandoverIsTheLast, ConsumerHolds, Holds, Alive, TypePhase
  <1>19. ASSUME NEW p \in Runs, Drained(p) PROVE HandoverIsTheLast'
    BY <1>19 DEF Drained, Goto, Die, RemoveMarker, KeepMarker, Remove, asked, files, history, HandoverIsTheLast, ConsumerHolds, Holds, Alive, TypePhase
  <1>20. ASSUME NEW p \in Runs, HttpLost(p) PROVE HandoverIsTheLast'
    BY <1>20 DEF HttpLost, Goto, Die, RemoveMarker, KeepMarker, Remove, asked, files, history, HandoverIsTheLast, ConsumerHolds, Holds, Alive, TypePhase
  <1>21. ASSUME NEW p \in Runs, Withdraw(p) PROVE HandoverIsTheLast'
    BY <1>21 DEF Withdraw, Goto, Die, RemoveMarker, KeepMarker, Remove, asked, files, history, HandoverIsTheLast, ConsumerHolds, Holds, Alive, TypePhase
  <1>22. ASSUME NEW p \in Runs, MarkClean(p) PROVE HandoverIsTheLast'
    BY <1>22 DEF MarkClean, Goto, Die, RemoveMarker, KeepMarker, Remove, asked, files, history, HandoverIsTheLast, ConsumerHolds, Holds, Alive, TypePhase
  <1>23. ASSUME NEW p \in Runs, LeaveLingering(p) PROVE HandoverIsTheLast'
    BY <1>23 DEF LeaveLingering, Goto, Die, RemoveMarker, KeepMarker, Remove, asked, files, history, HandoverIsTheLast, ConsumerHolds, Holds, Alive, TypePhase
  <1>24. ASSUME NEW p \in Runs, Quit(p) PROVE HandoverIsTheLast'
    BY <1>24 DEF Quit, Goto, Die, RemoveMarker, KeepMarker, Remove, asked, files, history, HandoverIsTheLast, ConsumerHolds, Holds, Alive, TypePhase
  <1>25. ASSUME NEW p \in Runs, AskStop(p) PROVE HandoverIsTheLast'
    BY <1>25 DEF AskStop, Goto, Die, RemoveMarker, KeepMarker, Remove, asked, files, history, HandoverIsTheLast, ConsumerHolds, Holds, Alive, TypePhase
  <1>26. ASSUME NEW p \in Runs, Signal(p) PROVE HandoverIsTheLast'
    BY <1>26 DEF Signal, Goto, Die, RemoveMarker, KeepMarker, Remove, asked, files, history, HandoverIsTheLast, ConsumerHolds, Holds, Alive, TypePhase
  <1>27. ASSUME NEW p \in Runs, Kill(p) PROVE HandoverIsTheLast'
    BY <1>27 DEF Kill, Goto, Die, RemoveMarker, KeepMarker, Remove, asked, files, history, HandoverIsTheLast, ConsumerHolds, Holds, Alive, TypePhase
  <1>28. ASSUME NEW p \in Runs, TokenFails(p) PROVE HandoverIsTheLast'
    BY <1>28 DEF TokenFails, Goto, Die, RemoveMarker, KeepMarker, Remove, asked, files, history, HandoverIsTheLast, ConsumerHolds, Holds, Alive, TypePhase
  <1> QED
    BY <1>0, <1>1, <1>2, <1>3, <1>4, <1>5, <1>6, <1>7, <1>8, <1>9, <1>10, <1>11, <1>12, <1>13, <1>14, <1>15, <1>16, <1>17, <1>18, <1>19, <1>20, <1>21, <1>22, <1>23, <1>24, <1>25, <1>26, <1>27, <1>28
    DEF Next, Start, End, Await, Environment

\* A step leaves the files leading to the holder.
LEMMA FilesKept ==
  ASSUME TypePhase, TypeRuns, OneHolder, FilesShape, [Next]_vars
  PROVE  FilesShape'
  <1>0. CASE UNCHANGED vars
    BY <1>0, RunNumbers DEF vars, FilesShape, Unmarking, OneHolder, Holds, Alive, TypePhase, TypeRuns
  <1>1. ASSUME NEW p \in Runs, Spawn(p) PROVE FilesShape'
    BY <1>1, RunNumbers DEF Spawn, Goto, Die, RemoveMarker, KeepMarker, Remove, asked, files, history, FilesShape, Unmarking, OneHolder, Holds, Alive, TypePhase, TypeRuns
  <1>2. ASSUME NEW p \in Runs, Claim(p) PROVE FilesShape'
    BY <1>2, RunNumbers DEF Claim, Goto, Die, RemoveMarker, KeepMarker, Remove, asked, files, history, FilesShape, Unmarking, OneHolder, Holds, Alive, TypePhase, TypeRuns
  <1>3. ASSUME NEW p \in Runs, ClearHandover(p) PROVE FilesShape'
    BY <1>3, RunNumbers DEF ClearHandover, Goto, Die, RemoveMarker, KeepMarker, Remove, asked, files, history, FilesShape, Unmarking, OneHolder, Holds, Alive, TypePhase, TypeRuns
  <1>4. ASSUME NEW p \in Runs, PreparingFails(p) PROVE FilesShape'
    BY <1>4, RunNumbers DEF PreparingFails, Goto, Die, RemoveMarker, KeepMarker, Remove, asked, files, history, FilesShape, Unmarking, OneHolder, Holds, Alive, TypePhase, TypeRuns
  <1>5. ASSUME NEW p \in Runs, BindStartup(p) PROVE FilesShape'
    BY <1>5, RunNumbers DEF BindStartup, Goto, Die, RemoveMarker, KeepMarker, Remove, asked, files, history, FilesShape, Unmarking, OneHolder, Holds, Alive, TypePhase, TypeRuns
  <1>6. ASSUME NEW p \in Runs, EngineStarted(p) PROVE FilesShape'
    BY <1>6, RunNumbers DEF EngineStarted, Goto, Die, RemoveMarker, KeepMarker, Remove, asked, files, history, FilesShape, Unmarking, OneHolder, Holds, Alive, TypePhase, TypeRuns
  <1>7. ASSUME NEW p \in Runs, EngineFails(p) PROVE FilesShape'
    BY <1>7, RunNumbers DEF EngineFails, Goto, Die, RemoveMarker, KeepMarker, Remove, asked, files, history, FilesShape, Unmarking, OneHolder, Holds, Alive, TypePhase, TypeRuns
  <1>8. ASSUME NEW p \in Runs, Abandon(p) PROVE FilesShape'
    BY <1>8, RunNumbers DEF Abandon, Goto, Die, RemoveMarker, KeepMarker, Remove, asked, files, history, FilesShape, Unmarking, OneHolder, Holds, Alive, TypePhase, TypeRuns
  <1>9. ASSUME NEW p \in Runs, LeaveRefusal(p) PROVE FilesShape'
    BY <1>9, RunNumbers DEF LeaveRefusal, Goto, Die, RemoveMarker, KeepMarker, Remove, asked, files, history, FilesShape, Unmarking, OneHolder, Holds, Alive, TypePhase, TypeRuns
  <1>10. ASSUME NEW p \in Runs, RetryAsked(p) PROVE FilesShape'
    BY <1>10, RunNumbers DEF RetryAsked, Goto, Die, RemoveMarker, KeepMarker, Remove, asked, files, history, FilesShape, Unmarking, OneHolder, Holds, Alive, TypePhase, TypeRuns
  <1>11. ASSUME NEW p \in Runs, Detect(p) PROVE FilesShape'
    BY <1>11, RunNumbers DEF Detect, Goto, Die, RemoveMarker, KeepMarker, Remove, asked, files, history, FilesShape, Unmarking, OneHolder, Holds, Alive, TypePhase, TypeRuns
  <1>12. ASSUME NEW p \in Runs, Mark(p) PROVE FilesShape'
    BY <1>12, RunNumbers DEF Mark, Goto, Die, RemoveMarker, KeepMarker, Remove, asked, files, history, FilesShape, Unmarking, OneHolder, Holds, Alive, TypePhase, TypeRuns
  <1>13. ASSUME NEW p \in Runs, MarkFails(p) PROVE FilesShape'
    BY <1>13, RunNumbers DEF MarkFails, Goto, Die, RemoveMarker, KeepMarker, Remove, asked, files, history, FilesShape, Unmarking, OneHolder, Holds, Alive, TypePhase, TypeRuns
  <1>14. ASSUME NEW p \in Runs, HttpUp(p) PROVE FilesShape'
    BY <1>14, RunNumbers DEF HttpUp, Goto, Die, RemoveMarker, KeepMarker, Remove, asked, files, history, FilesShape, Unmarking, OneHolder, Holds, Alive, TypePhase, TypeRuns
  <1>15. ASSUME NEW p \in Runs, HttpFails(p) PROVE FilesShape'
    BY <1>15, RunNumbers DEF HttpFails, Goto, Die, RemoveMarker, KeepMarker, Remove, asked, files, history, FilesShape, Unmarking, OneHolder, Holds, Alive, TypePhase, TypeRuns
  <1>16. ASSUME NEW p \in Runs, EnterService(p) PROVE FilesShape'
    BY <1>16, RunNumbers DEF EnterService, Goto, Die, RemoveMarker, KeepMarker, Remove, asked, files, history, FilesShape, Unmarking, OneHolder, Holds, Alive, TypePhase, TypeRuns
  <1>17. ASSUME NEW p \in Runs, GracefulStop(p) PROVE FilesShape'
    BY <1>17, RunNumbers DEF GracefulStop, Goto, Die, RemoveMarker, KeepMarker, Remove, asked, files, history, FilesShape, Unmarking, OneHolder, Holds, Alive, TypePhase, TypeRuns
  <1>18. ASSUME NEW p \in Runs, EndRun(p) PROVE FilesShape'
    BY <1>18, RunNumbers DEF EndRun, Goto, Die, RemoveMarker, KeepMarker, Remove, asked, files, history, FilesShape, Unmarking, OneHolder, Holds, Alive, TypePhase, TypeRuns
  <1>19. ASSUME NEW p \in Runs, Drained(p) PROVE FilesShape'
    BY <1>19, RunNumbers DEF Drained, Goto, Die, RemoveMarker, KeepMarker, Remove, asked, files, history, FilesShape, Unmarking, OneHolder, Holds, Alive, TypePhase, TypeRuns
  <1>20. ASSUME NEW p \in Runs, HttpLost(p) PROVE FilesShape'
    BY <1>20, RunNumbers DEF HttpLost, Goto, Die, RemoveMarker, KeepMarker, Remove, asked, files, history, FilesShape, Unmarking, OneHolder, Holds, Alive, TypePhase, TypeRuns
  <1>21. ASSUME NEW p \in Runs, Withdraw(p) PROVE FilesShape'
    BY <1>21, RunNumbers DEF Withdraw, Goto, Die, RemoveMarker, KeepMarker, Remove, asked, files, history, FilesShape, Unmarking, OneHolder, Holds, Alive, TypePhase, TypeRuns
  <1>22. ASSUME NEW p \in Runs, MarkClean(p) PROVE FilesShape'
    BY <1>22, RunNumbers DEF MarkClean, Goto, Die, RemoveMarker, KeepMarker, Remove, asked, files, history, FilesShape, Unmarking, OneHolder, Holds, Alive, TypePhase, TypeRuns
  <1>23. ASSUME NEW p \in Runs, LeaveLingering(p) PROVE FilesShape'
    BY <1>23, RunNumbers DEF LeaveLingering, Goto, Die, RemoveMarker, KeepMarker, Remove, asked, files, history, FilesShape, Unmarking, OneHolder, Holds, Alive, TypePhase, TypeRuns
  <1>24. ASSUME NEW p \in Runs, Quit(p) PROVE FilesShape'
    BY <1>24, RunNumbers DEF Quit, Goto, Die, RemoveMarker, KeepMarker, Remove, asked, files, history, FilesShape, Unmarking, OneHolder, Holds, Alive, TypePhase, TypeRuns
  <1>25. ASSUME NEW p \in Runs, AskStop(p) PROVE FilesShape'
    BY <1>25, RunNumbers DEF AskStop, Goto, Die, RemoveMarker, KeepMarker, Remove, asked, files, history, FilesShape, Unmarking, OneHolder, Holds, Alive, TypePhase, TypeRuns
  <1>26. ASSUME NEW p \in Runs, Signal(p) PROVE FilesShape'
    BY <1>26, RunNumbers DEF Signal, Goto, Die, RemoveMarker, KeepMarker, Remove, asked, files, history, FilesShape, Unmarking, OneHolder, Holds, Alive, TypePhase, TypeRuns
  <1>27. ASSUME NEW p \in Runs, Kill(p) PROVE FilesShape'
    BY <1>27, RunNumbers DEF Kill, Goto, Die, RemoveMarker, KeepMarker, Remove, asked, files, history, FilesShape, Unmarking, OneHolder, Holds, Alive, TypePhase, TypeRuns
  <1>28. ASSUME NEW p \in Runs, TokenFails(p) PROVE FilesShape'
    BY <1>28, RunNumbers DEF TokenFails, Goto, Die, RemoveMarker, KeepMarker, Remove, asked, files, history, FilesShape, Unmarking, OneHolder, Holds, Alive, TypePhase, TypeRuns
  <1> QED
    BY <1>0, <1>1, <1>2, <1>3, <1>4, <1>5, <1>6, <1>7, <1>8, <1>9, <1>10, <1>11, <1>12, <1>13, <1>14, <1>15, <1>16, <1>17, <1>18, <1>19, <1>20, <1>21, <1>22, <1>23, <1>24, <1>25, <1>26, <1>27, <1>28
    DEF Next, Start, End, Await, Environment

\* A step leaves no file of a run that ended tidily.
LEMMA TidyKept ==
  ASSUME TypePhase, TypeRuns, OneHolder, FilesShape, OrderlyEndsLeaveNoFile, [Next]_vars
  PROVE  OrderlyEndsLeaveNoFile'
  <1>0. CASE UNCHANGED vars
    BY <1>0, RunNumbers DEF vars, OrderlyEndsLeaveNoFile, FilesShape, Unmarking, OneHolder, Holds, Alive, TypePhase, TypeRuns
  <1>1. ASSUME NEW p \in Runs, Spawn(p) PROVE OrderlyEndsLeaveNoFile'
    BY <1>1, RunNumbers DEF Spawn, Goto, Die, RemoveMarker, KeepMarker, Remove, asked, files, history, OrderlyEndsLeaveNoFile, FilesShape, Unmarking, OneHolder, Holds, Alive, TypePhase, TypeRuns
  <1>2. ASSUME NEW p \in Runs, Claim(p) PROVE OrderlyEndsLeaveNoFile'
    BY <1>2, RunNumbers DEF Claim, Goto, Die, RemoveMarker, KeepMarker, Remove, asked, files, history, OrderlyEndsLeaveNoFile, FilesShape, Unmarking, OneHolder, Holds, Alive, TypePhase, TypeRuns
  <1>3. ASSUME NEW p \in Runs, ClearHandover(p) PROVE OrderlyEndsLeaveNoFile'
    BY <1>3, RunNumbers DEF ClearHandover, Goto, Die, RemoveMarker, KeepMarker, Remove, asked, files, history, OrderlyEndsLeaveNoFile, FilesShape, Unmarking, OneHolder, Holds, Alive, TypePhase, TypeRuns
  <1>4. ASSUME NEW p \in Runs, PreparingFails(p) PROVE OrderlyEndsLeaveNoFile'
    BY <1>4, RunNumbers DEF PreparingFails, Goto, Die, RemoveMarker, KeepMarker, Remove, asked, files, history, OrderlyEndsLeaveNoFile, FilesShape, Unmarking, OneHolder, Holds, Alive, TypePhase, TypeRuns
  <1>5. ASSUME NEW p \in Runs, BindStartup(p) PROVE OrderlyEndsLeaveNoFile'
    BY <1>5, RunNumbers DEF BindStartup, Goto, Die, RemoveMarker, KeepMarker, Remove, asked, files, history, OrderlyEndsLeaveNoFile, FilesShape, Unmarking, OneHolder, Holds, Alive, TypePhase, TypeRuns
  <1>6. ASSUME NEW p \in Runs, EngineStarted(p) PROVE OrderlyEndsLeaveNoFile'
    BY <1>6, RunNumbers DEF EngineStarted, Goto, Die, RemoveMarker, KeepMarker, Remove, asked, files, history, OrderlyEndsLeaveNoFile, FilesShape, Unmarking, OneHolder, Holds, Alive, TypePhase, TypeRuns
  <1>7. ASSUME NEW p \in Runs, EngineFails(p) PROVE OrderlyEndsLeaveNoFile'
    BY <1>7, RunNumbers DEF EngineFails, Goto, Die, RemoveMarker, KeepMarker, Remove, asked, files, history, OrderlyEndsLeaveNoFile, FilesShape, Unmarking, OneHolder, Holds, Alive, TypePhase, TypeRuns
  <1>8. ASSUME NEW p \in Runs, Abandon(p) PROVE OrderlyEndsLeaveNoFile'
    BY <1>8, RunNumbers DEF Abandon, Goto, Die, RemoveMarker, KeepMarker, Remove, asked, files, history, OrderlyEndsLeaveNoFile, FilesShape, Unmarking, OneHolder, Holds, Alive, TypePhase, TypeRuns
  <1>9. ASSUME NEW p \in Runs, LeaveRefusal(p) PROVE OrderlyEndsLeaveNoFile'
    BY <1>9, RunNumbers DEF LeaveRefusal, Goto, Die, RemoveMarker, KeepMarker, Remove, asked, files, history, OrderlyEndsLeaveNoFile, FilesShape, Unmarking, OneHolder, Holds, Alive, TypePhase, TypeRuns
  <1>10. ASSUME NEW p \in Runs, RetryAsked(p) PROVE OrderlyEndsLeaveNoFile'
    BY <1>10, RunNumbers DEF RetryAsked, Goto, Die, RemoveMarker, KeepMarker, Remove, asked, files, history, OrderlyEndsLeaveNoFile, FilesShape, Unmarking, OneHolder, Holds, Alive, TypePhase, TypeRuns
  <1>11. ASSUME NEW p \in Runs, Detect(p) PROVE OrderlyEndsLeaveNoFile'
    BY <1>11, RunNumbers DEF Detect, Goto, Die, RemoveMarker, KeepMarker, Remove, asked, files, history, OrderlyEndsLeaveNoFile, FilesShape, Unmarking, OneHolder, Holds, Alive, TypePhase, TypeRuns
  <1>12. ASSUME NEW p \in Runs, Mark(p) PROVE OrderlyEndsLeaveNoFile'
    BY <1>12, RunNumbers DEF Mark, Goto, Die, RemoveMarker, KeepMarker, Remove, asked, files, history, OrderlyEndsLeaveNoFile, FilesShape, Unmarking, OneHolder, Holds, Alive, TypePhase, TypeRuns
  <1>13. ASSUME NEW p \in Runs, MarkFails(p) PROVE OrderlyEndsLeaveNoFile'
    BY <1>13, RunNumbers DEF MarkFails, Goto, Die, RemoveMarker, KeepMarker, Remove, asked, files, history, OrderlyEndsLeaveNoFile, FilesShape, Unmarking, OneHolder, Holds, Alive, TypePhase, TypeRuns
  <1>14. ASSUME NEW p \in Runs, HttpUp(p) PROVE OrderlyEndsLeaveNoFile'
    BY <1>14, RunNumbers DEF HttpUp, Goto, Die, RemoveMarker, KeepMarker, Remove, asked, files, history, OrderlyEndsLeaveNoFile, FilesShape, Unmarking, OneHolder, Holds, Alive, TypePhase, TypeRuns
  <1>15. ASSUME NEW p \in Runs, HttpFails(p) PROVE OrderlyEndsLeaveNoFile'
    BY <1>15, RunNumbers DEF HttpFails, Goto, Die, RemoveMarker, KeepMarker, Remove, asked, files, history, OrderlyEndsLeaveNoFile, FilesShape, Unmarking, OneHolder, Holds, Alive, TypePhase, TypeRuns
  <1>16. ASSUME NEW p \in Runs, EnterService(p) PROVE OrderlyEndsLeaveNoFile'
    BY <1>16, RunNumbers DEF EnterService, Goto, Die, RemoveMarker, KeepMarker, Remove, asked, files, history, OrderlyEndsLeaveNoFile, FilesShape, Unmarking, OneHolder, Holds, Alive, TypePhase, TypeRuns
  <1>17. ASSUME NEW p \in Runs, GracefulStop(p) PROVE OrderlyEndsLeaveNoFile'
    BY <1>17, RunNumbers DEF GracefulStop, Goto, Die, RemoveMarker, KeepMarker, Remove, asked, files, history, OrderlyEndsLeaveNoFile, FilesShape, Unmarking, OneHolder, Holds, Alive, TypePhase, TypeRuns
  <1>18. ASSUME NEW p \in Runs, EndRun(p) PROVE OrderlyEndsLeaveNoFile'
    BY <1>18, RunNumbers DEF EndRun, Goto, Die, RemoveMarker, KeepMarker, Remove, asked, files, history, OrderlyEndsLeaveNoFile, FilesShape, Unmarking, OneHolder, Holds, Alive, TypePhase, TypeRuns
  <1>19. ASSUME NEW p \in Runs, Drained(p) PROVE OrderlyEndsLeaveNoFile'
    BY <1>19, RunNumbers DEF Drained, Goto, Die, RemoveMarker, KeepMarker, Remove, asked, files, history, OrderlyEndsLeaveNoFile, FilesShape, Unmarking, OneHolder, Holds, Alive, TypePhase, TypeRuns
  <1>20. ASSUME NEW p \in Runs, HttpLost(p) PROVE OrderlyEndsLeaveNoFile'
    BY <1>20, RunNumbers DEF HttpLost, Goto, Die, RemoveMarker, KeepMarker, Remove, asked, files, history, OrderlyEndsLeaveNoFile, FilesShape, Unmarking, OneHolder, Holds, Alive, TypePhase, TypeRuns
  <1>21. ASSUME NEW p \in Runs, Withdraw(p) PROVE OrderlyEndsLeaveNoFile'
    BY <1>21, RunNumbers DEF Withdraw, Goto, Die, RemoveMarker, KeepMarker, Remove, asked, files, history, OrderlyEndsLeaveNoFile, FilesShape, Unmarking, OneHolder, Holds, Alive, TypePhase, TypeRuns
  <1>22. ASSUME NEW p \in Runs, MarkClean(p) PROVE OrderlyEndsLeaveNoFile'
    BY <1>22, RunNumbers DEF MarkClean, Goto, Die, RemoveMarker, KeepMarker, Remove, asked, files, history, OrderlyEndsLeaveNoFile, FilesShape, Unmarking, OneHolder, Holds, Alive, TypePhase, TypeRuns
  <1>23. ASSUME NEW p \in Runs, LeaveLingering(p) PROVE OrderlyEndsLeaveNoFile'
    BY <1>23, RunNumbers DEF LeaveLingering, Goto, Die, RemoveMarker, KeepMarker, Remove, asked, files, history, OrderlyEndsLeaveNoFile, FilesShape, Unmarking, OneHolder, Holds, Alive, TypePhase, TypeRuns
  <1>24. ASSUME NEW p \in Runs, Quit(p) PROVE OrderlyEndsLeaveNoFile'
    BY <1>24, RunNumbers DEF Quit, Goto, Die, RemoveMarker, KeepMarker, Remove, asked, files, history, OrderlyEndsLeaveNoFile, FilesShape, Unmarking, OneHolder, Holds, Alive, TypePhase, TypeRuns
  <1>25. ASSUME NEW p \in Runs, AskStop(p) PROVE OrderlyEndsLeaveNoFile'
    BY <1>25, RunNumbers DEF AskStop, Goto, Die, RemoveMarker, KeepMarker, Remove, asked, files, history, OrderlyEndsLeaveNoFile, FilesShape, Unmarking, OneHolder, Holds, Alive, TypePhase, TypeRuns
  <1>26. ASSUME NEW p \in Runs, Signal(p) PROVE OrderlyEndsLeaveNoFile'
    BY <1>26, RunNumbers DEF Signal, Goto, Die, RemoveMarker, KeepMarker, Remove, asked, files, history, OrderlyEndsLeaveNoFile, FilesShape, Unmarking, OneHolder, Holds, Alive, TypePhase, TypeRuns
  <1>27. ASSUME NEW p \in Runs, Kill(p) PROVE OrderlyEndsLeaveNoFile'
    BY <1>27, RunNumbers DEF Kill, Goto, Die, RemoveMarker, KeepMarker, Remove, asked, files, history, OrderlyEndsLeaveNoFile, FilesShape, Unmarking, OneHolder, Holds, Alive, TypePhase, TypeRuns
  <1>28. ASSUME NEW p \in Runs, TokenFails(p) PROVE OrderlyEndsLeaveNoFile'
    BY <1>28, RunNumbers DEF TokenFails, Goto, Die, RemoveMarker, KeepMarker, Remove, asked, files, history, OrderlyEndsLeaveNoFile, FilesShape, Unmarking, OneHolder, Holds, Alive, TypePhase, TypeRuns
  <1> QED
    BY <1>0, <1>1, <1>2, <1>3, <1>4, <1>5, <1>6, <1>7, <1>8, <1>9, <1>10, <1>11, <1>12, <1>13, <1>14, <1>15, <1>16, <1>17, <1>18, <1>19, <1>20, <1>21, <1>22, <1>23, <1>24, <1>25, <1>26, <1>27, <1>28
    DEF Next, Start, End, Await, Environment

-----------------------------------------------------------------------------
(* The theorems.                                                           *)

LEMMA InitHolds == Init => RunsInv
  <1> SUFFICES ASSUME Init PROVE RunsInv
    OBVIOUS
  <1>1. TypePhase /\ TypeRuns
    BY RunNumbers DEF Init, TypePhase, TypeRuns, Phases
  <1>2. TypeAsked /\ TypeHistory
    BY DEF Init, TypeAsked, TypeHistory
  <1>3. OneHolder /\ MarkerShape /\ NoFalseAlarm /\ MarkerIsOwn
    BY RunNumbers DEF Init, OneHolder, Holds, Alive, MarkerShape, Unmarking, NoFalseAlarm,
                      MarkerIsOwn, Serving
  <1>4. CrashIsReported /\ ConsumerHolds /\ HandoverIsTheLast /\ FilesShape
        /\ OrderlyEndsLeaveNoFile
    BY RunNumbers DEF Init, OrderlyEndsLeaveNoFile, CrashIsReported, ConsumerHolds, Holds, Alive, HandoverIsTheLast, FilesShape, Unmarking
  <1> QED BY <1>1, <1>2, <1>3, <1>4, TypeParts DEF RunsInv

LEMMA StepKeeps == RunsInv /\ [Next]_vars => RunsInv'
  <1> SUFFICES ASSUME RunsInv, [Next]_vars PROVE RunsInv'
    OBVIOUS
  <1>1. TypePhase /\ TypeRuns /\ TypeAsked /\ TypeHistory
    BY TypeParts DEF RunsInv
  <1>2. /\ OneHolder /\ MarkerShape /\ NoFalseAlarm /\ MarkerIsOwn
        /\ CrashIsReported /\ ConsumerHolds /\ HandoverIsTheLast /\ FilesShape
        /\ OrderlyEndsLeaveNoFile
    BY DEF RunsInv
  <1>3. TypePhase' /\ TypeRuns' /\ TypeAsked' /\ TypeHistory'
    BY <1>1, PhaseTyped, RunsTyped, AskedTyped, HistoryTyped
  <1>4. TypeOK'
    BY <1>3 DEF TypeOK, TypePhase, TypeRuns, TypeAsked, TypeHistory
  <1>5. OneHolder' /\ MarkerShape' /\ NoFalseAlarm' /\ MarkerIsOwn'
    BY <1>1, <1>2, HolderKept, MarkerKept, NoFalseAlarmKept, OwnMarkerKept
  <1>6. CrashIsReported' /\ ConsumerHolds' /\ HandoverIsTheLast' /\ FilesShape'
        /\ OrderlyEndsLeaveNoFile'
    BY <1>1, <1>2, CrashKept, ConsumerKept, HandoverKept, FilesKept, TidyKept
  <1> QED BY <1>4, <1>5, <1>6 DEF RunsInv

\* The inductive invariant holds throughout, wherever a process is killed.
THEOREM RunsInvariant == Spec => []RunsInv
  <1>1. Init => RunsInv
    BY InitHolds
  <1>2. RunsInv /\ [Next]_vars => RunsInv'
    BY StepKeeps
  <1> QED BY <1>1, <1>2, PTL DEF Spec

\* Every variable has its type, for any number of runs.
THEOREM RunsTypes == Spec => []TypeOK
  <1>1. RunsInv => TypeOK
    BY DEF RunsInv
  <1> QED BY <1>1, RunsInvariant, PTL

\* For any number of runs, killed at any step: while every marker is written,
\* the crash of a run that served is on disk until it has been reported.
THEOREM NoCrashIsForgotten == Spec => []CrashIsReported
  <1>1. RunsInv => CrashIsReported
    BY DEF RunsInv
  <1> QED BY <1>1, RunsInvariant, PTL

\* For any number of runs: nobody whose marker was removed is ever reported.
THEOREM NoCleanEndIsReported == Spec => []NoFalseAlarm
  <1>1. RunsInv => NoFalseAlarm
    BY DEF RunsInv
  <1> QED BY <1>1, RunsInvariant, PTL

\* For any number of runs, killed at any step, and although the record may fail to
\* be cleared or written: a handover on disk was written by a run that has held the
\* profile since the record was last cleared.
THEOREM HandoverIsFresh == Spec => []HandoverIsTheLast
  <1>1. RunsInv => HandoverIsTheLast
    BY DEF RunsInv
  <1> QED BY <1>1, RunsInvariant, PTL

\* For any number of runs: the connection files lead to the run that serves.
THEOREM FilesLeadToTheHolder == Spec => []FilesLeadHere
  <1>1. RunsInv => FilesLeadHere
    BY DEF RunsInv, FilesShape, FilesLeadHere, Holds, Alive
  <1> QED BY <1>1, RunsInvariant, PTL

\* For any number of runs, killed at any step: one that comes to an end of itself,
\* and could remove its files, leaves none that names it.
THEOREM OrderlyEndsAreTidy == Spec => []OrderlyEndsLeaveNoFile
  <1>1. RunsInv => OrderlyEndsLeaveNoFile
    BY DEF RunsInv
  <1> QED BY <1>1, RunsInvariant, PTL

=============================================================================
