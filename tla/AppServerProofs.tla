--------------------------- MODULE AppServerProofs ---------------------------
(***************************************************************************)
(* Theorems about AppServer, for every number of turns and lines.          *)
(***************************************************************************)
EXTENDS AppServer, TLAPS

USE BoundsAssumption DEF runner, tasks, server, Alive

(***************************************************************************)
(* Types, one part of TypeOK at a time                                     *)
(***************************************************************************)

LEMMA TypeInit == Init => TypeOK
<1> SUFFICES ASSUME Init PROVE TypeOK
    OBVIOUS
<1>1. RunnerTypes
    BY DEF Init, RunnerTypes, Ids, Phases
<1>2. ClientTypes
    BY DEF Init, ClientTypes
<1>3. ServerTypes
    BY DEF Init, ServerTypes, Ids
<1>. QED
    BY <1>1, <1>2, <1>3 DEF Init, TypeOK, PhaseFits

LEMMA RunnerTypesStep ==
    ASSUME RunnerTypes, PhaseFits, [Next]_vars
    PROVE  RunnerTypes'
<1>1. CASE StartSession
    BY <1>1 DEF StartSession, RunnerTypes, Phases, Ids, Turns
<1>2. CASE SpawnFails
    BY <1>2 DEF SpawnFails, RunnerTypes, Phases, Ids, Turns
<1>3. CASE Spawned
    BY <1>3 DEF Spawned, RunnerTypes, Phases, Ids, Turns
<1>4. CASE Initialized
    BY <1>4 DEF Initialized, Request, Writable, RunnerTypes, Phases, Ids, Turns
<1>5. CASE ThreadCreated
    BY <1>5 DEF ThreadCreated, RunnerTypes, Phases, Ids, Turns
<1>6. CASE RunTurnFails
    BY <1>6 DEF RunTurnFails, Stop, CancelTasks, Cancelled, RunnerTypes, Phases, Ids, Turns
<1>7. CASE RunTurn
    <2>1. count \in Nat /\ count + 1 \in Turns /\ count + 3 \in Ids /\ count + 3 > 2 /\ count + 3 - 2 = count + 1
        BY <1>7 DEF RunTurn, RunnerTypes, Turns, Ids
    <2> QED
        BY <1>7, <2>1 DEF RunTurn, Request, RunnerTypes, Phases
<1>8. CASE TurnStarted
    BY <1>8 DEF TurnStarted, RunnerTypes, Phases, Ids, Turns
<1>9. CASE RequestFails
    BY <1>9 DEF RequestFails, Stop, CancelTasks, Cancelled, RunnerTypes, Phases, Ids, Turns
<1>10. CASE TurnCompletes
    BY <1>10 DEF TurnCompletes, PhaseFits, RunnerTypes, Phases, Ids, Turns
<1>11. CASE TurnFails
    BY <1>11 DEF TurnFails, Stop, CancelTasks, Cancelled, RunnerTypes, Phases, Ids, Turns
<1>12. CASE TurnTimesOut
    BY <1>12 DEF TurnTimesOut, Stop, CancelTasks, Cancelled, RunnerTypes, Phases, Ids, Turns
<1>13. CASE LoopEnds
    BY <1>13 DEF LoopEnds, Stop, CancelTasks, Cancelled, RunnerTypes, Phases, Ids, Turns
<1>14. CASE GraceEnds
    BY <1>14 DEF GraceEnds, CancelTasks, Cancelled, RunnerTypes, Phases, Ids, Turns
<1>15. CASE GraceTimesOut
    BY <1>15 DEF GraceTimesOut, CancelTasks, Cancelled, RunnerTypes, Phases, Ids, Turns
<1>16. CASE Drained
    BY <1>16 DEF Drained, RunnerTypes, Phases, Ids, Turns
<1>17. CASE CancelStartUp
    BY <1>17 DEF CancelStartUp, RunnerTypes, Phases, Ids, Turns
<1>18. CASE CancelTurn
    BY <1>18 DEF CancelTurn, Stop, CancelTasks, Cancelled, RunnerTypes, Phases, Ids, Turns
<1>19. CASE CancelStop
    BY <1>19 DEF CancelStop, RunnerTypes, Phases, Ids, Turns
<1>20. CASE ReadLine
    BY <1>20 DEF ReadLine, Finish, RunnerTypes, Phases, Ids, Turns
<1>21. CASE ReadEOF
    BY <1>21 DEF ReadEOF, RunnerTypes, Phases, Ids, Turns
<1>22. CASE AnswerAsk
    BY <1>22 DEF AnswerAsk, Finish, Writable, RunnerTypes, Phases, Ids, Turns
<1>23. CASE AnswerTool
    BY <1>23 DEF AnswerTool, RunnerTypes, Phases, Ids, Turns
<1>24. CASE WatchExit
    BY <1>24 DEF WatchExit, FinishExited, Finish, RunnerTypes, Phases, Ids, Turns
<1>25. CASE SilenceElapses
    BY <1>25 DEF SilenceElapses, RunnerTypes, Phases, Ids, Turns
<1>26. CASE ServerExits
    BY <1>26 DEF ServerExits, RunnerTypes, Phases, Ids, Turns
<1>27. ASSUME NEW kind \in Answers, ServerAnswers(kind) PROVE RunnerTypes'
    BY <1>27 DEF ServerAnswers, Writes, RunnerTypes, Phases, Ids, Turns
<1>28. ASSUME NEW kind \in {"completed", "failed"}, ServerEndsTurn(kind) PROVE RunnerTypes'
    BY <1>28 DEF ServerEndsTurn, Writes, RunnerTypes, Phases, Ids, Turns
<1>29. ASSUME NEW kind \in {"input", "ask", "tool", "noise"}, ServerTalks(kind) PROVE RunnerTypes'
    BY <1>29 DEF ServerTalks, Writes, RunnerTypes, Phases, Ids, Turns
<1>30. CASE UNCHANGED vars
    BY <1>30 DEF vars, RunnerTypes, Phases, Ids, Turns
<1>. QED
    BY <1>1, <1>2, <1>3, <1>4, <1>5, <1>6, <1>7, <1>8, <1>9, <1>10, <1>11, <1>12, <1>13, <1>14, <1>15, <1>16, <1>17, <1>18, <1>19, <1>20, <1>21, <1>22, <1>23, <1>24, <1>25, <1>26, <1>27, <1>28, <1>29, <1>30 DEF Next, RunnerSteps

LEMMA ClientTypesStep ==
    ASSUME ClientTypes, ServerTypes, [Next]_vars
    PROVE  ClientTypes'
<1>1. CASE StartSession
    BY <1>1 DEF StartSession, ClientTypes, Outcomes, Answers
<1>2. CASE SpawnFails
    BY <1>2 DEF SpawnFails, ClientTypes, Outcomes, Answers
<1>3. CASE Spawned
    BY <1>3 DEF Spawned, ClientTypes, Outcomes, Answers
<1>4. CASE Initialized
    BY <1>4 DEF Initialized, Request, Writable, ClientTypes, Outcomes, Answers
<1>5. CASE ThreadCreated
    BY <1>5 DEF ThreadCreated, ClientTypes, Outcomes, Answers
<1>6. CASE RunTurnFails
    BY <1>6 DEF RunTurnFails, Stop, CancelTasks, Cancelled, ClientTypes, Outcomes, Answers
<1>7. CASE RunTurn
    BY <1>7 DEF RunTurn, Request, Writable, ClientTypes, Outcomes, Answers
<1>8. CASE TurnStarted
    BY <1>8 DEF TurnStarted, ClientTypes, Outcomes, Answers
<1>9. CASE RequestFails
    BY <1>9 DEF RequestFails, Stop, CancelTasks, Cancelled, ClientTypes, Outcomes, Answers
<1>10. CASE TurnCompletes
    BY <1>10 DEF TurnCompletes, ClientTypes, Outcomes, Answers
<1>11. CASE TurnFails
    BY <1>11 DEF TurnFails, Stop, CancelTasks, Cancelled, ClientTypes, Outcomes, Answers
<1>12. CASE TurnTimesOut
    BY <1>12 DEF TurnTimesOut, Stop, CancelTasks, Cancelled, ClientTypes, Outcomes, Answers
<1>13. CASE LoopEnds
    BY <1>13 DEF LoopEnds, Stop, CancelTasks, Cancelled, ClientTypes, Outcomes, Answers
<1>14. CASE GraceEnds
    BY <1>14 DEF GraceEnds, CancelTasks, Cancelled, ClientTypes, Outcomes, Answers
<1>15. CASE GraceTimesOut
    BY <1>15 DEF GraceTimesOut, CancelTasks, Cancelled, ClientTypes, Outcomes, Answers
<1>16. CASE Drained
    BY <1>16 DEF Drained, ClientTypes, Outcomes, Answers
<1>17. CASE CancelStartUp
    BY <1>17 DEF CancelStartUp, ClientTypes, Outcomes, Answers
<1>18. CASE CancelTurn
    BY <1>18 DEF CancelTurn, Stop, CancelTasks, Cancelled, ClientTypes, Outcomes, Answers
<1>19. CASE CancelStop
    BY <1>19 DEF CancelStop, ClientTypes, Outcomes, Answers
<1>20. CASE ReadLine
    <2>1. PICK line \in Lines : line = Head(pipe)
        BY <1>20 DEF ReadLine, ServerTypes
    <2> QED
        BY <1>20, <2>1 DEF ReadLine, Finish, ClientTypes, Outcomes, Answers, Lines
<1>21. CASE ReadEOF
    BY <1>21 DEF ReadEOF, ClientTypes, Outcomes, Answers
<1>22. CASE AnswerAsk
    BY <1>22 DEF AnswerAsk, Finish, Writable, ClientTypes, Outcomes, Answers
<1>23. CASE AnswerTool
    BY <1>23 DEF AnswerTool, ClientTypes, Outcomes, Answers
<1>24. CASE WatchExit
    BY <1>24 DEF WatchExit, FinishExited, Finish, ClientTypes, Outcomes, Answers
<1>25. CASE SilenceElapses
    BY <1>25 DEF SilenceElapses, ClientTypes, Outcomes, Answers
<1>26. CASE ServerExits
    BY <1>26 DEF ServerExits, ClientTypes, Outcomes, Answers
<1>27. ASSUME NEW kind \in Answers, ServerAnswers(kind) PROVE ClientTypes'
    BY <1>27 DEF ServerAnswers, Writes, ClientTypes, Outcomes, Answers
<1>28. ASSUME NEW kind \in {"completed", "failed"}, ServerEndsTurn(kind) PROVE ClientTypes'
    BY <1>28 DEF ServerEndsTurn, Writes, ClientTypes, Outcomes, Answers
<1>29. ASSUME NEW kind \in {"input", "ask", "tool", "noise"}, ServerTalks(kind) PROVE ClientTypes'
    BY <1>29 DEF ServerTalks, Writes, ClientTypes, Outcomes, Answers
<1>30. CASE UNCHANGED vars
    BY <1>30 DEF vars, ClientTypes, Outcomes, Answers
<1>. QED
    BY <1>1, <1>2, <1>3, <1>4, <1>5, <1>6, <1>7, <1>8, <1>9, <1>10, <1>11, <1>12, <1>13, <1>14, <1>15, <1>16, <1>17, <1>18, <1>19, <1>20, <1>21, <1>22, <1>23, <1>24, <1>25, <1>26, <1>27, <1>28, <1>29, <1>30 DEF Next, RunnerSteps

LEMMA ServerTypesStep ==
    ASSUME RunnerTypes, ServerTypes, [Next]_vars
    PROVE  ServerTypes'
<1>1. CASE StartSession
    BY <1>1 DEF StartSession, ServerTypes, Ids, Turns, Answers, Lines
<1>2. CASE SpawnFails
    BY <1>2 DEF SpawnFails, ServerTypes, Ids, Turns, Answers, Lines
<1>3. CASE Spawned
    BY <1>3 DEF Spawned, ServerTypes, Ids, Turns, Answers, Lines
<1>4. CASE Initialized
    BY <1>4 DEF Initialized, Request, Writable, ServerTypes, Ids, Turns, Answers, Lines
<1>5. CASE ThreadCreated
    BY <1>5 DEF ThreadCreated, ServerTypes, Ids, Turns, Answers, Lines
<1>6. CASE RunTurnFails
    BY <1>6 DEF RunTurnFails, Stop, CancelTasks, Cancelled, ServerTypes, Ids, Turns, Answers, Lines
<1>7. CASE RunTurn
    <2>1. count \in Nat /\ count + 1 \in Turns /\ count + 3 \in Ids /\ count + 3 > 2 /\ count + 3 - 2 = count + 1
        BY <1>7 DEF RunTurn, RunnerTypes, Turns, Ids
    <2>2. owed' = count + 3 /\ working' = count + 1
        BY <1>7, <2>1 DEF RunTurn, Request
    <2>3. UNCHANGED <<proc, pipe, written, told>>
        BY <1>7 DEF RunTurn, Request
    <2> QED
        BY <2>1, <2>2, <2>3 DEF ServerTypes
<1>8. CASE TurnStarted
    BY <1>8 DEF TurnStarted, ServerTypes, Ids, Turns, Answers, Lines
<1>9. CASE RequestFails
    BY <1>9 DEF RequestFails, Stop, CancelTasks, Cancelled, ServerTypes, Ids, Turns, Answers, Lines
<1>10. CASE TurnCompletes
    BY <1>10 DEF TurnCompletes, ServerTypes, Ids, Turns, Answers, Lines
<1>11. CASE TurnFails
    BY <1>11 DEF TurnFails, Stop, CancelTasks, Cancelled, ServerTypes, Ids, Turns, Answers, Lines
<1>12. CASE TurnTimesOut
    BY <1>12 DEF TurnTimesOut, Stop, CancelTasks, Cancelled, ServerTypes, Ids, Turns, Answers, Lines
<1>13. CASE LoopEnds
    BY <1>13 DEF LoopEnds, Stop, CancelTasks, Cancelled, ServerTypes, Ids, Turns, Answers, Lines
<1>14. CASE GraceEnds
    BY <1>14 DEF GraceEnds, CancelTasks, Cancelled, ServerTypes, Ids, Turns, Answers, Lines
<1>15. CASE GraceTimesOut
    BY <1>15 DEF GraceTimesOut, CancelTasks, Cancelled, ServerTypes, Ids, Turns, Answers, Lines
<1>16. CASE Drained
    BY <1>16 DEF Drained, ServerTypes, Ids, Turns, Answers, Lines
<1>17. CASE CancelStartUp
    BY <1>17 DEF CancelStartUp, ServerTypes, Ids, Turns, Answers, Lines
<1>18. CASE CancelTurn
    BY <1>18 DEF CancelTurn, Stop, CancelTasks, Cancelled, ServerTypes, Ids, Turns, Answers, Lines
<1>19. CASE CancelStop
    BY <1>19 DEF CancelStop, ServerTypes, Ids, Turns, Answers, Lines
<1>20. CASE ReadLine
    BY <1>20 DEF ReadLine, Finish, ServerTypes, Ids, Turns, Answers, Lines
<1>21. CASE ReadEOF
    BY <1>21 DEF ReadEOF, ServerTypes, Ids, Turns, Answers, Lines
<1>22. CASE AnswerAsk
    BY <1>22 DEF AnswerAsk, Finish, Writable, ServerTypes, Ids, Turns, Answers, Lines
<1>23. CASE AnswerTool
    BY <1>23 DEF AnswerTool, ServerTypes, Ids, Turns, Answers, Lines
<1>24. CASE WatchExit
    BY <1>24 DEF WatchExit, FinishExited, Finish, ServerTypes, Ids, Turns, Answers, Lines
<1>25. CASE SilenceElapses
    BY <1>25 DEF SilenceElapses, ServerTypes, Ids, Turns, Answers, Lines
<1>26. CASE ServerExits
    BY <1>26 DEF ServerExits, ServerTypes, Ids, Turns, Answers, Lines
<1>27. ASSUME NEW kind \in Answers, ServerAnswers(kind) PROVE ServerTypes'
    BY <1>27 DEF ServerAnswers, Writes, ServerTypes, Ids, Turns, Answers, Lines
<1>28. ASSUME NEW kind \in {"completed", "failed"}, ServerEndsTurn(kind) PROVE ServerTypes'
    BY <1>28 DEF ServerEndsTurn, Writes, ServerTypes, Ids, Turns, Answers, Lines
<1>29. ASSUME NEW kind \in {"input", "ask", "tool", "noise"}, ServerTalks(kind) PROVE ServerTypes'
    BY <1>29 DEF ServerTalks, Writes, ServerTypes, Ids, Turns, Answers, Lines
<1>30. CASE UNCHANGED vars
    BY <1>30 DEF vars, ServerTypes, Ids, Turns, Answers, Lines
<1>. QED
    BY <1>1, <1>2, <1>3, <1>4, <1>5, <1>6, <1>7, <1>8, <1>9, <1>10, <1>11, <1>12, <1>13, <1>14, <1>15, <1>16, <1>17, <1>18, <1>19, <1>20, <1>21, <1>22, <1>23, <1>24, <1>25, <1>26, <1>27, <1>28, <1>29, <1>30 DEF Next, RunnerSteps

LEMMA PhaseFitsStep ==
    ASSUME RunnerTypes, PhaseFits, [Next]_vars
    PROVE  PhaseFits'
<1>1. CASE StartSession
    BY <1>1 DEF StartSession, RunnerTypes, PhaseFits, Turns, Ids
<1>2. CASE SpawnFails
    BY <1>2 DEF SpawnFails, RunnerTypes, PhaseFits, Turns, Ids
<1>3. CASE Spawned
    BY <1>3 DEF Spawned, RunnerTypes, PhaseFits, Turns, Ids
<1>4. CASE Initialized
    BY <1>4 DEF Initialized, Request, Writable, RunnerTypes, PhaseFits, Turns, Ids
<1>5. CASE ThreadCreated
    BY <1>5 DEF ThreadCreated, RunnerTypes, PhaseFits, Turns, Ids
<1>6. CASE RunTurnFails
    BY <1>6 DEF RunTurnFails, Stop, CancelTasks, Cancelled, RunnerTypes, PhaseFits, Turns, Ids
<1>7. CASE RunTurn
    BY <1>7 DEF RunTurn, Request, Writable, RunnerTypes, PhaseFits, Turns, Ids
<1>8. CASE TurnStarted
    BY <1>8 DEF TurnStarted, RunnerTypes, PhaseFits, Turns, Ids
<1>9. CASE RequestFails
    BY <1>9 DEF RequestFails, Stop, CancelTasks, Cancelled, RunnerTypes, PhaseFits, Turns, Ids
<1>10. CASE TurnCompletes
    BY <1>10 DEF TurnCompletes, RunnerTypes, PhaseFits, Turns, Ids
<1>11. CASE TurnFails
    BY <1>11 DEF TurnFails, Stop, CancelTasks, Cancelled, RunnerTypes, PhaseFits, Turns, Ids
<1>12. CASE TurnTimesOut
    BY <1>12 DEF TurnTimesOut, Stop, CancelTasks, Cancelled, RunnerTypes, PhaseFits, Turns, Ids
<1>13. CASE LoopEnds
    BY <1>13 DEF LoopEnds, Stop, CancelTasks, Cancelled, RunnerTypes, PhaseFits, Turns, Ids
<1>14. CASE GraceEnds
    BY <1>14 DEF GraceEnds, CancelTasks, Cancelled, RunnerTypes, PhaseFits, Turns, Ids
<1>15. CASE GraceTimesOut
    BY <1>15 DEF GraceTimesOut, CancelTasks, Cancelled, RunnerTypes, PhaseFits, Turns, Ids
<1>16. CASE Drained
    BY <1>16 DEF Drained, RunnerTypes, PhaseFits, Turns, Ids
<1>17. CASE CancelStartUp
    BY <1>17 DEF CancelStartUp, RunnerTypes, PhaseFits, Turns, Ids
<1>18. CASE CancelTurn
    BY <1>18 DEF CancelTurn, Stop, CancelTasks, Cancelled, RunnerTypes, PhaseFits, Turns, Ids
<1>19. CASE CancelStop
    BY <1>19 DEF CancelStop, RunnerTypes, PhaseFits, Turns, Ids
<1>20. CASE ReadLine
    BY <1>20 DEF ReadLine, Finish, RunnerTypes, PhaseFits, Turns, Ids
<1>21. CASE ReadEOF
    BY <1>21 DEF ReadEOF, RunnerTypes, PhaseFits, Turns, Ids
<1>22. CASE AnswerAsk
    BY <1>22 DEF AnswerAsk, Finish, Writable, RunnerTypes, PhaseFits, Turns, Ids
<1>23. CASE AnswerTool
    BY <1>23 DEF AnswerTool, RunnerTypes, PhaseFits, Turns, Ids
<1>24. CASE WatchExit
    BY <1>24 DEF WatchExit, FinishExited, Finish, RunnerTypes, PhaseFits, Turns, Ids
<1>25. CASE SilenceElapses
    BY <1>25 DEF SilenceElapses, RunnerTypes, PhaseFits, Turns, Ids
<1>26. CASE ServerExits
    BY <1>26 DEF ServerExits, RunnerTypes, PhaseFits, Turns, Ids
<1>27. ASSUME NEW kind \in Answers, ServerAnswers(kind) PROVE PhaseFits'
    BY <1>27 DEF ServerAnswers, Writes, RunnerTypes, PhaseFits, Turns, Ids
<1>28. ASSUME NEW kind \in {"completed", "failed"}, ServerEndsTurn(kind) PROVE PhaseFits'
    BY <1>28 DEF ServerEndsTurn, Writes, RunnerTypes, PhaseFits, Turns, Ids
<1>29. ASSUME NEW kind \in {"input", "ask", "tool", "noise"}, ServerTalks(kind) PROVE PhaseFits'
    BY <1>29 DEF ServerTalks, Writes, RunnerTypes, PhaseFits, Turns, Ids
<1>30. CASE UNCHANGED vars
    BY <1>30 DEF vars, RunnerTypes, PhaseFits, Turns, Ids
<1>. QED
    BY <1>1, <1>2, <1>3, <1>4, <1>5, <1>6, <1>7, <1>8, <1>9, <1>10, <1>11, <1>12, <1>13, <1>14, <1>15, <1>16, <1>17, <1>18, <1>19, <1>20, <1>21, <1>22, <1>23, <1>24, <1>25, <1>26, <1>27, <1>28, <1>29, <1>30 DEF Next, RunnerSteps

\* Every variable keeps its type, a request is pending exactly while the runner
\* is suspended in it, and a turn is active from its request to its end.
THEOREM AppServerTypes == Spec => []TypeOK
<1>1. TypeOK /\ [Next]_vars => TypeOK'
    BY RunnerTypesStep, ClientTypesStep, ServerTypesStep, PhaseFitsStep DEF TypeOK
<1>. QED
    BY TypeInit, <1>1, PTL DEF Spec

-----------------------------------------------------------------------------
(***************************************************************************)
(* The exit of the process, the end of the run                             *)
(***************************************************************************)

\* What the exit watcher leaves behind stays true, since nothing can be
\* written to a process that has exited.
WatchedDead ==
    watcher = "ran" =>
        /\ proc = "dead"
        /\ pending # 0 => answer # "none"
        /\ turn # 0 => outcome # "none"

LEMMA WatchedDeadStep ==
    ASSUME RunnerTypes, PhaseFits, WatchedDead, [Next]_vars
    PROVE  WatchedDead'
<1>1. CASE StartSession
    BY <1>1 DEF StartSession, WatchedDead, PhaseFits
<1>2. CASE SpawnFails
    BY <1>2 DEF SpawnFails, WatchedDead, PhaseFits
<1>3. CASE Spawned
    BY <1>3 DEF Spawned, WatchedDead, PhaseFits
<1>4. CASE Initialized
    BY <1>4 DEF Initialized, Request, Writable, WatchedDead, PhaseFits
<1>5. CASE ThreadCreated
    BY <1>5 DEF ThreadCreated, WatchedDead, PhaseFits
<1>6. CASE RunTurnFails
    BY <1>6 DEF RunTurnFails, Stop, CancelTasks, Cancelled, WatchedDead, PhaseFits
<1>7. CASE RunTurn
    BY <1>7 DEF RunTurn, Request, Writable, WatchedDead, PhaseFits
<1>8. CASE TurnStarted
    BY <1>8 DEF TurnStarted, WatchedDead, PhaseFits
<1>9. CASE RequestFails
    BY <1>9 DEF RequestFails, Stop, CancelTasks, Cancelled, WatchedDead, PhaseFits
<1>10. CASE TurnCompletes
    BY <1>10 DEF TurnCompletes, WatchedDead, PhaseFits
<1>11. CASE TurnFails
    BY <1>11 DEF TurnFails, Stop, CancelTasks, Cancelled, WatchedDead, PhaseFits
<1>12. CASE TurnTimesOut
    BY <1>12 DEF TurnTimesOut, Stop, CancelTasks, Cancelled, WatchedDead, PhaseFits
<1>13. CASE LoopEnds
    BY <1>13 DEF LoopEnds, Stop, CancelTasks, Cancelled, WatchedDead, PhaseFits
<1>14. CASE GraceEnds
    BY <1>14 DEF GraceEnds, CancelTasks, Cancelled, WatchedDead, PhaseFits
<1>15. CASE GraceTimesOut
    BY <1>15 DEF GraceTimesOut, CancelTasks, Cancelled, WatchedDead, PhaseFits
<1>16. CASE Drained
    BY <1>16 DEF Drained, WatchedDead, PhaseFits
<1>17. CASE CancelStartUp
    BY <1>17 DEF CancelStartUp, WatchedDead, PhaseFits
<1>18. CASE CancelTurn
    BY <1>18 DEF CancelTurn, Stop, CancelTasks, Cancelled, WatchedDead, PhaseFits
<1>19. CASE CancelStop
    BY <1>19 DEF CancelStop, WatchedDead, PhaseFits
<1>20. CASE ReadLine
    BY <1>20 DEF ReadLine, Finish, WatchedDead, Answers
<1>21. CASE ReadEOF
    BY <1>21 DEF ReadEOF, WatchedDead, PhaseFits
<1>22. CASE AnswerAsk
    BY <1>22 DEF AnswerAsk, Finish, Writable, WatchedDead, PhaseFits
<1>23. CASE AnswerTool
    BY <1>23 DEF AnswerTool, WatchedDead, PhaseFits
<1>24. CASE WatchExit
    BY <1>24 DEF WatchExit, FinishExited, Finish, WatchedDead, PhaseFits
<1>25. CASE SilenceElapses
    BY <1>25 DEF SilenceElapses, WatchedDead, PhaseFits
<1>26. CASE ServerExits
    BY <1>26 DEF ServerExits, WatchedDead, PhaseFits
<1>27. ASSUME NEW kind \in Answers, ServerAnswers(kind) PROVE WatchedDead'
    BY <1>27 DEF ServerAnswers, Writes, WatchedDead, PhaseFits
<1>28. ASSUME NEW kind \in {"completed", "failed"}, ServerEndsTurn(kind) PROVE WatchedDead'
    BY <1>28 DEF ServerEndsTurn, Writes, WatchedDead, PhaseFits
<1>29. ASSUME NEW kind \in {"input", "ask", "tool", "noise"}, ServerTalks(kind) PROVE WatchedDead'
    BY <1>29 DEF ServerTalks, Writes, WatchedDead, PhaseFits
<1>30. CASE UNCHANGED vars
    BY <1>30 DEF vars, WatchedDead, PhaseFits
<1>. QED
    BY <1>1, <1>2, <1>3, <1>4, <1>5, <1>6, <1>7, <1>8, <1>9, <1>10, <1>11, <1>12, <1>13, <1>14, <1>15, <1>16, <1>17, <1>18, <1>19, <1>20, <1>21, <1>22, <1>23, <1>24, <1>25, <1>26, <1>27, <1>28, <1>29, <1>30 DEF Next, RunnerSteps

\* Once the exit of the process has been noticed neither a request nor a turn
\* is waited for (NobodyWaitsOnTheDead), whenever the process exits.
THEOREM NobodyIsLeftWaiting == Spec => []NobodyWaitsOnTheDead
<1>1. Init => WatchedDead
    BY DEF Init, WatchedDead
<1>2. TypeOK /\ WatchedDead /\ [Next]_vars => WatchedDead'
    BY WatchedDeadStep DEF TypeOK
<1>3. TypeOK /\ WatchedDead => NobodyWaitsOnTheDead
    BY DEF TypeOK, PhaseFits, WatchedDead, NobodyWaitsOnTheDead
<1>. QED
    BY AppServerTypes, <1>1, <1>2, <1>3, PTL DEF Spec

Quiet ==
    /\ proc \in {"none", "killed", "dead"}
    /\ reader # "reading" /\ watcher # "waiting" /\ helpers = {}

\* Nothing runs before the process is spawned nor once stop() has cancelled
\* the tasks.
ChildQuiet ==
    /\ phase \in {"idle", "spawn"} => proc = "none" /\ Quiet
    /\ phase = "drain" => Quiet
    /\ ChildEndsWithRun

LEMMA ChildQuietStep ==
    ASSUME RunnerTypes, ServerTypes, PhaseFits, ChildQuiet, [Next]_vars
    PROVE  ChildQuiet'
<1>1. CASE StartSession
    BY <1>1 DEF StartSession, ChildQuiet, Quiet, ChildEndsWithRun, PhaseFits
<1>2. CASE SpawnFails
    BY <1>2 DEF SpawnFails, ChildQuiet, Quiet, ChildEndsWithRun, PhaseFits
<1>3. CASE Spawned
    BY <1>3 DEF Spawned, ChildQuiet, Quiet, ChildEndsWithRun, PhaseFits
<1>4. CASE Initialized
    BY <1>4 DEF Initialized, Request, Writable, ChildQuiet, Quiet, ChildEndsWithRun, PhaseFits
<1>5. CASE ThreadCreated
    BY <1>5 DEF ThreadCreated, ChildQuiet, Quiet, ChildEndsWithRun, PhaseFits
<1>6. CASE RunTurnFails
    BY <1>6 DEF RunTurnFails, Stop, CancelTasks, Cancelled, ChildQuiet, Quiet, ChildEndsWithRun, ServerTypes
<1>7. CASE RunTurn
    BY <1>7 DEF RunTurn, Request, Writable, ChildQuiet, Quiet, ChildEndsWithRun, PhaseFits
<1>8. CASE TurnStarted
    BY <1>8 DEF TurnStarted, ChildQuiet, Quiet, ChildEndsWithRun, PhaseFits
<1>9. CASE RequestFails
    BY <1>9 DEF RequestFails, Stop, CancelTasks, Cancelled, ChildQuiet, Quiet, ChildEndsWithRun, ServerTypes
<1>10. CASE TurnCompletes
    BY <1>10 DEF TurnCompletes, ChildQuiet, Quiet, ChildEndsWithRun, PhaseFits
<1>11. CASE TurnFails
    BY <1>11 DEF TurnFails, Stop, CancelTasks, Cancelled, ChildQuiet, Quiet, ChildEndsWithRun, ServerTypes
<1>12. CASE TurnTimesOut
    BY <1>12 DEF TurnTimesOut, Stop, CancelTasks, Cancelled, ChildQuiet, Quiet, ChildEndsWithRun, ServerTypes
<1>13. CASE LoopEnds
    BY <1>13 DEF LoopEnds, Stop, CancelTasks, Cancelled, ChildQuiet, Quiet, ChildEndsWithRun, ServerTypes
<1>14. CASE GraceEnds
    BY <1>14 DEF GraceEnds, CancelTasks, Cancelled, ChildQuiet, Quiet, ChildEndsWithRun, ServerTypes
<1>15. CASE GraceTimesOut
    BY <1>15 DEF GraceTimesOut, CancelTasks, Cancelled, ChildQuiet, Quiet, ChildEndsWithRun, ServerTypes
<1>16. CASE Drained
    BY <1>16 DEF Drained, ChildQuiet, Quiet, ChildEndsWithRun, PhaseFits
<1>17. CASE CancelStartUp
    BY <1>17 DEF CancelStartUp, ChildQuiet, Quiet, ChildEndsWithRun, PhaseFits
<1>18. CASE CancelTurn
    BY <1>18 DEF CancelTurn, Stop, CancelTasks, Cancelled, ChildQuiet, Quiet, ChildEndsWithRun, ServerTypes
<1>19. CASE CancelStop
    BY <1>19 DEF CancelStop, ChildQuiet, Quiet, ChildEndsWithRun, PhaseFits
<1>20. CASE ReadLine
    BY <1>20 DEF ReadLine, Finish, ChildQuiet, Quiet, ChildEndsWithRun, PhaseFits
<1>21. CASE ReadEOF
    BY <1>21 DEF ReadEOF, ChildQuiet, Quiet, ChildEndsWithRun, PhaseFits
<1>22. CASE AnswerAsk
    BY <1>22 DEF AnswerAsk, Finish, Writable, ChildQuiet, Quiet, ChildEndsWithRun, PhaseFits
<1>23. CASE AnswerTool
    BY <1>23 DEF AnswerTool, ChildQuiet, Quiet, ChildEndsWithRun, PhaseFits
<1>24. CASE WatchExit
    BY <1>24 DEF WatchExit, FinishExited, Finish, ChildQuiet, Quiet, ChildEndsWithRun, PhaseFits
<1>25. CASE SilenceElapses
    BY <1>25 DEF SilenceElapses, ChildQuiet, Quiet, ChildEndsWithRun, PhaseFits
<1>26. CASE ServerExits
    BY <1>26 DEF ServerExits, ChildQuiet, Quiet, ChildEndsWithRun, PhaseFits
<1>27. ASSUME NEW kind \in Answers, ServerAnswers(kind) PROVE ChildQuiet'
    BY <1>27 DEF ServerAnswers, Writes, ChildQuiet, Quiet, ChildEndsWithRun, PhaseFits
<1>28. ASSUME NEW kind \in {"completed", "failed"}, ServerEndsTurn(kind) PROVE ChildQuiet'
    BY <1>28 DEF ServerEndsTurn, Writes, ChildQuiet, Quiet, ChildEndsWithRun, PhaseFits
<1>29. ASSUME NEW kind \in {"input", "ask", "tool", "noise"}, ServerTalks(kind) PROVE ChildQuiet'
    BY <1>29 DEF ServerTalks, Writes, ChildQuiet, Quiet, ChildEndsWithRun, PhaseFits
<1>30. CASE UNCHANGED vars
    BY <1>30 DEF vars, ChildQuiet, Quiet, ChildEndsWithRun, PhaseFits
<1>. QED
    BY <1>1, <1>2, <1>3, <1>4, <1>5, <1>6, <1>7, <1>8, <1>9, <1>10, <1>11, <1>12, <1>13, <1>14, <1>15, <1>16, <1>17, <1>18, <1>19, <1>20, <1>21, <1>22, <1>23, <1>24, <1>25, <1>26, <1>27, <1>28, <1>29, <1>30 DEF Next, RunnerSteps

\* A worker run that was not cancelled in start-up or in its stop leaves no
\* process that was not killed and no task behind (ChildEndsWithRun).
THEOREM ChildrenEndWithRuns == Spec => []ChildEndsWithRun
<1>1. Init => ChildQuiet
    BY DEF Init, ChildQuiet, Quiet, ChildEndsWithRun
<1>2. TypeOK /\ ChildQuiet /\ [Next]_vars => ChildQuiet'
    BY ChildQuietStep DEF TypeOK
<1>3. ChildQuiet => ChildEndsWithRun
    BY DEF ChildQuiet
<1>. QED
    BY AppServerTypes, <1>1, <1>2, <1>3, PTL DEF Spec

(***************************************************************************)
(* Turns and their outcomes                                                *)
(***************************************************************************)

NoCompletion(s) == \A i \in 1 .. Len(s) : s[i].kind # "completed"
OneCompletion(s) ==
    \A i, j \in 1 .. Len(s) :
        s[i].kind = "completed" /\ s[j].kind = "completed" => i = j

LEMMA CompletionOfTail ==
    ASSUME NEW s \in Seq(Lines), s # <<>>
    PROVE  /\ NoCompletion(s) => NoCompletion(Tail(s)) /\ Head(s).kind # "completed"
           /\ OneCompletion(s) => OneCompletion(Tail(s))
           /\ OneCompletion(s) /\ Head(s).kind = "completed" => NoCompletion(Tail(s))
<1>1. /\ Len(s) \in Nat /\ Len(s) >= 1 /\ Len(Tail(s)) = Len(s) - 1
      /\ \A i \in 1 .. Len(Tail(s)) : Tail(s)[i] = s[i + 1]
      /\ Head(s) = s[1]
    OBVIOUS
<1>2. \A i \in 1 .. Len(Tail(s)) : i + 1 \in 1 .. Len(s) /\ i + 1 # 1
    BY <1>1
<1>3. 1 \in 1 .. Len(s)
    BY <1>1
<1>4. NoCompletion(s) => NoCompletion(Tail(s)) /\ Head(s).kind # "completed"
    BY <1>1, <1>2, <1>3 DEF NoCompletion
<1>5. ASSUME OneCompletion(s), NEW i \in 1 .. Len(Tail(s)), NEW j \in 1 .. Len(Tail(s)),
             Tail(s)[i].kind = "completed", Tail(s)[j].kind = "completed"
      PROVE  i = j
    <2>1. i + 1 = j + 1
        BY <1>1, <1>2, <1>5 DEF OneCompletion
    <2> QED
        BY <2>1
<1>6. ASSUME OneCompletion(s), Head(s).kind = "completed"
      PROVE  NoCompletion(Tail(s))
    BY <1>1, <1>2, <1>3, <1>6 DEF OneCompletion, NoCompletion
<1>. QED
    BY <1>4, <1>5, <1>6 DEF OneCompletion

LEMMA CompletionOfAppend ==
    ASSUME NEW s \in Seq(Lines), NEW line \in Lines
    PROVE  /\ line.kind # "completed" /\ NoCompletion(s) => NoCompletion(Append(s, line))
           /\ line.kind # "completed" /\ OneCompletion(s) => OneCompletion(Append(s, line))
           /\ NoCompletion(s) => OneCompletion(Append(s, line))
<1>1. /\ Len(s) \in Nat /\ Len(Append(s, line)) = Len(s) + 1
      /\ \A i \in 1 .. Len(s) : Append(s, line)[i] = s[i]
      /\ Append(s, line)[Len(s) + 1] = line
    OBVIOUS
<1>2. \A i \in 1 .. Len(Append(s, line)) : i \in 1 .. Len(s) \/ i = Len(s) + 1
    BY <1>1
<1>3. line.kind # "completed" /\ NoCompletion(s) => NoCompletion(Append(s, line))
    BY <1>1, <1>2 DEF NoCompletion
<1>4. line.kind # "completed" /\ OneCompletion(s) => OneCompletion(Append(s, line))
    BY <1>1, <1>2 DEF OneCompletion
<1>5. NoCompletion(s) => OneCompletion(Append(s, line))
    BY <1>1, <1>2 DEF NoCompletion, OneCompletion
<1>. QED
    BY <1>3, <1>4, <1>5

\* While a turn is active at most one announcement of a completion is unread
\* or was taken as its outcome, and it is about this turn: the next turn
\* begins only when nothing of an earlier one can come any more.
OwnTurn ==
    /\ turn = 0 /\ phase \notin {"grace", "drain", "ended"} =>
           working = 0 /\ NoCompletion(pipe)
    /\ turn # 0 =>
           /\ working \in {0, turn}
           /\ working # 0 => NoCompletion(pipe) /\ outcome # "completed"
           /\ outcome = "completed" => NoCompletion(pipe) /\ turn \in told
           /\ ~NoCompletion(pipe) => turn \in told
           /\ OneCompletion(pipe)
    /\ TurnGetsItsOwnOutcome

LEMMA NoneIsOne == ASSUME NEW s, NoCompletion(s) PROVE OneCompletion(s)
    BY DEF NoCompletion, OneCompletion

LEMMA OwnTurnStep ==
    ASSUME RunnerTypes, ServerTypes, PhaseFits, OwnTurn, [Next]_vars
    PROVE  OwnTurn'
<1>1. CASE StartSession
    BY <1>1 DEF StartSession, OwnTurn, TurnGetsItsOwnOutcome, PhaseFits
<1>2. CASE SpawnFails
    BY <1>2 DEF SpawnFails, OwnTurn, TurnGetsItsOwnOutcome, PhaseFits
<1>3. CASE Spawned
    BY <1>3 DEF Spawned, OwnTurn, TurnGetsItsOwnOutcome, PhaseFits
<1>4. CASE Initialized
    BY <1>4 DEF Initialized, Request, OwnTurn, TurnGetsItsOwnOutcome, PhaseFits
<1>5. CASE ThreadCreated
    BY <1>5 DEF ThreadCreated, OwnTurn, TurnGetsItsOwnOutcome, PhaseFits
<1>6. CASE RunTurnFails
    BY <1>6 DEF RunTurnFails, Stop, CancelTasks, Cancelled, OwnTurn, TurnGetsItsOwnOutcome, PhaseFits
<1>7. CASE RunTurn
    <2>1. count \in Nat /\ count + 1 # 0 /\ count + 3 > 2 /\ count + 3 - 2 = count + 1
        BY <1>7 DEF RunTurn, RunnerTypes, Turns
    <2>2. /\ turn' = count + 1 /\ working' = count + 1 /\ outcome' = "none"
          /\ UNCHANGED <<pipe, told, returned>>
        BY <1>7, <2>1 DEF RunTurn, Request
    <2>3. NoCompletion(pipe)
        BY <1>7 DEF RunTurn, PhaseFits, OwnTurn
    <2> QED
        BY <2>1, <2>2, <2>3, NoneIsOne DEF OwnTurn, TurnGetsItsOwnOutcome
<1>8. CASE TurnStarted
    BY <1>8 DEF TurnStarted, OwnTurn, TurnGetsItsOwnOutcome, PhaseFits
<1>9. CASE RequestFails
    BY <1>9 DEF RequestFails, Stop, CancelTasks, Cancelled, OwnTurn, TurnGetsItsOwnOutcome, PhaseFits
<1>10. CASE TurnCompletes
    BY <1>10 DEF TurnCompletes, OwnTurn, TurnGetsItsOwnOutcome, PhaseFits
<1>11. CASE TurnFails
    BY <1>11 DEF TurnFails, Stop, CancelTasks, Cancelled, OwnTurn, TurnGetsItsOwnOutcome, PhaseFits
<1>12. CASE TurnTimesOut
    BY <1>12 DEF TurnTimesOut, Stop, CancelTasks, Cancelled, OwnTurn, TurnGetsItsOwnOutcome, PhaseFits
<1>13. CASE LoopEnds
    BY <1>13 DEF LoopEnds, Stop, CancelTasks, Cancelled, OwnTurn, TurnGetsItsOwnOutcome, PhaseFits
<1>14. CASE GraceEnds
    BY <1>14 DEF GraceEnds, CancelTasks, Cancelled, OwnTurn, TurnGetsItsOwnOutcome, PhaseFits
<1>15. CASE GraceTimesOut
    BY <1>15 DEF GraceTimesOut, CancelTasks, Cancelled, OwnTurn, TurnGetsItsOwnOutcome, PhaseFits
<1>16. CASE Drained
    BY <1>16 DEF Drained, OwnTurn, TurnGetsItsOwnOutcome, PhaseFits
<1>17. CASE CancelStartUp
    BY <1>17 DEF CancelStartUp, OwnTurn, TurnGetsItsOwnOutcome, PhaseFits
<1>18. CASE CancelTurn
    BY <1>18 DEF CancelTurn, Stop, CancelTasks, Cancelled, OwnTurn, TurnGetsItsOwnOutcome, PhaseFits
<1>19. CASE CancelStop
    BY <1>19 DEF CancelStop, OwnTurn, TurnGetsItsOwnOutcome, PhaseFits
<1>20. CASE ReadLine
    <2>1. /\ pipe \in Seq(Lines) /\ pipe # <<>> /\ pipe' = Tail(pipe)
          /\ UNCHANGED <<turn, phase, working, told, returned>>
        BY <1>20 DEF ReadLine, ServerTypes
    <2>2. outcome' = outcome \/ outcome' = Head(pipe).kind
        BY <1>20 DEF ReadLine, Finish
    <2>3. /\ NoCompletion(pipe) => NoCompletion(Tail(pipe)) /\ Head(pipe).kind # "completed"
          /\ OneCompletion(pipe) => OneCompletion(Tail(pipe))
          /\ OneCompletion(pipe) /\ Head(pipe).kind = "completed" => NoCompletion(Tail(pipe))
        BY <2>1, CompletionOfTail
    <2> QED
        BY <2>1, <2>2, <2>3 DEF OwnTurn, TurnGetsItsOwnOutcome
<1>21. CASE ReadEOF
    BY <1>21 DEF ReadEOF, OwnTurn, TurnGetsItsOwnOutcome, PhaseFits
<1>22. CASE AnswerAsk
    BY <1>22 DEF AnswerAsk, Finish, Writable, OwnTurn, TurnGetsItsOwnOutcome, PhaseFits
<1>23. CASE AnswerTool
    BY <1>23 DEF AnswerTool, OwnTurn, TurnGetsItsOwnOutcome, PhaseFits
<1>24. CASE WatchExit
    BY <1>24 DEF WatchExit, FinishExited, Finish, OwnTurn, TurnGetsItsOwnOutcome, PhaseFits
<1>25. CASE SilenceElapses
    BY <1>25 DEF SilenceElapses, OwnTurn, TurnGetsItsOwnOutcome, PhaseFits
<1>26. CASE ServerExits
    BY <1>26 DEF ServerExits, OwnTurn, TurnGetsItsOwnOutcome, PhaseFits
<1>27. ASSUME NEW kind \in Answers, ServerAnswers(kind) PROVE OwnTurn'
    <2>1. /\ pipe \in Seq(Lines) /\ UNCHANGED <<turn, phase, outcome, returned>>
        BY <1>27 DEF ServerAnswers, Writes, ServerTypes
    <2>2. PICK line \in Lines : line.kind = kind /\ pipe' = Append(pipe, line)
        BY <1>27 DEF ServerAnswers, Writes, Lines, Ids, Answers, ServerTypes
    <2>3. /\ kind # "completed" /\ NoCompletion(pipe) => NoCompletion(pipe')
          /\ kind # "completed" /\ OneCompletion(pipe) => OneCompletion(pipe')
          /\ NoCompletion(pipe) => OneCompletion(pipe')
        BY <2>1, <2>2, CompletionOfAppend
    <2>4. kind # "completed" /\ UNCHANGED <<working, told>>
        BY <1>27 DEF ServerAnswers, Answers
    <2> QED
        BY <2>1, <2>3, <2>4 DEF OwnTurn, TurnGetsItsOwnOutcome
<1>28. ASSUME NEW kind \in {"completed", "failed"}, ServerEndsTurn(kind) PROVE OwnTurn'
    <2>1. /\ pipe \in Seq(Lines) /\ UNCHANGED <<turn, phase, outcome, returned>>
        BY <1>28 DEF ServerEndsTurn, Writes, ServerTypes
    <2>2. PICK line \in Lines : line.kind = kind /\ pipe' = Append(pipe, line)
        BY <1>28 DEF ServerEndsTurn, Writes, Lines, Ids, Answers, ServerTypes
    <2>3. /\ kind # "completed" /\ NoCompletion(pipe) => NoCompletion(pipe')
          /\ kind # "completed" /\ OneCompletion(pipe) => OneCompletion(pipe')
          /\ NoCompletion(pipe) => OneCompletion(pipe')
        BY <2>1, <2>2, CompletionOfAppend
    <2>4. /\ working # 0 /\ working' = 0
          /\ told' = IF kind = "completed" THEN told \cup {working} ELSE told
        BY <1>28 DEF ServerEndsTurn
    <2> QED
        BY <2>1, <2>3, <2>4 DEF OwnTurn, TurnGetsItsOwnOutcome
<1>29. ASSUME NEW kind \in {"input", "ask", "tool", "noise"}, ServerTalks(kind) PROVE OwnTurn'
    <2>1. /\ pipe \in Seq(Lines) /\ UNCHANGED <<turn, phase, outcome, returned>>
        BY <1>29 DEF ServerTalks, Writes, ServerTypes
    <2>2. PICK line \in Lines : line.kind = kind /\ pipe' = Append(pipe, line)
        BY <1>29 DEF ServerTalks, Writes, Lines, Ids, Answers, ServerTypes
    <2>3. /\ kind # "completed" /\ NoCompletion(pipe) => NoCompletion(pipe')
          /\ kind # "completed" /\ OneCompletion(pipe) => OneCompletion(pipe')
          /\ NoCompletion(pipe) => OneCompletion(pipe')
        BY <2>1, <2>2, CompletionOfAppend
    <2>4. kind # "completed" /\ UNCHANGED <<working, told>>
        BY <1>29 DEF ServerTalks
    <2> QED
        BY <2>1, <2>3, <2>4 DEF OwnTurn, TurnGetsItsOwnOutcome
<1>30. CASE UNCHANGED vars
    BY <1>30 DEF vars, OwnTurn, TurnGetsItsOwnOutcome, PhaseFits
<1>. QED
    BY <1>1, <1>2, <1>3, <1>4, <1>5, <1>6, <1>7, <1>8, <1>9, <1>10, <1>11, <1>12, <1>13, <1>14, <1>15, <1>16, <1>17, <1>18, <1>19, <1>20, <1>21, <1>22, <1>23, <1>24, <1>25, <1>26, <1>27, <1>28, <1>29, <1>30 DEF Next, RunnerSteps

\* run_turn returns normally only for a turn the server announced as completed
\* (TurnGetsItsOwnOutcome), for every number of turns and lines.
THEOREM TurnsGetTheirOutcomes == Spec => []TurnGetsItsOwnOutcome
<1>1. Init => OwnTurn
    BY DEF Init, OwnTurn, NoCompletion, TurnGetsItsOwnOutcome
<1>2. TypeOK /\ OwnTurn /\ [Next]_vars => OwnTurn'
    BY OwnTurnStep DEF TypeOK
<1>3. OwnTurn => TurnGetsItsOwnOutcome
    BY DEF OwnTurn
<1>. QED
    BY AppServerTypes, <1>1, <1>2, <1>3, PTL DEF Spec

(***************************************************************************)
(* First come                                                              *)
(***************************************************************************)

OutcomeStands == turn # 0 /\ turn' = turn /\ outcome # "none" => outcome' = outcome

LEMMA OutcomeStandsStep ==
    ASSUME PhaseFits, [Next]_vars
    PROVE  OutcomeStands
<1>1. CASE StartSession
    BY <1>1 DEF StartSession, OutcomeStands
<1>2. CASE SpawnFails
    BY <1>2 DEF SpawnFails, OutcomeStands
<1>3. CASE Spawned
    BY <1>3 DEF Spawned, OutcomeStands
<1>4. CASE Initialized
    BY <1>4 DEF Initialized, Request, Writable, OutcomeStands
<1>5. CASE ThreadCreated
    BY <1>5 DEF ThreadCreated, OutcomeStands
<1>6. CASE RunTurnFails
    BY <1>6 DEF RunTurnFails, Stop, CancelTasks, Cancelled, OutcomeStands
<1>7. CASE RunTurn
    BY <1>7 DEF RunTurn, PhaseFits, OutcomeStands
<1>8. CASE TurnStarted
    BY <1>8 DEF TurnStarted, OutcomeStands
<1>9. CASE RequestFails
    BY <1>9 DEF RequestFails, Stop, CancelTasks, Cancelled, OutcomeStands
<1>10. CASE TurnCompletes
    BY <1>10 DEF TurnCompletes, OutcomeStands
<1>11. CASE TurnFails
    BY <1>11 DEF TurnFails, Stop, CancelTasks, Cancelled, OutcomeStands
<1>12. CASE TurnTimesOut
    BY <1>12 DEF TurnTimesOut, Stop, CancelTasks, Cancelled, OutcomeStands
<1>13. CASE LoopEnds
    BY <1>13 DEF LoopEnds, Stop, CancelTasks, Cancelled, OutcomeStands
<1>14. CASE GraceEnds
    BY <1>14 DEF GraceEnds, CancelTasks, Cancelled, OutcomeStands
<1>15. CASE GraceTimesOut
    BY <1>15 DEF GraceTimesOut, CancelTasks, Cancelled, OutcomeStands
<1>16. CASE Drained
    BY <1>16 DEF Drained, OutcomeStands
<1>17. CASE CancelStartUp
    BY <1>17 DEF CancelStartUp, OutcomeStands
<1>18. CASE CancelTurn
    BY <1>18 DEF CancelTurn, Stop, CancelTasks, Cancelled, OutcomeStands
<1>19. CASE CancelStop
    BY <1>19 DEF CancelStop, OutcomeStands
<1>20. CASE ReadLine
    BY <1>20 DEF ReadLine, Finish, OutcomeStands
<1>21. CASE ReadEOF
    BY <1>21 DEF ReadEOF, OutcomeStands
<1>22. CASE AnswerAsk
    BY <1>22 DEF AnswerAsk, Finish, Writable, OutcomeStands
<1>23. CASE AnswerTool
    BY <1>23 DEF AnswerTool, OutcomeStands
<1>24. CASE WatchExit
    BY <1>24 DEF WatchExit, FinishExited, Finish, OutcomeStands
<1>25. CASE SilenceElapses
    BY <1>25 DEF SilenceElapses, OutcomeStands
<1>26. CASE ServerExits
    BY <1>26 DEF ServerExits, OutcomeStands
<1>27. ASSUME NEW kind \in Answers, ServerAnswers(kind) PROVE OutcomeStands
    BY <1>27 DEF ServerAnswers, Writes, OutcomeStands
<1>28. ASSUME NEW kind \in {"completed", "failed"}, ServerEndsTurn(kind) PROVE OutcomeStands
    BY <1>28 DEF ServerEndsTurn, Writes, OutcomeStands
<1>29. ASSUME NEW kind \in {"input", "ask", "tool", "noise"}, ServerTalks(kind) PROVE OutcomeStands
    BY <1>29 DEF ServerTalks, Writes, OutcomeStands
<1>30. CASE UNCHANGED vars
    BY <1>30 DEF vars, OutcomeStands
<1>. QED
    BY <1>1, <1>2, <1>3, <1>4, <1>5, <1>6, <1>7, <1>8, <1>9, <1>10, <1>11, <1>12, <1>13, <1>14, <1>15, <1>16, <1>17, <1>18, <1>19, <1>20, <1>21, <1>22, <1>23, <1>24, <1>25, <1>26, <1>27, <1>28, <1>29, <1>30 DEF Next, RunnerSteps

\* The outcome of an active turn does not change any more once it has come
\* (FirstOutcomeStands), whoever else finishes the turn later.
THEOREM FirstOutcomesStand == Spec => FirstOutcomeStands
<1>1. TypeOK /\ [Next]_vars => [OutcomeStands]_vars
    BY OutcomeStandsStep DEF TypeOK
<1>. QED
    BY AppServerTypes, <1>1, PTL DEF Spec, FirstOutcomeStands, OutcomeStands

=============================================================================
