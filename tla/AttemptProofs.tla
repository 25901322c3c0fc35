--------------------------- MODULE AttemptProofs ---------------------------
(***************************************************************************)
(* Theorems about Attempt, for every set of attempts, configs and turn     *)
(* limits, racing or not.                                                  *)
(***************************************************************************)
EXTENDS Attempt, FiniteSetTheorems, TLAPS

\* What an attempt has done, by the await it is suspended in.  The inductive
\* form of ExitPathsHonoured: the same three complete records lead to every
\* end, and only a cancelled stop adds a fourth.
Complete == {{}, {"before_run", "after_run"}, Steps}

Record(a) ==
    /\ pc[a] \in {"idle", "scheduled", "mkdir", "after_create", "drain_create",
                  "discard", "before_run"} => did[a] = {}
    /\ pc[a] = "start" => did[a] = {"before_run"}
    /\ pc[a] \in {"turn", "refresh", "stop"} => did[a] = {"before_run", "session"}
    /\ pc[a] = "after_run" => did[a] \in Complete \ {{}}
    /\ pc[a] = "drain" => did[a] \in Complete
    /\ pc[a] \in {"drain", "drain_create"} => cut[a] # "no"
    /\ pc[a] = "done" =>
          \/ did[a] \in Complete
          \/ cut[a] = "stop" /\ did[a] = {"before_run", "session"}

Records == \A a \in Attempts : Record(a)

PathInv == TypeOK /\ Records

-----------------------------------------------------------------------------
\* The directory values the actions write.
LEMMA DirectoryTypes ==
    /\ NoDirectory \in Directory
    /\ \A a \in Attempts : NewDirectory(a) \in Directory
    /\ \A d \in Directory : [d EXCEPT !.ready = FALSE] \in Directory
<1>1. NoDirectory \in Directory
  BY DEF NoDirectory, Directory
<1>2. \A a \in Attempts : NewDirectory(a) \in Directory
  BY DEF NewDirectory, Directory
<1>3. ASSUME NEW d \in Directory PROVE [d EXCEPT !.ready = FALSE] \in Directory
  BY DEF Directory
<1> QED BY <1>1, <1>2, <1>3

LEMMA RemovedTypes ==
    ASSUME dir \in Directory, spoilt \in BOOLEAN, RemoveDirectory
    PROVE dir' \in Directory /\ spoilt' \in BOOLEAN
BY DirectoryTypes DEF RemoveDirectory

LEMMA InitPaths == Init => PathInv
<1> SUFFICES ASSUME Init PROVE PathInv
  OBVIOUS
<1>1. TypeOK
  BY DirectoryTypes DEF Init, TypeOK, ThreadFits, Awaits, Jobs, Results
<1>2. Records
  BY DEF Init, Records, Record
<1> QED BY <1>1, <1>2 DEF PathInv

LEMMA StartKeeps ==
    ASSUME PathInv, NEW a \in Attempts, Start(a) PROVE PathInv'
<1>1. TypeOK'
  BY DEF PathInv, TypeOK, ThreadFits, Start, Ended, Awaits, Jobs, Results,
         Steps
<1>2. Records'
  BY DEF PathInv, TypeOK, Records, Record, Start, Ended, Steps, Complete
<1> QED BY <1>1, <1>2 DEF PathInv

LEMMA CreateForIssueKeeps ==
    ASSUME PathInv, NEW a \in Attempts, CreateForIssue(a) PROVE PathInv'
<1>1. TypeOK'
  BY DEF PathInv, TypeOK, ThreadFits, CreateForIssue, Move, Awaits, Jobs,
         Results, Steps
<1>2. Records'
  BY DEF PathInv, TypeOK, Records, Record, CreateForIssue, Move, Steps,
         Complete
<1> QED BY <1>1, <1>2 DEF PathInv

LEMMA EnsureDirectoryKeeps ==
    ASSUME PathInv, NEW a \in Attempts, EnsureDirectory(a) PROVE PathInv'
<1>1. TypeOK'
  <2>1. dir' \in Directory
    BY DirectoryTypes DEF PathInv, TypeOK, EnsureDirectory
  <2>2. PICK r \in Results : Answers(a, r)
    BY DEF EnsureDirectory, Results
  <2>3. thread' \in [Attempts -> Jobs \cup Results \cup {"idle"}]
    BY <2>2 DEF PathInv, TypeOK, Answers
  <2>4. \A b \in Attempts : ThreadFits(b)'
    BY <2>2 DEF PathInv, TypeOK, ThreadFits, Answers, Ended, EnsureDirectory, attempt,
                Awaits, Jobs, Results
  <2> QED BY <2>1, <2>3, <2>4 DEF PathInv, TypeOK, EnsureDirectory, attempt
<1>2. Records'
  BY DEF PathInv, TypeOK, Records, Record, EnsureDirectory, attempt, Answers,
         Steps, Complete
<1> QED BY <1>1, <1>2 DEF PathInv

LEMMA CreatedKeeps ==
    ASSUME PathInv, NEW a \in Attempts, Created(a) PROVE PathInv'
<1>1. TypeOK'
  BY DEF PathInv, TypeOK, ThreadFits, Created, Move, Directory, Awaits, Jobs,
         Results, Steps
<1>2. Records'
  BY DEF PathInv, TypeOK, Records, Record, Created, Move, Steps, Complete
<1> QED BY <1>1, <1>2 DEF PathInv

LEMMA ReusedKeeps ==
    ASSUME PathInv, NEW a \in Attempts, Reused(a) PROVE PathInv'
<1>1. TypeOK'
  BY DEF PathInv, TypeOK, ThreadFits, Reused, Move, Awaits, Jobs, Results,
         Steps
<1>2. Records'
  BY DEF PathInv, TypeOK, Records, Record, Reused, Move, Steps, Complete
<1> QED BY <1>1, <1>2 DEF PathInv

LEMMA CreationFailsKeeps ==
    ASSUME PathInv, NEW a \in Attempts, CreationFails(a) PROVE PathInv'
<1>1. TypeOK'
  BY DEF PathInv, TypeOK, ThreadFits, CreationFails, Move, Raise, Awaits,
         Jobs, Results, Steps
<1>2. Records'
  BY DEF PathInv, TypeOK, Records, Record, CreationFails, Move, Raise, Steps,
         Complete
<1> QED BY <1>1, <1>2 DEF PathInv

LEMMA AfterCreateSucceedsKeeps ==
    ASSUME PathInv, NEW a \in Attempts, AfterCreateSucceeds(a) PROVE PathInv'
<1>1. TypeOK'
  BY DEF PathInv, TypeOK, ThreadFits, AfterCreateSucceeds, Move, Directory,
         Awaits, Jobs, Results, Steps
<1>2. Records'
  BY DEF PathInv, TypeOK, Records, Record, AfterCreateSucceeds, Move, Steps,
         Complete
<1> QED BY <1>1, <1>2 DEF PathInv

LEMMA AfterCreateFailsKeeps ==
    ASSUME PathInv, NEW a \in Attempts, AfterCreateFails(a) PROVE PathInv'
<1>1. TypeOK'
  BY DEF PathInv, TypeOK, ThreadFits, AfterCreateFails, Move, Raise, Awaits,
         Jobs, Results, Steps
<1>2. Records'
  BY DEF PathInv, TypeOK, Records, Record, AfterCreateFails, Move, Raise,
         Steps, Complete
<1> QED BY <1>1, <1>2 DEF PathInv

LEMMA AfterCreateDrainedKeeps ==
    ASSUME PathInv, NEW a \in Attempts, AfterCreateDrained(a) PROVE PathInv'
<1>1. TypeOK'
  BY DEF PathInv, TypeOK, ThreadFits, AfterCreateDrained, Move, Awaits, Jobs,
         Results, Steps
<1>2. Records'
  BY DEF PathInv, TypeOK, Records, Record, AfterCreateDrained, Move, Steps,
         Complete
<1> QED BY <1>1, <1>2 DEF PathInv

LEMMA DiscardNewDirectoryKeeps ==
    ASSUME PathInv, NEW a \in Attempts, DiscardNewDirectory(a) PROVE PathInv'
<1>1. TypeOK'
  <2>1. dir' \in Directory /\ spoilt' \in BOOLEAN
    BY RemovedTypes DEF PathInv, TypeOK, DiscardNewDirectory
  <2>2. thread' \in [Attempts -> Jobs \cup Results \cup {"idle"}]
    BY DEF PathInv, TypeOK, Answers, DiscardNewDirectory, Results
  <2>3. \A b \in Attempts : ThreadFits(b)'
    BY DEF PathInv, TypeOK, ThreadFits, Answers, Ended, DiscardNewDirectory, attempt,
           Awaits, Jobs, Results
  <2> QED BY <2>1, <2>2, <2>3 DEF PathInv, TypeOK, DiscardNewDirectory, attempt
<1>2. Records'
  BY DEF PathInv, TypeOK, Records, Record, DiscardNewDirectory, attempt,
         RemoveDirectory, NoDirectory, Answers, Steps, Complete
<1> QED BY <1>1, <1>2 DEF PathInv

LEMMA DiscardedKeeps ==
    ASSUME PathInv, NEW a \in Attempts, Discarded(a) PROVE PathInv'
<1>1. TypeOK'
  BY DEF PathInv, TypeOK, ThreadFits, Discarded, Move, Awaits, Jobs, Results,
         Steps
<1>2. Records'
  BY DEF PathInv, TypeOK, Records, Record, Discarded, Move, Steps, Complete
<1> QED BY <1>1, <1>2 DEF PathInv

LEMMA BeforeRunSucceedsKeeps ==
    ASSUME PathInv, NEW a \in Attempts, BeforeRunSucceeds(a) PROVE PathInv'
<1>1. TypeOK'
  BY DEF PathInv, TypeOK, ThreadFits, BeforeRunSucceeds, Move, Note,
         Runner, Awaits, Jobs, Results, Steps
<1>2. Records'
  BY DEF PathInv, TypeOK, Records, Record, BeforeRunSucceeds, Move, Note,
         Runner, Steps, Complete
<1> QED BY <1>1, <1>2 DEF PathInv

LEMMA BeforeRunFailsKeeps ==
    ASSUME PathInv, NEW a \in Attempts, BeforeRunFails(a) PROVE PathInv'
<1>1. TypeOK'
  BY DEF PathInv, TypeOK, ThreadFits, BeforeRunFails, Move, Raise, Runner,
         Awaits, Jobs, Results, Steps
<1>2. Records'
  BY DEF PathInv, TypeOK, Records, Record, BeforeRunFails, Move, Raise,
         Runner, Steps, Complete
<1> QED BY <1>1, <1>2 DEF PathInv

LEMMA SessionStartsKeeps ==
    ASSUME PathInv, NEW a \in Attempts, SessionStarts(a) PROVE PathInv'
<1>1. TypeOK'
  BY MaxTurnsAssumption DEF PathInv, TypeOK, ThreadFits, SessionStarts, Move,
                            Raise, Note, Runner, Awaits, Jobs,
                            Results, Steps
<1>2. Records'
  BY DEF PathInv, TypeOK, Records, Record, SessionStarts, Move, Raise, Note,
         Runner, Steps, Complete
<1> QED BY <1>1, <1>2 DEF PathInv

LEMMA SessionFailsKeeps ==
    ASSUME PathInv, NEW a \in Attempts, SessionFails(a) PROVE PathInv'
<1>1. TypeOK'
  BY DEF PathInv, TypeOK, ThreadFits, SessionFails, Move, Raise, Note, Runner,
         Awaits, Jobs, Results, Steps
<1>2. Records'
  BY DEF PathInv, TypeOK, Records, Record, SessionFails, Move, Raise, Note,
         Runner, Steps, Complete
<1> QED BY <1>1, <1>2 DEF PathInv

LEMMA TurnCompletesKeeps ==
    ASSUME PathInv, NEW a \in Attempts, TurnCompletes(a) PROVE PathInv'
<1>1. TypeOK'
  BY DEF PathInv, TypeOK, ThreadFits, TurnCompletes, Move, Runner, Awaits,
         Jobs, Results, Steps
<1>2. Records'
  BY DEF PathInv, TypeOK, Records, Record, TurnCompletes, Move, Runner, Steps,
         Complete
<1> QED BY <1>1, <1>2 DEF PathInv

LEMMA TurnFailsKeeps ==
    ASSUME PathInv, NEW a \in Attempts, TurnFails(a) PROVE PathInv'
<1>1. TypeOK'
  BY DEF PathInv, TypeOK, ThreadFits, TurnFails, Move, Raise, Runner, Awaits,
         Jobs, Results, Steps
<1>2. Records'
  BY DEF PathInv, TypeOK, Records, Record, TurnFails, Move, Raise, Runner,
         Steps, Complete
<1> QED BY <1>1, <1>2 DEF PathInv

LEMMA RefreshFailsKeeps ==
    ASSUME PathInv, NEW a \in Attempts, RefreshFails(a) PROVE PathInv'
<1>1. TypeOK'
  BY DEF PathInv, TypeOK, ThreadFits, RefreshFails, Move, Raise, Runner,
         Awaits, Jobs, Results, Steps
<1>2. Records'
  BY DEF PathInv, TypeOK, Records, Record, RefreshFails, Move, Raise, Runner,
         Steps, Complete
<1> QED BY <1>1, <1>2 DEF PathInv

LEMMA BreakByRefreshKeeps ==
    ASSUME PathInv, NEW a \in Attempts, BreakByRefresh(a) PROVE PathInv'
<1>1. TypeOK'
  BY DEF PathInv, TypeOK, ThreadFits, BreakByRefresh, Move, Runner, Awaits,
         Jobs, Results, Steps
<1>2. Records'
  BY DEF PathInv, TypeOK, Records, Record, BreakByRefresh, Move, Runner,
         Steps, Complete
<1> QED BY <1>1, <1>2 DEF PathInv

LEMMA BreakMaxTurnsKeeps ==
    ASSUME PathInv, NEW a \in Attempts, BreakMaxTurns(a) PROVE PathInv'
<1>1. TypeOK'
  BY DEF PathInv, TypeOK, ThreadFits, BreakMaxTurns, Move, Runner,
         Awaits, Jobs, Results, Steps
<1>2. Records'
  BY DEF PathInv, TypeOK, Records, Record, BreakMaxTurns, Move,
         Runner, Steps, Complete
<1> QED BY <1>1, <1>2 DEF PathInv

LEMMA NextTurnKeeps ==
    ASSUME PathInv, NEW a \in Attempts, NextTurn(a) PROVE PathInv'
<1>1. TypeOK'
  BY DEF PathInv, TypeOK, ThreadFits, NextTurn, Move, Raise,
         Runner, Awaits, Jobs, Results, Steps
<1>2. Records'
  BY DEF PathInv, TypeOK, Records, Record, NextTurn, Move, Raise,
         Runner, Steps, Complete
<1> QED BY <1>1, <1>2 DEF PathInv

LEMMA SessionStoppedKeeps ==
    ASSUME PathInv, NEW a \in Attempts, SessionStopped(a) PROVE PathInv'
<1>1. TypeOK'
  BY DEF PathInv, TypeOK, ThreadFits, SessionStopped, Move, Runner, Awaits,
         Jobs, Results, Steps
<1>2. Records'
  BY DEF PathInv, TypeOK, Records, Record, SessionStopped, Move, Runner,
         Steps, Complete
<1> QED BY <1>1, <1>2 DEF PathInv

LEMMA AfterRunEndsKeeps ==
    ASSUME PathInv, NEW a \in Attempts, AfterRunEnds(a) PROVE PathInv'
<1>1. TypeOK'
  BY DEF PathInv, TypeOK, ThreadFits, AfterRunEnds, Move, Runner, Awaits,
         Jobs, Results, Steps
<1>2. Records'
  BY DEF PathInv, TypeOK, Records, Record, AfterRunEnds, Move, Runner, Steps,
         Complete
<1> QED BY <1>1, <1>2 DEF PathInv

LEMMA DrainedKeeps ==
    ASSUME PathInv, NEW a \in Attempts, Drained(a) PROVE PathInv'
<1>1. TypeOK'
  BY DEF PathInv, TypeOK, ThreadFits, Drained, Move, Runner, Awaits, Jobs,
         Results, Steps
<1>2. Records'
  BY DEF PathInv, TypeOK, Records, Record, Drained, Move, Runner, Steps,
         Complete
<1> QED BY <1>1, <1>2 DEF PathInv

\* The drains are entered by a cancellation only, so cancel() never meets one.
LEMMA CancelKeeps ==
    ASSUME PathInv, NEW a \in Attempts, Cancel(a) PROVE PathInv'
<1>1. CASE pc[a] \in {"scheduled", "mkdir", "discard", "stop"}
  <2>1. pc' = [pc EXCEPT ![a] = "done"] /\ did' = did
    BY <1>1 DEF Cancel, Interrupted, PathInv, TypeOK
  <2>2. TypeOK'
    BY <1>1, <2>1 DEF PathInv, TypeOK, ThreadFits, Cancel, Raise, Ended, Owner, Creating,
                       Awaits, Jobs, Results, Steps
  <2>3. Records'
    BY <1>1, <2>1 DEF PathInv, TypeOK, Records, Record, Cancel, Complete, Steps
  <2> QED BY <2>2, <2>3 DEF PathInv
<1>2. CASE pc[a] = "after_create"
  <2>1. pc' = [pc EXCEPT ![a] = "drain_create"] /\ did' = did
    BY <1>2 DEF Cancel, Interrupted, PathInv, TypeOK
  <2>2. TypeOK'
    BY <1>2, <2>1 DEF PathInv, TypeOK, ThreadFits, Cancel, Raise, Ended, Owner, Creating,
                       Awaits, Jobs, Results, Steps
  <2>3. Records'
    BY <1>2, <2>1 DEF PathInv, TypeOK, Records, Record, Cancel, Complete, Steps
  <2> QED BY <2>2, <2>3 DEF PathInv
<1>3. CASE pc[a] \in {"before_run", "after_run"}
  <2>1. pc' = [pc EXCEPT ![a] = "drain"] /\ did' = did
    BY <1>3 DEF Cancel, Interrupted, PathInv, TypeOK
  <2>2. TypeOK'
    BY <1>3, <2>1 DEF PathInv, TypeOK, ThreadFits, Cancel, Raise, Ended, Owner, Creating,
                       Awaits, Jobs, Results, Steps
  <2>3. Records'
    BY <1>3, <2>1 DEF PathInv, TypeOK, Records, Record, Cancel, Complete, Steps
  <2> QED BY <2>2, <2>3 DEF PathInv
<1>4. CASE pc[a] = "start"
  <2>1. pc' = [pc EXCEPT ![a] = "after_run"] /\ did' = [did EXCEPT ![a] = @ \cup {"after_run"}]
    BY <1>4 DEF Cancel, Interrupted, PathInv, TypeOK
  <2>2. TypeOK'
    BY <1>4, <2>1 DEF PathInv, TypeOK, ThreadFits, Cancel, Raise, Ended, Owner, Creating,
                       Awaits, Jobs, Results, Steps
  <2>3. Records'
    BY <1>4, <2>1 DEF PathInv, TypeOK, Records, Record, Cancel, Complete, Steps
  <2> QED BY <2>2, <2>3 DEF PathInv
<1>5. CASE pc[a] \in {"turn", "refresh"}
  <2>1. pc' = [pc EXCEPT ![a] = "stop"] /\ did' = did
    BY <1>5 DEF Cancel, Interrupted, PathInv, TypeOK
  <2>2. TypeOK'
    BY <1>5, <2>1 DEF PathInv, TypeOK, ThreadFits, Cancel, Raise, Ended, Owner, Creating,
                       Awaits, Jobs, Results, Steps
  <2>3. Records'
    BY <1>5, <2>1 DEF PathInv, TypeOK, Records, Record, Cancel, Complete, Steps
  <2> QED BY <2>2, <2>3 DEF PathInv
<1> QED
  BY <1>1, <1>2, <1>3, <1>4, <1>5
     DEF Cancel, Owner, Ended, PathInv, TypeOK, Awaits, Records, Record

-----------------------------------------------------------------------------
LEMMA RunnerKeeps ==
    ASSUME PathInv, NEW a \in Attempts, Advance(a) \/ TurnEnds(a) PROVE PathInv'
<1>1. CASE CreateForIssue(a) \/ EnsureDirectory(a) \/ Created(a) \/ Reused(a)
        \/ CreationFails(a)
  BY <1>1, CreateForIssueKeeps, EnsureDirectoryKeeps, CreatedKeeps, ReusedKeeps,
     CreationFailsKeeps
<1>2. CASE AfterCreateSucceeds(a) \/ AfterCreateFails(a) \/ AfterCreateDrained(a)
        \/ DiscardNewDirectory(a) \/ Discarded(a)
  BY <1>2, AfterCreateSucceedsKeeps, AfterCreateFailsKeeps, AfterCreateDrainedKeeps,
     DiscardNewDirectoryKeeps, DiscardedKeeps
<1>3. CASE BeforeRunSucceeds(a) \/ BeforeRunFails(a) \/ SessionStarts(a)
        \/ SessionFails(a) \/ TurnCompletes(a) \/ TurnFails(a)
  BY <1>3, BeforeRunSucceedsKeeps, BeforeRunFailsKeeps, SessionStartsKeeps,
     SessionFailsKeeps, TurnCompletesKeeps, TurnFailsKeeps
<1>4. CASE RefreshFails(a) \/ BreakByRefresh(a)
        \/ BreakMaxTurns(a) \/ NextTurn(a)
  BY <1>4, RefreshFailsKeeps, BreakByRefreshKeeps,
     BreakMaxTurnsKeeps, NextTurnKeeps
<1>5. CASE SessionStopped(a) \/ AfterRunEnds(a) \/ Drained(a)
  BY <1>5, SessionStoppedKeeps, AfterRunEndsKeeps, DrainedKeeps
<1> QED BY <1>1, <1>2, <1>3, <1>4, <1>5 DEF Advance, TurnEnds

\* Cleanups and reloads touch no attempt.
LEMMA OthersKeep ==
    ASSUME PathInv,
           CleanupStarts \/ BeforeRemoveEnds \/ RemoveTree
             \/ (\E v \in Versions : Reload(v)) \/ UNCHANGED vars
    PROVE PathInv'
<1>1. TypeOK'
  <2>1. dir' \in Directory /\ spoilt' \in BOOLEAN
    BY RemovedTypes DEF PathInv, TypeOK, CleanupStarts, BeforeRemoveEnds, RemoveTree,
                        Reload, vars
  <2>2. \A b \in Attempts : ThreadFits(b)'
    BY DEF PathInv, TypeOK, ThreadFits, CleanupStarts, BeforeRemoveEnds, RemoveTree,
           Reload, vars, attempt
  <2> QED
    BY <2>1, <2>2 DEF PathInv, TypeOK, CleanupStarts, BeforeRemoveEnds, RemoveTree,
                      Reload, vars, attempt
<1>2. Records'
  BY DEF PathInv, Records, Record, CleanupStarts, BeforeRemoveEnds, RemoveTree, Reload,
         vars, attempt
<1> QED BY <1>1, <1>2 DEF PathInv

\* The inductive invariant.
LEMMA PathInvariant == Spec => []PathInv
<1>1. Init => PathInv
  BY InitPaths
<1>2. PathInv /\ [Next]_vars => PathInv'
  BY StartKeeps, RunnerKeeps, CancelKeeps, OthersKeep DEF Next
<1> QED BY <1>1, <1>2, PTL DEF Spec

\* Every variable of an attempt keeps its type, and a thread's result only
\* waits where somebody takes it (runner.py, manager.py).
THEOREM AttemptTypes == Spec => []TypeOK
<1>1. PathInv => TypeOK
  BY DEF PathInv
<1> QED BY <1>1, PathInvariant, PTL

\* EXIT_PATHS of runner.py holds on every way out of run_attempt that a
\* cancellation of the session's stop does not open.
THEOREM ExitPathsAreHonoured == Spec => []ExitPathsHonoured
<1>1. PathInv => ExitPathsHonoured
  <2> SUFFICES ASSUME PathInv, NEW a \in Attempts
               PROVE /\ pc[a] = "done" /\ cut[a] # "stop" =>
                          /\ "before_run" \in did[a] <=> "after_run" \in did[a]
                          /\ "session" \in did[a] <=> "stopped" \in did[a]
                     /\ "after_run" \in did[a] /\ "session" \in did[a]
                          => "stopped" \in did[a]
    BY DEF ExitPathsHonoured
  <2>1. Record(a) /\ pc[a] \in Awaits \cup {"idle", "done"}
    BY DEF PathInv, TypeOK, Records
  <2>2. did[a] \in Complete \cup {{"before_run"}, {"before_run", "session"}}
    BY <2>1 DEF Record, Awaits, Complete
  <2>3. pc[a] = "done" /\ cut[a] # "stop" => did[a] \in Complete
    BY <2>1 DEF Record
  <2> QED BY <2>2, <2>3 DEF Complete, Steps
<1> QED BY <1>1, PathInvariant, PTL

-----------------------------------------------------------------------------
(* WorkspaceIsSound.  With no interrupted creation and one owner at a time, *)
(* work on the directory is always that of the owner, and the directory is  *)
(* initialised except between the mkdir and the end of after_create.        *)

\* What the directory is while attempt a works on it or in it.
Making(a) ==
    /\ thread[a] \in {"mkdir", "raised"} => pc[a] = "mkdir"
    /\ thread[a] = "created" => pc[a] = "mkdir" /\ dir = NewDirectory(a)
    /\ thread[a] = "reused" => pc[a] = "mkdir" /\ dir.present /\ dir.ready
    /\ thread[a] \in {"rmtree", "discarded"} => pc[a] = "discard"
    /\ thread[a] = "rmtree" => dir.present /\ dir.maker = a
    /\ pc[a] = "after_create" => dir.present /\ dir.maker = a /\ a \in dir.inits
    /\ Owner(a) /\ pc[a] \in Working => dir.present /\ dir.ready

\* The directory is being initialised, or about to be discarded.
UnderWay(a) ==
    \/ thread[a] \in {"created", "rmtree"}
    \/ pc[a] = "after_create"

Sound ==
    /\ \A a, b \in Attempts : Owner(a) /\ Owner(b) => a = b
    /\ removal # "none" => \A a \in Attempts : ~Owner(a)
    /\ \A a \in Attempts :
          thread[a] # "idle" \/ pc[a] \in Creating \cup {"scheduled"} => Owner(a)
    /\ \A a \in Attempts : pc[a] # "drain_create"
    /\ dir.present /\ ~dir.ready => \E a \in Attempts : UnderWay(a)
    /\ \A a \in Attempts : Making(a)

SoundInv == ~spoilt /\ ~racing => Sound

LEMMA StartSound ==
    ASSUME TypeOK, SoundInv, NEW a \in Attempts, Start(a) PROVE SoundInv'
BY DEF TypeOK, SoundInv, Sound, Making, UnderWay, Start, Ended, Owner,
       NewDirectory, Awaits, Jobs, Results, Working, Creating, Directory

LEMMA CreateForIssueSound ==
    ASSUME TypeOK, SoundInv, NEW a \in Attempts, CreateForIssue(a) PROVE SoundInv'
BY DEF TypeOK, SoundInv, Sound, Making, UnderWay, CreateForIssue, Move, Ended,
       Owner, NewDirectory, Awaits, Jobs, Results, Working, Creating, Directory

LEMMA EnsureDirectorySound ==
    ASSUME TypeOK, SoundInv, NEW a \in Attempts, EnsureDirectory(a) PROVE SoundInv'
BY DEF TypeOK, SoundInv, Sound, Making, UnderWay, EnsureDirectory, Ended, Owner,
       attempt, Answers, CreatedNow, NewDirectory, Awaits, Jobs, Results, Working,
       Creating, Directory

LEMMA CreatedSound ==
    ASSUME TypeOK, SoundInv, NEW a \in Attempts, Created(a) PROVE SoundInv'
BY DEF TypeOK, SoundInv, Sound, Making, UnderWay, Created, Move, Ended, Owner,
       NewDirectory, Awaits, Jobs, Results, Working, Creating, Directory

LEMMA ReusedSound ==
    ASSUME TypeOK, SoundInv, NEW a \in Attempts, Reused(a) PROVE SoundInv'
BY DEF TypeOK, SoundInv, Sound, Making, UnderWay, Reused, Move, Ended, Owner,
       NewDirectory, Awaits, Jobs, Results, Working, Creating, Directory

LEMMA CreationFailsSound ==
    ASSUME TypeOK, SoundInv, NEW a \in Attempts, CreationFails(a) PROVE SoundInv'
BY DEF TypeOK, SoundInv, Sound, Making, UnderWay, CreationFails, Move, Ended,
       Owner, Raise, NewDirectory, Awaits, Jobs, Results, Working, Creating,
       Directory

LEMMA AfterCreateSucceedsSound ==
    ASSUME TypeOK, SoundInv, NEW a \in Attempts, AfterCreateSucceeds(a) PROVE SoundInv'
BY DEF TypeOK, SoundInv, Sound, Making, UnderWay, AfterCreateSucceeds, Move,
       Ended, Owner, NewDirectory, Awaits, Jobs, Results, Working, Creating,
       Directory

LEMMA AfterCreateFailsSound ==
    ASSUME TypeOK, SoundInv, NEW a \in Attempts, AfterCreateFails(a) PROVE SoundInv'
BY DEF TypeOK, SoundInv, Sound, Making, UnderWay, AfterCreateFails, Move, Ended,
       Owner, Raise, NewDirectory, Awaits, Jobs, Results, Working, Creating,
       Directory

LEMMA AfterCreateDrainedSound ==
    ASSUME TypeOK, SoundInv, NEW a \in Attempts, AfterCreateDrained(a) PROVE SoundInv'
BY DEF TypeOK, SoundInv, Sound, Making, UnderWay, AfterCreateDrained, Move, Ended,
       Owner, NewDirectory, Awaits, Jobs, Results, Working, Creating, Directory

LEMMA DiscardNewDirectorySound ==
    ASSUME TypeOK, SoundInv, NEW a \in Attempts, DiscardNewDirectory(a) PROVE SoundInv'
BY DEF TypeOK, SoundInv, Sound, Making, UnderWay, DiscardNewDirectory, Ended,
       Owner, attempt, Answers, NewDirectory, NoDirectory, RemoveDirectory,
       Awaits, Jobs, Results, Working, Creating, Directory

LEMMA DiscardedSound ==
    ASSUME TypeOK, SoundInv, NEW a \in Attempts, Discarded(a) PROVE SoundInv'
BY DEF TypeOK, SoundInv, Sound, Making, UnderWay, Discarded, Move, Ended, Owner,
       NewDirectory, Awaits, Jobs, Results, Working, Creating, Directory

LEMMA BeforeRunSucceedsSound ==
    ASSUME TypeOK, SoundInv, NEW a \in Attempts, BeforeRunSucceeds(a) PROVE SoundInv'
BY DEF TypeOK, SoundInv, Sound, Making, UnderWay, BeforeRunSucceeds, Move, Ended,
       Owner, Note, Runner, NewDirectory, Awaits, Jobs, Results, Working,
       Creating, Directory

LEMMA BeforeRunFailsSound ==
    ASSUME TypeOK, SoundInv, NEW a \in Attempts, BeforeRunFails(a) PROVE SoundInv'
BY DEF TypeOK, SoundInv, Sound, Making, UnderWay, BeforeRunFails, Move, Ended,
       Owner, Raise, Runner, NewDirectory, Awaits, Jobs, Results, Working,
       Creating, Directory

LEMMA SessionStartsSound ==
    ASSUME TypeOK, SoundInv, NEW a \in Attempts, SessionStarts(a) PROVE SoundInv'
BY DEF TypeOK, SoundInv, Sound, Making, UnderWay, SessionStarts, Move, Ended,
       Owner, Raise, Note, Runner, NewDirectory, Awaits, Jobs, Results, Working,
       Creating, Directory

LEMMA SessionFailsSound ==
    ASSUME TypeOK, SoundInv, NEW a \in Attempts, SessionFails(a) PROVE SoundInv'
BY DEF TypeOK, SoundInv, Sound, Making, UnderWay, SessionFails, Move, Ended,
       Owner, Raise, Note, Runner, NewDirectory, Awaits, Jobs, Results, Working,
       Creating, Directory

LEMMA TurnCompletesSound ==
    ASSUME TypeOK, SoundInv, NEW a \in Attempts, TurnCompletes(a) PROVE SoundInv'
BY DEF TypeOK, SoundInv, Sound, Making, UnderWay, TurnCompletes, Move, Ended,
       Owner, Runner, NewDirectory, Awaits, Jobs, Results, Working, Creating,
       Directory

LEMMA TurnFailsSound ==
    ASSUME TypeOK, SoundInv, NEW a \in Attempts, TurnFails(a) PROVE SoundInv'
BY DEF TypeOK, SoundInv, Sound, Making, UnderWay, TurnFails, Move, Ended, Owner,
       Raise, Runner, NewDirectory, Awaits, Jobs, Results, Working, Creating,
       Directory

LEMMA RefreshFailsSound ==
    ASSUME TypeOK, SoundInv, NEW a \in Attempts, RefreshFails(a) PROVE SoundInv'
BY DEF TypeOK, SoundInv, Sound, Making, UnderWay, RefreshFails, Move, Ended,
       Owner, Raise, Runner, NewDirectory, Awaits, Jobs, Results, Working,
       Creating, Directory

LEMMA BreakMaxTurnsSound ==
    ASSUME TypeOK, SoundInv, NEW a \in Attempts, BreakMaxTurns(a) PROVE SoundInv'
BY DEF TypeOK, SoundInv, Sound, Making, UnderWay, BreakMaxTurns, Move, Ended,
       Owner, Runner, NewDirectory, LastTurn, Awaits, Jobs, Results, Working,
       Creating, Directory

LEMMA NextTurnSound ==
    ASSUME TypeOK, SoundInv, NEW a \in Attempts, NextTurn(a) PROVE SoundInv'
BY DEF TypeOK, SoundInv, Sound, Making, UnderWay, NextTurn, Move, Ended, Owner,
       Raise, Runner, NewDirectory, LastTurn, Awaits, Jobs, Results, Working,
       Creating, Directory

LEMMA SessionStoppedSound ==
    ASSUME TypeOK, SoundInv, NEW a \in Attempts, SessionStopped(a) PROVE SoundInv'
BY DEF TypeOK, SoundInv, Sound, Making, UnderWay, SessionStopped, Move, Ended,
       Owner, Runner, NewDirectory, Awaits, Jobs, Results, Working, Creating,
       Directory

LEMMA AfterRunEndsSound ==
    ASSUME TypeOK, SoundInv, NEW a \in Attempts, AfterRunEnds(a) PROVE SoundInv'
BY DEF TypeOK, SoundInv, Sound, Making, UnderWay, AfterRunEnds, Move, Ended,
       Owner, Runner, NewDirectory, Awaits, Jobs, Results, Working, Creating,
       Directory

LEMMA DrainedSound ==
    ASSUME TypeOK, SoundInv, NEW a \in Attempts, Drained(a) PROVE SoundInv'
BY DEF TypeOK, SoundInv, Sound, Making, UnderWay, Drained, Move, Ended, Owner,
       Runner, NewDirectory, Awaits, Jobs, Results, Working, Creating, Directory

\* A cancellation either interrupts a creation, which is what spoilt records,
\* or meets an attempt with no directory work under way.
LEMMA CancelSound ==
    ASSUME PathInv, SoundInv, NEW a \in Attempts, Cancel(a) PROVE SoundInv'
<1> USE DEF PathInv
<1>1. CASE pc[a] \in Creating
  BY <1>1 DEF Cancel, SoundInv
<1>2. CASE pc[a] \notin Creating
  <2> SUFFICES ASSUME ~spoilt, ~racing, Sound PROVE Sound'
    BY <1>2 DEF Cancel, SoundInv, TypeOK
  <2>1. thread[a] = "idle"
    BY <1>2 DEF TypeOK, Sound, Making, Creating, Jobs, Results
  <2>2. \A b \in Attempts : thread'[b] = thread[b]
    BY <2>1 DEF Cancel, TypeOK, Jobs
  <2>3. pc[a] # "drain_create" /\ cut'[a] # "no" /\ \A b \in Attempts \ {a} : cut'[b] = cut[b]
    BY DEF Cancel, Owner, Ended, TypeOK, Sound, Awaits
  <2>4. pc'[a] \in {"done", "drain", "after_run", "stop"}
    <3>1. pc'[a] = Interrupted(a)
      BY DEF Cancel, TypeOK
    <3>2. pc[a] \in {"scheduled", "stop", "before_run", "after_run", "drain", "start",
                     "turn", "refresh"}
      BY <1>2, <2>3 DEF Cancel, Owner, Ended, TypeOK, Awaits, Creating
    <3>3. pc[a] # "drain"
      BY DEF Cancel, Owner, Records, Record
    <3> QED BY <3>1, <3>2, <3>3 DEF Interrupted
  <2>5. \A b \in Attempts \ {a} : pc'[b] = pc[b] /\ (Owner(b)' <=> Owner(b))
    BY <2>3 DEF Cancel, Owner, Ended, TypeOK
  <2>6. ~Owner(a)'
    BY <2>3 DEF Owner
  <2>7. \A b \in Attempts : Making(b)'
    BY <2>1, <2>2, <2>4, <2>5, <2>6 DEF Cancel, Sound, Making
  <2>8. dir'.present /\ ~dir'.ready => \E b \in Attempts : UnderWay(b)'
    BY <1>2, <2>1, <2>2, <2>5 DEF Cancel, Sound, UnderWay, Creating
  <2> QED
    BY <2>1, <2>2, <2>4, <2>5, <2>6, <2>7, <2>8 DEF Cancel, Sound, Creating
<1> QED BY <1>1, <1>2

LEMMA BreakByRefreshSound ==
    ASSUME TypeOK, SoundInv, NEW a \in Attempts, BreakByRefresh(a) PROVE SoundInv'
BY DEF TypeOK, SoundInv, Sound, Making, UnderWay, BreakByRefresh, Move, Ended,
       Owner, Runner, NewDirectory, Awaits, Jobs, Results, Working, Creating,
       Directory

LEMMA OthersSound ==
    ASSUME TypeOK, SoundInv,
           CleanupStarts \/ BeforeRemoveEnds \/ RemoveTree
             \/ (\E v \in Versions : Reload(v)) \/ UNCHANGED vars
    PROVE SoundInv'
<1>1. CASE CleanupStarts \/ BeforeRemoveEnds
    BY <1>1 DEF SoundInv, Sound, Making, UnderWay, CleanupStarts,
              BeforeRemoveEnds, attempt, Owner, Ended
<1>2. CASE RemoveTree
    BY <1>2 DEF SoundInv, Sound, Making, UnderWay, RemoveTree, RemoveDirectory,
              NoDirectory,
              attempt, Owner, Ended, TypeOK, Jobs, Results, Creating, Awaits, Working
<1>3. CASE (\E v \in Versions : Reload(v)) \/ UNCHANGED vars
    BY <1>3 DEF SoundInv, Sound, Making, UnderWay, Reload, vars, attempt, Owner,
              Ended
<1> QED BY <1>1, <1>2, <1>3


LEMMA AdvanceSound ==
    ASSUME TypeOK, SoundInv, NEW a \in Attempts, Advance(a) \/ TurnEnds(a) PROVE SoundInv'
BY CreateForIssueSound, EnsureDirectorySound, CreatedSound, ReusedSound,
   CreationFailsSound, AfterCreateSucceedsSound, AfterCreateFailsSound,
   AfterCreateDrainedSound, DiscardNewDirectorySound, DiscardedSound,
   BeforeRunSucceedsSound, BeforeRunFailsSound, SessionStartsSound,
   SessionFailsSound, TurnCompletesSound, TurnFailsSound, RefreshFailsSound,
   BreakByRefreshSound, BreakMaxTurnsSound, NextTurnSound, SessionStoppedSound,
   AfterRunEndsSound, DrainedSound
   DEF Advance, TurnEnds

\* Under the orchestrator's one owner at a time, and until a creation is
\* interrupted or a removal fails half way, no attempt works in a missing or
\* uninitialised directory or discards another one's (manager.py).
THEOREM WorkspaceStaysSound == Spec => []WorkspaceIsSound
<1>1. Init => SoundInv
  BY DEF Init, SoundInv, Sound, Making, UnderWay, Owner, Ended, NoDirectory, Working,
         Creating
<1>2. PathInv /\ SoundInv /\ [Next]_vars => SoundInv'
  BY StartSound, AdvanceSound, CancelSound, OthersSound DEF Next, PathInv
<1>3. SoundInv => WorkspaceIsSound
  BY DEF SoundInv, Sound, Making, WorkspaceIsSound
<1> QED BY <1>1, <1>2, <1>3, PathInvariant, PTL DEF Spec

-----------------------------------------------------------------------------
(* OneInitialiser, which holds of racing attempts too: whoever initialises  *)
(* or discards the directory is its maker, and nobody else removes it while *)
(* he does.                                                                 *)

Apart ==
    /\ dir.inits \subseteq {dir.maker}
    /\ \A a \in Attempts : UnderWay(a) => dir.present /\ dir.maker = a
    /\ \A a \in Attempts :
          /\ pc[a] \in Creating \cup {"scheduled"} => cut[a] = "no"
          /\ pc[a] # "drain_create"
          /\ pc[a] = "done" => thread[a] = "idle"
    /\ removal # "none" => ~racing /\ \A a \in Attempts : ~Owner(a)

ApartInv == ~spoilt => Apart

\* Before the session starts or while it is used nothing is made or removed.
LEMMA WorkApart ==
    ASSUME TypeOK, ApartInv, NEW a \in Attempts, NEW to,
           UNCHANGED <<cut, thread, dir, removal, racing, spoilt>>,
           pc' = [pc EXCEPT ![a] = to],
           pc[a] \in Working \cup {"drain"}, to \in Working \cup {"done"}
    PROVE  ApartInv'
<1> SUFFICES ASSUME ~spoilt, Apart PROVE Apart'
    BY DEF ApartInv
<1>1. pc'[a] = to /\ \A b \in Attempts \ {a} : pc'[b] = pc[b]
    BY DEF TypeOK
<1>2. thread[a] = "idle"
    BY DEF TypeOK, ThreadFits, Working
<1>3. \A b \in Attempts : UnderWay(b)' => UnderWay(b)
    BY <1>1 DEF UnderWay, Working
<1>4. \A b \in Attempts : Owner(b)' => Owner(b)
    BY <1>1 DEF Owner, Ended, Working
<1>5. ASSUME NEW b \in Attempts
      PROVE  /\ pc'[b] \in Creating \cup {"scheduled"} => cut'[b] = "no"
             /\ pc'[b] # "drain_create"
             /\ pc'[b] = "done" => thread'[b] = "idle"
    BY <1>1, <1>2 DEF Apart, Working, Creating
<1>. QED
    BY <1>3, <1>4, <1>5 DEF Apart

LEMMA StartApart ==
    ASSUME TypeOK, ApartInv, NEW a \in Attempts, Start(a) PROVE ApartInv'
BY DEF ApartInv, Apart, UnderWay, Start, Owner, Ended, Creating, TypeOK

LEMMA CreateForIssueApart ==
    ASSUME TypeOK, ApartInv, NEW a \in Attempts, CreateForIssue(a) PROVE ApartInv'
BY DEF ApartInv, Apart, UnderWay, CreateForIssue, Move, Owner, Ended, Creating, TypeOK,
       ThreadFits

LEMMA EnsureDirectoryApart ==
    ASSUME TypeOK, ApartInv, NEW a \in Attempts, EnsureDirectory(a) PROVE ApartInv'
<1> SUFFICES ASSUME ~spoilt, Apart PROVE Apart'
    BY DEF ApartInv, EnsureDirectory
<1>1. UNCHANGED <<attempt, removal, racing>> /\ UNCHANGED <<pc, cut>>
    BY DEF EnsureDirectory, attempt
<1>2. thread[a] = "mkdir" /\ pc[a] \in {"mkdir", "discard"}
    BY DEF EnsureDirectory, TypeOK, ThreadFits, Apart
<1>3. \A b \in Attempts \ {a} : thread'[b] = thread[b]
    BY DEF EnsureDirectory, Answers, TypeOK
<1>4. thread'[a] \in {"created", "reused", "raised"}
      /\ (thread'[a] = "created" => ~dir.present /\ dir' = NewDirectory(a))
      /\ (dir' = dir \/ (~dir.present /\ dir' = NewDirectory(a)))
    <2>1. PICK r \in {"created", "reused", "raised"} :
            /\ Answers(a, r)
            /\ \/ /\ r = IF CreatedNow(a) THEN "created" ELSE "reused"
                  /\ dir' = IF dir.present THEN dir ELSE NewDirectory(a)
               \/ r = "raised" /\ dir' = dir
        BY DEF EnsureDirectory
    <2>2. thread'[a] = r
        BY <1>2, <2>1 DEF Answers, Ended, TypeOK
    <2>3. CASE dir.present
        <3>1. r # "created" /\ dir' = dir
            BY <2>1, <2>3 DEF CreatedNow
        <3>. QED
            BY <2>1, <2>2, <3>1
    <2>4. CASE ~dir.present
        <3>1. (dir' = dir /\ r = "raised") \/ dir' = NewDirectory(a)
            BY <2>1, <2>4
        <3>. QED
            BY <2>1, <2>2, <2>4, <3>1
    <2>. QED
        BY <2>3, <2>4
<1>5. dir'.inits \subseteq {dir'.maker}
    BY <1>4 DEF Apart, NewDirectory
<1>6. ASSUME NEW b \in Attempts, UnderWay(b)' PROVE dir'.present /\ dir'.maker = b
    <2>1. CASE b = a
        BY <1>1, <1>2, <1>4, <1>6, <2>1 DEF UnderWay, NewDirectory
    <2>2. CASE b # a
        <3>1. UnderWay(b)
            BY <1>1, <1>3, <1>6, <2>2 DEF UnderWay
        <3>. QED
            BY <1>4, <3>1 DEF Apart
    <2>. QED
        BY <2>1, <2>2
<1>7. ASSUME NEW b \in Attempts
      PROVE  /\ pc'[b] \in Creating \cup {"scheduled"} => cut'[b] = "no"
             /\ pc'[b] # "drain_create"
             /\ pc'[b] = "done" => thread'[b] = "idle"
    BY <1>1, <1>2, <1>3 DEF Apart
<1>8. removal' # "none" => ~racing' /\ \A b \in Attempts : ~Owner(b)'
    BY <1>1 DEF Apart, Owner, Ended
<1>. QED
    BY <1>5, <1>6, <1>7, <1>8 DEF Apart

LEMMA CreatedApart ==
    ASSUME TypeOK, ApartInv, NEW a \in Attempts, Created(a) PROVE ApartInv'
BY DEF ApartInv, Apart, UnderWay, Created, Move, Owner, Ended, Creating, TypeOK, Directory

\* Steps that leave the directory and end or go on with a creation.
LEMMA CreationApart ==
    ASSUME TypeOK, ApartInv, NEW a \in Attempts,
           Reused(a) \/ CreationFails(a) \/ AfterCreateFails(a) \/ AfterCreateDrained(a)
             \/ Discarded(a)
    PROVE  ApartInv'
BY DEF ApartInv, Apart, UnderWay, Reused, CreationFails, AfterCreateFails,
       AfterCreateDrained, Discarded, Move, Raise, Owner, Ended, Creating, TypeOK

LEMMA AfterCreateSucceedsApart ==
    ASSUME TypeOK, ApartInv, NEW a \in Attempts, AfterCreateSucceeds(a) PROVE ApartInv'
BY DEF ApartInv, Apart, UnderWay, AfterCreateSucceeds, Move, Owner, Ended, Creating, TypeOK,
       ThreadFits, Directory

LEMMA DiscardNewDirectoryApart ==
    ASSUME TypeOK, ApartInv, NEW a \in Attempts, DiscardNewDirectory(a) PROVE ApartInv'
<1> SUFFICES ASSUME ~spoilt', Apart PROVE Apart'
    BY DEF ApartInv, DiscardNewDirectory, RemoveDirectory
<1>1. dir' = NoDirectory
    BY DEF DiscardNewDirectory, RemoveDirectory
<1>2. UNCHANGED <<pc, cut, removal, racing>> /\ UnderWay(a)
    BY DEF DiscardNewDirectory, attempt, UnderWay
<1>3. pc[a] = "discard" \/ pc[a] = "mkdir"
    BY DEF DiscardNewDirectory, TypeOK, ThreadFits, Apart
<1>4. thread'[a] = "discarded" /\ \A b \in Attempts \ {a} : thread'[b] = thread[b]
    BY <1>3 DEF DiscardNewDirectory, Answers, Ended, TypeOK
<1>5. \A b \in Attempts : ~UnderWay(b)'
    BY <1>2, <1>3, <1>4 DEF Apart, UnderWay
<1>. QED
    BY <1>1, <1>2, <1>3, <1>4, <1>5 DEF Apart, NoDirectory, Owner, Ended

\* A cancelled creation spoils the directory; any other cancellation leaves it.
LEMMA CancelApart ==
    ASSUME PathInv, ApartInv, NEW a \in Attempts, Cancel(a) PROVE ApartInv'
<1> USE DEF PathInv
<1> SUFFICES ASSUME ~spoilt, Apart, pc[a] \notin Creating PROVE Apart'
    BY DEF Cancel, ApartInv, TypeOK
<1>1. pc[a] \in {"scheduled", "before_run", "start", "turn", "refresh", "stop", "after_run"}
    BY DEF Cancel, Owner, Ended, TypeOK, Awaits, Creating, Apart, Records, Record
<1>2. pc'[a] \in {"done", "drain", "after_run", "stop"}
    <2>1. pc'[a] = Interrupted(a)
        BY DEF Cancel, TypeOK
    <2>. QED
        BY <1>1, <2>1 DEF Interrupted
<1>3. thread[a] = "idle" /\ \A b \in Attempts : thread'[b] = thread[b]
    <2>1. thread[a] = "idle"
        BY <1>1 DEF TypeOK, ThreadFits
    <2>. QED
        BY <2>1 DEF Cancel, TypeOK, Jobs
<1>4. \A b \in Attempts \ {a} : pc'[b] = pc[b] /\ cut'[b] = cut[b]
    BY DEF Cancel, TypeOK
<1>5. \A b \in Attempts : UnderWay(b)' => UnderWay(b)
    BY <1>2, <1>3, <1>4 DEF UnderWay
<1>6. cut'[a] # "no"
    BY <1>1 DEF Cancel, TypeOK
<1>7. \A b \in Attempts : Owner(b)' => Owner(b)
    BY <1>4, <1>6 DEF Owner, Ended
<1>8. UNCHANGED <<dir, removal, racing>>
    BY DEF Cancel
<1>9. ASSUME NEW b \in Attempts
      PROVE  /\ pc'[b] \in Creating \cup {"scheduled"} => cut'[b] = "no"
             /\ pc'[b] # "drain_create"
             /\ pc'[b] = "done" => thread'[b] = "idle"
    BY <1>2, <1>3, <1>4 DEF Apart, Creating
<1>. QED
    BY <1>5, <1>7, <1>8, <1>9 DEF Apart

LEMMA AdvanceApart ==
    ASSUME TypeOK, ApartInv, NEW a \in Attempts, Advance(a) \/ TurnEnds(a) PROVE ApartInv'
<1>1. CASE \/ CreateForIssue(a) \/ EnsureDirectory(a) \/ Created(a) \/ Reused(a)
           \/ CreationFails(a) \/ AfterCreateSucceeds(a) \/ AfterCreateFails(a)
           \/ AfterCreateDrained(a) \/ DiscardNewDirectory(a) \/ Discarded(a)
    BY <1>1, CreateForIssueApart, EnsureDirectoryApart, CreatedApart, CreationApart,
       AfterCreateSucceedsApart, DiscardNewDirectoryApart
<1>2. CASE \/ BeforeRunSucceeds(a) \/ BeforeRunFails(a)
           \/ SessionStarts(a) \/ SessionFails(a)
           \/ TurnCompletes(a) \/ TurnFails(a) \/ RefreshFails(a)
           \/ BreakByRefresh(a) \/ BreakMaxTurns(a) \/ NextTurn(a)
           \/ SessionStopped(a) \/ AfterRunEnds(a) \/ Drained(a)
    <2>1. PICK from \in Working \cup {"drain"}, to \in Working \cup {"done"} :
             Move(a, from, to)
        BY <1>2 DEF BeforeRunSucceeds, BeforeRunFails, SessionStarts, SessionFails,
                    TurnCompletes, TurnFails, RefreshFails, BreakByRefresh, BreakMaxTurns,
                    NextTurn, SessionStopped, AfterRunEnds, Drained, Working
    <2>2. Runner(a)
        BY <1>2 DEF BeforeRunSucceeds, BeforeRunFails, SessionStarts, SessionFails,
                    TurnCompletes, TurnFails, RefreshFails, BreakByRefresh, BreakMaxTurns,
                    NextTurn, SessionStopped, AfterRunEnds, Drained
    <2>. QED
        BY <2>1, <2>2, WorkApart DEF Move, Runner
<1>. QED
    BY <1>1, <1>2 DEF Advance, TurnEnds

LEMMA OthersApart ==
    ASSUME TypeOK, ApartInv,
           CleanupStarts \/ BeforeRemoveEnds \/ RemoveTree
             \/ (\E v \in Versions : Reload(v)) \/ UNCHANGED vars
    PROVE ApartInv'
<1>1. CASE CleanupStarts \/ BeforeRemoveEnds
    BY <1>1 DEF ApartInv, Apart, UnderWay, CleanupStarts, BeforeRemoveEnds, attempt, Owner,
                Ended
<1>2. CASE RemoveTree
    <2> SUFFICES ASSUME ~spoilt', Apart PROVE Apart'
        BY <1>2 DEF ApartInv, RemoveTree, RemoveDirectory
    <2>1. /\ dir' = NoDirectory /\ removal = "rmtree" /\ removal' = "none"
          /\ UNCHANGED <<pc, cut, thread, racing>>
        BY <1>2 DEF RemoveTree, RemoveDirectory, attempt
    <2>2. \A b \in Attempts : ~UnderWay(b)
        BY <2>1 DEF Apart, UnderWay, Owner, Ended, TypeOK, ThreadFits, Creating, Jobs
    <2>. QED
        BY <2>1, <2>2 DEF Apart, UnderWay, NoDirectory
<1>3. CASE (\E v \in Versions : Reload(v)) \/ UNCHANGED vars
    BY <1>3 DEF ApartInv, Apart, UnderWay, Reload, vars, attempt, Owner, Ended
<1>. QED
    BY <1>1, <1>2, <1>3

\* Until a creation is interrupted or a removal fails half way, at most one
\* attempt ran after_create in the directory that is there, however many race
\* for it: the docstring of create_for_issue (manager.py).
THEOREM OneAttemptInitialises == Spec => []OneInitialiser
<1>1. Init => ApartInv
    BY DEF Init, ApartInv, Apart, UnderWay, NoDirectory, Creating
<1>2. PathInv /\ ApartInv /\ [Next]_vars => ApartInv'
    BY StartApart, AdvanceApart, CancelApart, OthersApart DEF Next, PathInv
<1>3. ApartInv => OneInitialiser
    <2> SUFFICES ASSUME Apart PROVE Cardinality(dir.inits) <= 1
        BY DEF ApartInv, OneInitialiser
    <2>1. dir.inits = {} \/ dir.inits = {dir.maker}
        BY DEF Apart
    <2>. QED
        BY <2>1, FS_EmptySet, FS_Singleton
<1>. QED
    BY <1>1, <1>2, <1>3, PathInvariant, PTL DEF Spec

-----------------------------------------------------------------------------
(* TurnsStayBounded: the first turn is number 1, and a later one was        *)
(* compared with the bound before it began.                                 *)

BeforeTurns == {"scheduled", "mkdir", "after_create", "before_run", "start"}

Numbered(a) ==
    /\ pc[a] \in BeforeTurns => turn[a] = 1
    /\ pc[a] = "turn" => turn[a] = 1 \/ turn[a] <= bound[a]

Numbers == \A a \in Attempts : Numbered(a)

\* A step that neither begins an attempt nor a turn.
LEMMA NoTurnBegins ==
    ASSUME TypeOK, Numbers, NEW a \in Attempts, NEW to,
           UNCHANGED <<turn, bound>>,
           pc' = pc \/ pc' = [pc EXCEPT ![a] = to],
           to # "turn", to \in BeforeTurns => pc[a] \in BeforeTurns
    PROVE  Numbers'
<1>1. pc'[a] \in {pc[a], to} /\ \A b \in Attempts \ {a} : pc'[b] = pc[b]
    BY DEF TypeOK
<1>. QED
    BY <1>1 DEF Numbers, Numbered, BeforeTurns

LEMMA AdvanceNumbers ==
    ASSUME TypeOK, Numbers, NEW a \in Attempts, Advance(a) \/ TurnEnds(a)
    PROVE  Numbers'
<1>1. CASE SessionStarts(a)
    <2>1. /\ pc[a] = "start" /\ pc'[a] \in {"turn", "stop"} /\ turn' = turn
          /\ \A b \in Attempts \ {a} : pc'[b] = pc[b] /\ bound'[b] = bound[b]
        BY <1>1 DEF SessionStarts, Move, TypeOK
    <2>. QED
        BY <2>1 DEF Numbers, Numbered, BeforeTurns
<1>2. CASE NextTurn(a)
    <2>1. /\ pc[a] = "refresh" /\ pc'[a] \in {"turn", "stop"} /\ bound' = bound
          /\ turn'[a] = turn[a] + 1 /\ ~(turn[a] >= bound[a])
          /\ \A b \in Attempts \ {a} : pc'[b] = pc[b] /\ turn'[b] = turn[b]
        BY <1>2 DEF NextTurn, LastTurn, Move, TypeOK
    <2>2. turn'[a] <= bound'[a]
        <3>1. turn[a] \in Nat /\ bound[a] \in Nat
            BY DEF TypeOK
        <3>. QED
            BY <2>1, <3>1
    <2>. QED
        BY <2>1, <2>2 DEF Numbers, Numbered, BeforeTurns
<1>3. CASE EnsureDirectory(a) \/ DiscardNewDirectory(a)
    BY <1>3, NoTurnBegins DEF EnsureDirectory, DiscardNewDirectory, attempt, BeforeTurns
<1>4. CASE \/ CreateForIssue(a) \/ Created(a) \/ Reused(a) \/ CreationFails(a)
           \/ AfterCreateSucceeds(a) \/ AfterCreateFails(a) \/ AfterCreateDrained(a)
           \/ Discarded(a)
    <2>1. PICK from, to \in {"scheduled", "mkdir", "after_create", "before_run", "discard",
                              "drain_create", "done"} :
             Move(a, from, to) /\ (to \in BeforeTurns => from \in BeforeTurns)
        BY <1>4 DEF CreateForIssue, Created, Reused, CreationFails, AfterCreateSucceeds,
                    AfterCreateFails, AfterCreateDrained, Discarded, Move, BeforeTurns
    <2>2. UNCHANGED <<turn, bound>>
        BY <1>4 DEF CreateForIssue, Created, Reused, CreationFails, AfterCreateSucceeds,
                    AfterCreateFails, AfterCreateDrained, Discarded
    <2>. QED
        BY <2>1, <2>2, NoTurnBegins DEF Move
<1>5. CASE \/ BeforeRunSucceeds(a) \/ BeforeRunFails(a) \/ SessionFails(a)
           \/ TurnCompletes(a) \/ TurnFails(a) \/ RefreshFails(a) \/ BreakByRefresh(a)
           \/ BreakMaxTurns(a) \/ SessionStopped(a) \/ AfterRunEnds(a) \/ Drained(a)
    <2>1. PICK from \in Awaits, to \in {"start", "refresh", "stop", "after_run", "done"} :
             Move(a, from, to) /\ (to \in BeforeTurns => from \in BeforeTurns)
        BY <1>5 DEF BeforeRunSucceeds, BeforeRunFails, SessionFails, TurnCompletes, TurnFails,
                    RefreshFails, BreakByRefresh, BreakMaxTurns, SessionStopped, AfterRunEnds,
                    Drained, BeforeTurns, Awaits
    <2>2. UNCHANGED <<turn, bound>>
        BY <1>5 DEF BeforeRunSucceeds, BeforeRunFails, SessionFails, TurnCompletes, TurnFails,
                    RefreshFails, BreakByRefresh, BreakMaxTurns, SessionStopped, AfterRunEnds,
                    Drained
    <2>. QED
        BY <2>1, <2>2, NoTurnBegins DEF Move
<1>. QED
    BY <1>1, <1>2, <1>3, <1>4, <1>5 DEF Advance, TurnEnds

\* A reload cannot change what the running loops compare with: each turn after
\* the first is within the max_turns its loop read when it began.
THEOREM TurnsAreBounded == Spec => []TurnsStayBounded
<1>1. Init => Numbers
    BY DEF Init, Numbers, Numbered
<1>2. ASSUME PathInv, Numbers, [Next]_vars PROVE Numbers'
    <2> USE <1>2 DEF PathInv
    <2>1. ASSUME NEW a \in Attempts, Start(a) PROVE Numbers'
        BY <2>1 DEF Start, TypeOK, Numbers, Numbered
    <2>2. ASSUME NEW a \in Attempts, Cancel(a) PROVE Numbers'
        <3>1. pc[a] \in Awaits \ {"drain", "drain_create"}
            BY <2>2 DEF Cancel, Owner, Ended, TypeOK, Records, Record
        <3>2. Interrupted(a) \in {"done", "drain_create", "drain", "after_run", "stop"}
            BY <3>1 DEF Interrupted, Awaits
        <3>. QED
            BY <2>2, <3>2, NoTurnBegins DEF Cancel, BeforeTurns
    <2>3. CASE \/ CleanupStarts \/ BeforeRemoveEnds \/ RemoveTree
               \/ (\E v \in Versions : Reload(v)) \/ UNCHANGED vars
        BY <2>3 DEF CleanupStarts, BeforeRemoveEnds, RemoveTree, Reload, vars, attempt,
                    Numbers, Numbered
    <2>. QED
        BY <2>1, <2>2, <2>3, AdvanceNumbers DEF Next
<1>3. Numbers => TurnsStayBounded
    BY DEF Numbers, Numbered, TurnsStayBounded
<1>. QED
    BY <1>1, <1>2, <1>3, PathInvariant, PTL DEF Spec

=============================================================================
