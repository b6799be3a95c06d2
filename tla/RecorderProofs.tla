----------------------------- MODULE RecorderProofs -----------------------------
(***************************************************************************)
(* Theorems about a recorded flight, for any number of later runs and of   *)
(* failed writes.                                                          *)
(***************************************************************************)
EXTENDS RecorderProperties, TLAPS

USE RecorderAssumption

\* What a process at each of its steps may rely on, whatever the others did since.
FilesInv ==
  /\ SidecarTells
  /\ metadata \/ payload => recorder # "none"
  /\ recorder # "none" => sidecar # Absent \/ staging
  /\ handler \in {"writing", "clearing"} => metadata /\ payload
  /\ handler = "clearing" => sidecar # Absent
  /\ fallback \in {"staged", "reading", "writing"} => metadata /\ payload
  /\ fallback = "clearing" => sidecar # Absent

\* Where the runner can be, and where a signal can make it go on.
TrapInv ==
  /\ teardown => runner \in {"stopping", "terminating", "finalize", "stackdown", "reaping", "dead"}
  /\ runner \in {"stackdown", "reaping"} => teardown
  /\ resumeAt \notin {"stackdown", "reaping"}
  /\ ~signalled => resumeAt = "done"
  /\ teardown /\ resumeAt = "bringup" => launch = "off"

\* A blank NODE_PID means that the group is gone.
GroupInv ==
  /\ ~nodePid => ~GroupAlive
  /\ runs = 0 /\ teardown /\ runner \in {"finalize", "stackdown", "reaping"} => ~nodePid

\* Until a signal comes, the runner has passed every check behind it.
VerdictInv ==
  /\ runner = "verify" /\ ~signalled => nodePid
  /\ runner = "finalize" /\ ~teardown /\ ~signalled =>
       SomeFinalizedBag /\ (fallback = "skipped" => earlier # "none")
  /\ VerdictHonest

IInv == TypeOK /\ FilesInv /\ TrapInv /\ GroupInv /\ VerdictInv
LEMMA TypeStep ==
  TypeOK /\ TrapInv /\ Next => TypeOK'
<1>. SUFFICES ASSUME TypeOK /\ TrapInv, Next  PROVE TypeOK'
  OBVIOUS
<1>. USE DEF TypeOK, TrapInv, RecorderStates, LaunchStates, HandlerSteps, FallbackSteps, RunnerSteps, StackStates, EarlierBags, Recording, RecorderExited, RecorderFinishedCleanly, IsFinalizedBagDir, SomeFinalizedBag, OwnBagPublished, SomeBagPublished, GroupAlive, VisitEarlierBag, AtomicWrite, WriteFails, Interrupted, Terminated, Killed, RunnerSays, Shutdown, Exit, Assessments, AfterStop, FallbackSays, SidecarMissing, Absent, Torn, WholeFile,
       bagVars, launchVars, groupVars, optionVars, trapVars, runVars
<1>1. CASE WritePayload
  BY <1>1 DEF WritePayload
<1>2. CASE WriteMetadata
  BY <1>2 DEF WriteMetadata
<1>3. CASE RecorderExits
  BY <1>3 DEF RecorderExits
<1>4. CASE LaunchRecorder
  BY <1>4 DEF LaunchRecorder
<1>5. CASE EscalateToRecorder
  BY <1>5 DEF EscalateToRecorder
<1>6. CASE OnRecorderExit
  BY <1>6 DEF OnRecorderExit
<1>7. CASE HandlerWrites
  BY <1>7 DEF HandlerWrites
<1>8. CASE HandlerClears
  <2>1. staging' \in BOOLEAN
    BY <1>8, Zenon DEF HandlerClears
  <2>. QED  BY <1>8, <2>1 DEF HandlerClears
<1>9. CASE LaunchExits
  BY <1>9 DEF LaunchExits
<1>10. CASE BringUpFails
  BY <1>10 DEF BringUpFails
<1>11. CASE NoPatrol
  <2>1. teardown' \in BOOLEAN
    BY <1>11, Zenon DEF NoPatrol
  <2>2. verdict' \in {"none", "passed", "failed", "noPatrol"}
    BY <1>11 DEF NoPatrol
  <2>. QED  BY <1>11, <2>1, <2>2 DEF NoPatrol
<1>12. CASE FlyPatrol
  BY <1>12 DEF FlyPatrol
<1>13. CASE VerifyPatrol
  <2>1. teardown' \in BOOLEAN
    BY <1>13, Zenon DEF VerifyPatrol
  <2>2. verdict' \in {"none", "passed", "failed", "noPatrol"}
    BY <1>13 DEF VerifyPatrol
  <2>. QED  BY <1>13, <2>1, <2>2 DEF VerifyPatrol
<1>14. CASE GroupExits
  <2>1. nodePid' \in BOOLEAN
    BY <1>14, Zenon DEF GroupExits
  <2>2. runner' \in {"check", "finalize"}
    BY <1>14 DEF GroupExits
  <2>. QED  BY <1>14, <2>1, <2>2 DEF GroupExits
<1>15. CASE InterruptTimesOut
  BY <1>15 DEF InterruptTimesOut
<1>16. CASE TerminateTimesOut
  <2>1. nodePid' \in BOOLEAN
    BY <1>16, Zenon DEF TerminateTimesOut
  <2>2. runner' \in {"check", "finalize"}
    BY <1>16 DEF TerminateTimesOut
  <2>. QED  BY <1>16, <2>1, <2>2 DEF TerminateTimesOut
<1>17. CASE CheckFinalized
  <2>1. teardown' \in BOOLEAN
    BY <1>17, Zenon DEF CheckFinalized
  <2>2. verdict' \in {"none", "passed", "failed", "noPatrol"}
    BY <1>17 DEF CheckFinalized
  <2>. QED  BY <1>17, <2>1, <2>2 DEF CheckFinalized
<1>18. CASE FallbackLooks
  BY <1>18 DEF FallbackLooks
<1>19. CASE FallbackLooksForSidecar
  BY <1>19 DEF FallbackLooksForSidecar
<1>20. CASE FallbackReads
  BY <1>20 DEF FallbackReads
<1>21. CASE FallbackWrites
  BY <1>21 DEF FallbackWrites
<1>22. CASE FallbackClears
  <2>1. staging' \in BOOLEAN
    BY <1>22, Zenon DEF FallbackClears
  <2>. QED  BY <1>22, <2>1 DEF FallbackClears
<1>23. CASE FinalizeEnds
  <2>1. teardown' \in BOOLEAN
    BY <1>23, Zenon DEF FinalizeEnds
  <2>2. verdict' \in {"none", "passed", "failed", "noPatrol"}
    BY <1>23 DEF FinalizeEnds
  <2>. QED  BY <1>23, <2>1, <2>2 DEF FinalizeEnds
<1>24. CASE StackDown
  BY <1>24 DEF StackDown
<1>25. CASE StackExits
  BY <1>25 DEF StackExits
<1>26. CASE WaitReturns
  <2>1. teardown' \in BOOLEAN
    BY <1>26, Zenon DEF WaitReturns
  <2>2. runner' \in RunnerSteps /\ (runner' = "bringup" => launch' = "off")
    BY <1>26 DEF WaitReturns
  <2>3. stack' \in StackStates
    BY <1>26 DEF WaitReturns
  <2>4. UNCHANGED <<groupVars, staging, sidecar, fallback, diskFaults, nodePid, verdict, trapVars,
                    optionVars, earlier, runs>>
    BY <1>26 DEF WaitReturns
  <2>. QED  BY <2>1, <2>2, <2>3, <2>4
<1>27. CASE OnSignal
  BY <1>27 DEF OnSignal
<1>28. CASE RunnerKilled
  BY <1>28 DEF RunnerKilled
<1>29. CASE LaterRun
  BY <1>29 DEF LaterRun
<1>. QED
  BY <1>1, <1>2, <1>3, <1>4, <1>5, <1>6, <1>7, <1>8, <1>9, <1>10, <1>11, <1>12, <1>13, <1>14, <1>15, <1>16, <1>17, <1>18, <1>19, <1>20, <1>21, <1>22, <1>23, <1>24, <1>25, <1>26, <1>27, <1>28, <1>29
     DEF Next, RecorderStep, LaunchStep, FallbackStep, RunnerStep

LEMMA FilesStep ==
  TypeOK /\ FilesInv /\ Next => FilesInv'
<1>. SUFFICES ASSUME TypeOK /\ FilesInv, Next  PROVE FilesInv'
  OBVIOUS
<1>. USE DEF TypeOK, FilesInv, SidecarTells, Recording, RecorderExited, RecorderFinishedCleanly, IsFinalizedBagDir, SomeFinalizedBag, OwnBagPublished, SomeBagPublished, GroupAlive, VisitEarlierBag, AtomicWrite, WriteFails, Interrupted, Terminated, Killed, RunnerSays, Shutdown, Exit, Assessments, AfterStop, FallbackSays, SidecarMissing, Absent, Torn, WholeFile,
       bagVars, launchVars, groupVars, optionVars, trapVars, runVars
<1>1. CASE WritePayload
  BY <1>1 DEF WritePayload
<1>2. CASE WriteMetadata
  BY <1>2 DEF WriteMetadata
<1>3. CASE RecorderExits
  BY <1>3 DEF RecorderExits
<1>4. CASE LaunchRecorder
  BY <1>4 DEF LaunchRecorder
<1>5. CASE EscalateToRecorder
  BY <1>5 DEF EscalateToRecorder
<1>6. CASE OnRecorderExit
  BY <1>6 DEF OnRecorderExit
<1>7. CASE HandlerWrites
  BY <1>7 DEF HandlerWrites
<1>8. CASE HandlerClears
  BY <1>8 DEF HandlerClears
<1>9. CASE LaunchExits
  BY <1>9 DEF LaunchExits
<1>10. CASE BringUpFails
  BY <1>10 DEF BringUpFails
<1>11. CASE NoPatrol
  BY <1>11 DEF NoPatrol
<1>12. CASE FlyPatrol
  BY <1>12 DEF FlyPatrol
<1>13. CASE VerifyPatrol
  BY <1>13 DEF VerifyPatrol
<1>14. CASE GroupExits
  BY <1>14 DEF GroupExits
<1>15. CASE InterruptTimesOut
  BY <1>15 DEF InterruptTimesOut
<1>16. CASE TerminateTimesOut
  BY <1>16 DEF TerminateTimesOut
<1>17. CASE CheckFinalized
  BY <1>17 DEF CheckFinalized
<1>18. CASE FallbackLooks
  <2>1. UNCHANGED <<groupVars, staging, sidecar>>
    BY <1>18 DEF FallbackLooks
  <2>2. fallback' \in {"skipped", "staged", "done"}
    BY <1>18 DEF FallbackLooks
  <2>3. fallback' = "staged" => IsFinalizedBagDir
    BY <1>18 DEF FallbackLooks
  <2>. QED  BY <2>1, <2>2, <2>3
<1>19. CASE FallbackLooksForSidecar
  BY <1>19 DEF FallbackLooksForSidecar
<1>20. CASE FallbackReads
  BY <1>20 DEF FallbackReads
<1>21. CASE FallbackWrites
  BY <1>21 DEF FallbackWrites
<1>22. CASE FallbackClears
  BY <1>22 DEF FallbackClears
<1>23. CASE FinalizeEnds
  BY <1>23 DEF FinalizeEnds
<1>24. CASE StackDown
  BY <1>24 DEF StackDown
<1>25. CASE StackExits
  BY <1>25 DEF StackExits
<1>26. CASE WaitReturns
  BY <1>26 DEF WaitReturns
<1>27. CASE OnSignal
  BY <1>27 DEF OnSignal
<1>28. CASE RunnerKilled
  BY <1>28 DEF RunnerKilled
<1>29. CASE LaterRun
  BY <1>29 DEF LaterRun
<1>. QED
  BY <1>1, <1>2, <1>3, <1>4, <1>5, <1>6, <1>7, <1>8, <1>9, <1>10, <1>11, <1>12, <1>13, <1>14, <1>15, <1>16, <1>17, <1>18, <1>19, <1>20, <1>21, <1>22, <1>23, <1>24, <1>25, <1>26, <1>27, <1>28, <1>29
     DEF Next, RecorderStep, LaunchStep, FallbackStep, RunnerStep

LEMMA TrapStep ==
  TypeOK /\ TrapInv /\ Next => TrapInv'
<1>. SUFFICES ASSUME TypeOK /\ TrapInv, Next  PROVE TrapInv'
  OBVIOUS
<1>. USE DEF TypeOK, TrapInv, RunnerSteps, Recording, RecorderExited, RecorderFinishedCleanly, IsFinalizedBagDir, SomeFinalizedBag, OwnBagPublished, SomeBagPublished, GroupAlive, VisitEarlierBag, AtomicWrite, WriteFails, Interrupted, Terminated, Killed, RunnerSays, Shutdown, Exit, Assessments, AfterStop, FallbackSays, SidecarMissing, Absent, Torn, WholeFile,
       bagVars, launchVars, groupVars, optionVars, trapVars, runVars
<1>1. CASE WritePayload
  BY <1>1 DEF WritePayload
<1>2. CASE WriteMetadata
  BY <1>2 DEF WriteMetadata
<1>3. CASE RecorderExits
  BY <1>3 DEF RecorderExits
<1>4. CASE LaunchRecorder
  BY <1>4 DEF LaunchRecorder
<1>5. CASE EscalateToRecorder
  BY <1>5 DEF EscalateToRecorder
<1>6. CASE OnRecorderExit
  BY <1>6 DEF OnRecorderExit
<1>7. CASE HandlerWrites
  BY <1>7 DEF HandlerWrites
<1>8. CASE HandlerClears
  BY <1>8 DEF HandlerClears
<1>9. CASE LaunchExits
  BY <1>9 DEF LaunchExits
<1>10. CASE BringUpFails
  BY <1>10 DEF BringUpFails
<1>11. CASE NoPatrol
  BY <1>11 DEF NoPatrol
<1>12. CASE FlyPatrol
  BY <1>12 DEF FlyPatrol
<1>13. CASE VerifyPatrol
  BY <1>13 DEF VerifyPatrol
<1>14. CASE GroupExits
  BY <1>14 DEF GroupExits
<1>15. CASE InterruptTimesOut
  BY <1>15 DEF InterruptTimesOut
<1>16. CASE TerminateTimesOut
  BY <1>16 DEF TerminateTimesOut
<1>17. CASE CheckFinalized
  BY <1>17 DEF CheckFinalized
<1>18. CASE FallbackLooks
  BY <1>18 DEF FallbackLooks
<1>19. CASE FallbackLooksForSidecar
  BY <1>19 DEF FallbackLooksForSidecar
<1>20. CASE FallbackReads
  BY <1>20 DEF FallbackReads
<1>21. CASE FallbackWrites
  BY <1>21 DEF FallbackWrites
<1>22. CASE FallbackClears
  BY <1>22 DEF FallbackClears
<1>23. CASE FinalizeEnds
  BY <1>23 DEF FinalizeEnds
<1>24. CASE StackDown
  BY <1>24 DEF StackDown
<1>25. CASE StackExits
  BY <1>25 DEF StackExits
<1>26. CASE WaitReturns
  BY <1>26 DEF WaitReturns
<1>27. CASE OnSignal
  BY <1>27 DEF OnSignal
<1>28. CASE RunnerKilled
  BY <1>28 DEF RunnerKilled
<1>29. CASE LaterRun
  BY <1>29 DEF LaterRun
<1>. QED
  BY <1>1, <1>2, <1>3, <1>4, <1>5, <1>6, <1>7, <1>8, <1>9, <1>10, <1>11, <1>12, <1>13, <1>14, <1>15, <1>16, <1>17, <1>18, <1>19, <1>20, <1>21, <1>22, <1>23, <1>24, <1>25, <1>26, <1>27, <1>28, <1>29
     DEF Next, RecorderStep, LaunchStep, FallbackStep, RunnerStep

LEMMA GroupStep ==
  TypeOK /\ TrapInv /\ GroupInv /\ Next => GroupInv'
<1>. SUFFICES ASSUME TypeOK /\ TrapInv /\ GroupInv, Next  PROVE GroupInv'
  OBVIOUS
<1>. USE DEF TypeOK, TrapInv, GroupInv, Recording, RecorderExited, RecorderFinishedCleanly, IsFinalizedBagDir, SomeFinalizedBag, OwnBagPublished, SomeBagPublished, GroupAlive, VisitEarlierBag, AtomicWrite, WriteFails, Interrupted, Terminated, Killed, RunnerSays, Shutdown, Exit, Assessments, AfterStop, FallbackSays, SidecarMissing, Absent, Torn, WholeFile,
       bagVars, launchVars, groupVars, optionVars, trapVars, runVars
<1>1. CASE WritePayload
  BY <1>1 DEF WritePayload
<1>2. CASE WriteMetadata
  BY <1>2 DEF WriteMetadata
<1>3. CASE RecorderExits
  BY <1>3 DEF RecorderExits
<1>4. CASE LaunchRecorder
  BY <1>4 DEF LaunchRecorder
<1>5. CASE EscalateToRecorder
  BY <1>5 DEF EscalateToRecorder
<1>6. CASE OnRecorderExit
  BY <1>6 DEF OnRecorderExit
<1>7. CASE HandlerWrites
  BY <1>7 DEF HandlerWrites
<1>8. CASE HandlerClears
  BY <1>8 DEF HandlerClears
<1>9. CASE LaunchExits
  BY <1>9 DEF LaunchExits
<1>10. CASE BringUpFails
  BY <1>10 DEF BringUpFails
<1>11. CASE NoPatrol
  BY <1>11 DEF NoPatrol
<1>12. CASE FlyPatrol
  BY <1>12 DEF FlyPatrol
<1>13. CASE VerifyPatrol
  BY <1>13 DEF VerifyPatrol
<1>14. CASE GroupExits
  BY <1>14 DEF GroupExits
<1>15. CASE InterruptTimesOut
  BY <1>15 DEF InterruptTimesOut
<1>16. CASE TerminateTimesOut
  BY <1>16 DEF TerminateTimesOut
<1>17. CASE CheckFinalized
  BY <1>17 DEF CheckFinalized
<1>18. CASE FallbackLooks
  BY <1>18 DEF FallbackLooks
<1>19. CASE FallbackLooksForSidecar
  BY <1>19 DEF FallbackLooksForSidecar
<1>20. CASE FallbackReads
  BY <1>20 DEF FallbackReads
<1>21. CASE FallbackWrites
  BY <1>21 DEF FallbackWrites
<1>22. CASE FallbackClears
  BY <1>22 DEF FallbackClears
<1>23. CASE FinalizeEnds
  BY <1>23 DEF FinalizeEnds
<1>24. CASE StackDown
  BY <1>24 DEF StackDown
<1>25. CASE StackExits
  BY <1>25 DEF StackExits
<1>26. CASE WaitReturns
  BY <1>26 DEF WaitReturns
<1>27. CASE OnSignal
  BY <1>27 DEF OnSignal
<1>28. CASE RunnerKilled
  BY <1>28 DEF RunnerKilled
<1>29. CASE LaterRun
  BY <1>29 DEF LaterRun
<1>. QED
  BY <1>1, <1>2, <1>3, <1>4, <1>5, <1>6, <1>7, <1>8, <1>9, <1>10, <1>11, <1>12, <1>13, <1>14, <1>15, <1>16, <1>17, <1>18, <1>19, <1>20, <1>21, <1>22, <1>23, <1>24, <1>25, <1>26, <1>27, <1>28, <1>29
     DEF Next, RecorderStep, LaunchStep, FallbackStep, RunnerStep

LEMMA VerdictStep ==
  IInv /\ Next => VerdictInv'
<1>. SUFFICES ASSUME IInv, Next  PROVE VerdictInv'
  OBVIOUS
<1>. USE DEF IInv, TypeOK, FilesInv, SidecarTells, TrapInv, GroupInv, VerdictInv, VerdictHonest, Recording, RecorderExited, RecorderFinishedCleanly, EarlierBags, IsFinalizedBagDir, SomeFinalizedBag, OwnBagPublished, SomeBagPublished, GroupAlive, VisitEarlierBag, AtomicWrite, WriteFails, Interrupted, Terminated, Killed, RunnerSays, Shutdown, Exit, Assessments, AfterStop, FallbackSays, SidecarMissing, Absent, Torn, WholeFile,
       bagVars, launchVars, groupVars, optionVars, trapVars, runVars
<1>1. CASE WritePayload
  BY <1>1 DEF WritePayload
<1>2. CASE WriteMetadata
  BY <1>2 DEF WriteMetadata
<1>3. CASE RecorderExits
  BY <1>3 DEF RecorderExits
<1>4. CASE LaunchRecorder
  BY <1>4 DEF LaunchRecorder
<1>5. CASE EscalateToRecorder
  BY <1>5 DEF EscalateToRecorder
<1>6. CASE OnRecorderExit
  BY <1>6 DEF OnRecorderExit
<1>7. CASE HandlerWrites
  BY <1>7 DEF HandlerWrites
<1>8. CASE HandlerClears
  BY <1>8 DEF HandlerClears
<1>9. CASE LaunchExits
  BY <1>9 DEF LaunchExits
<1>10. CASE BringUpFails
  BY <1>10 DEF BringUpFails
<1>11. CASE NoPatrol
  BY <1>11 DEF NoPatrol
<1>12. CASE FlyPatrol
  BY <1>12 DEF FlyPatrol
<1>13. CASE VerifyPatrol
  BY <1>13 DEF VerifyPatrol
<1>14. CASE GroupExits
  BY <1>14 DEF GroupExits
<1>15. CASE InterruptTimesOut
  BY <1>15 DEF InterruptTimesOut
<1>16. CASE TerminateTimesOut
  BY <1>16 DEF TerminateTimesOut
<1>17. CASE CheckFinalized
  BY <1>17 DEF CheckFinalized
<1>18. CASE FallbackLooks
  BY <1>18 DEF FallbackLooks
<1>19. CASE FallbackLooksForSidecar
  BY <1>19 DEF FallbackLooksForSidecar
<1>20. CASE FallbackReads
  BY <1>20 DEF FallbackReads
<1>21. CASE FallbackWrites
  <2>1. sidecar' # Absent \/ UNCHANGED sidecar
    BY <1>21 DEF FallbackWrites
  <2>2. UNCHANGED <<groupVars, runVars>> /\ fallback' # "skipped"
    BY <1>21 DEF FallbackWrites
  <2>. QED  BY <2>1, <2>2
<1>22. CASE FallbackClears
  BY <1>22 DEF FallbackClears
<1>23. CASE FinalizeEnds
  BY <1>23 DEF FinalizeEnds
<1>24. CASE StackDown
  BY <1>24 DEF StackDown
<1>25. CASE StackExits
  BY <1>25 DEF StackExits
<1>26. CASE WaitReturns
  BY <1>26 DEF WaitReturns
<1>27. CASE OnSignal
  BY <1>27 DEF OnSignal
<1>28. CASE RunnerKilled
  BY <1>28 DEF RunnerKilled
<1>29. CASE LaterRun
  BY <1>29 DEF LaterRun
<1>. QED
  BY <1>1, <1>2, <1>3, <1>4, <1>5, <1>6, <1>7, <1>8, <1>9, <1>10, <1>11, <1>12, <1>13, <1>14, <1>15, <1>16, <1>17, <1>18, <1>19, <1>20, <1>21, <1>22, <1>23, <1>24, <1>25, <1>26, <1>27, <1>28, <1>29
     DEF Next, RecorderStep, LaunchStep, FallbackStep, RunnerStep

LEMMA InitHolds == Init => IInv
<1>. SUFFICES ASSUME Init  PROVE IInv
  OBVIOUS
<1>. USE DEF Init, Absent
<1>1. TypeOK
  <2>1. /\ metadata \in BOOLEAN /\ payload \in BOOLEAN /\ staging \in BOOLEAN
        /\ teardown \in BOOLEAN /\ nodePid \in BOOLEAN /\ keepUp \in BOOLEAN
        /\ assertBag \in BOOLEAN /\ signalled \in BOOLEAN
    BY Zenon
  <2>2. runs \in 0 .. MaxRuns /\ diskFaults \in 0 .. MaxDiskFaults
    OBVIOUS
  <2>3. /\ recorder \in RecorderStates /\ launch \in LaunchStates /\ handler \in HandlerSteps
        /\ runner \in RunnerSteps /\ fallback \in FallbackSteps /\ resumeAt \in RunnerSteps
        /\ stack \in StackStates /\ earlier \in EarlierBags
        /\ verdict = "none" /\ recorder = "none" /\ launch = "off" /\ handler = "idle"
    BY DEF RecorderStates, LaunchStates, HandlerSteps, FallbackSteps, RunnerSteps, StackStates
  <2>4. sidecar \in {Absent, Torn, WholeFile}
    OBVIOUS
  <2>. QED  BY <2>1, <2>2, <2>3, <2>4, Zenon DEF TypeOK
<1>2. FilesInv
  BY DEF FilesInv, SidecarTells
<1>3. TrapInv
  BY DEF TrapInv
<1>4. GroupInv
  BY DEF GroupInv, GroupAlive, Recording
<1>5. VerdictInv
  BY DEF VerdictInv, VerdictHonest
<1>. QED  BY <1>1, <1>2, <1>3, <1>4, <1>5 DEF IInv

LEMMA StepHolds == IInv /\ [Next]_recVars => IInv'
<1>1. IInv /\ Next => IInv'
  BY TypeStep, FilesStep, TrapStep, GroupStep, VerdictStep DEF IInv
<1>2. IInv /\ UNCHANGED recVars => IInv'
  <2>. SUFFICES ASSUME IInv, UNCHANGED recVars  PROVE IInv'
    OBVIOUS
  <2>1. UNCHANGED <<recorder, metadata, payload, launch, handler, staging, sidecar, fallback,
                    diskFaults, runner, teardown, nodePid, verdict, keepUp, assertBag, signalled,
                    resumeAt, stack, earlier, runs>>
    BY DEF recVars, groupVars, bagVars, launchVars, runVars, optionVars, trapVars
  <2>. USE <2>1 DEF IInv
  <2>2. TypeOK'
    BY DEF TypeOK, Recording
  <2>3. FilesInv'
    BY DEF FilesInv, SidecarTells
  <2>4. TrapInv'
    BY DEF TrapInv
  <2>5. GroupInv'
    BY DEF GroupInv, GroupAlive, Recording
  <2>6. VerdictInv'
    BY DEF VerdictInv, VerdictHonest, IsFinalizedBagDir, SomeFinalizedBag, OwnBagPublished,
       SomeBagPublished
  <2>. QED  BY <2>2, <2>3, <2>4, <2>5, <2>6
<1>. QED  BY <1>1, <1>2

LEMMA Inductive == Spec => []IInv
BY InitHolds, StepHolds, PTL DEF Spec

-----------------------------------------------------------------------------
(* Every variable keeps its type, and the processes fit together: nothing    *)
(* records before the launch staged its inputs, and the exit handler never   *)
(* runs beside a living recorder.                                            *)
THEOREM TypeCorrect == Spec => []TypeOK
<1>1. IInv => TypeOK
  BY DEF IInv
<1>. QED  BY Inductive, <1>1, PTL

(* The sidecar tells the truth about the bag, whoever wrote it and whoever   *)
(* was killed on the way, for any number of runs and failed writes.          *)
THEOREM SidecarsTell == Spec => []SidecarTells
<1>1. IInv => SidecarTells
  BY DEF IInv, FilesInv
<1>. QED  BY Inductive, <1>1, PTL

(* No finalized bag is stranded: it has its sidecar or the inputs for one.   *)
THEOREM NothingStranded == Spec => []NeverStranded
<1>1. IInv => NeverStranded
  BY DEF IInv, FilesInv, NeverStranded, IsFinalizedBagDir
<1>. QED  BY Inductive, <1>1, PTL

(* A patrol that reports success has left an ingestable bag, its own unless  *)
(* an earlier run's lay in the output root, for any number of failed writes. *)
THEOREM VerdictsHonest == Spec => []VerdictHonest
<1>1. IInv => VerdictHonest
  BY DEF IInv, VerdictInv
<1>. QED  BY Inductive, <1>1, PTL

(* PX4 and Gazebo are taken down only after the launch group is gone.        *)
THEOREM SourcesOutlive == Spec => SourcesOutliveRecorder
<1>1. IInv /\ [Next]_recVars => [runs = 0 /\ stack = "up" /\ stack' # "up" => ~GroupAlive]_recVars
  <2>. SUFFICES ASSUME IInv, Next, runs = 0, stack = "up", stack' # "up"  PROVE ~GroupAlive
    OBVIOUS
  <2>1. CASE StackDown
    BY <2>1 DEF StackDown, IInv, TrapInv, GroupInv
  <2>2. CASE StackExits \/ WaitReturns
    BY <2>2 DEF StackExits, WaitReturns
  <2>3. CASE ~(StackDown \/ StackExits \/ WaitReturns)
    <3>1. stack' = stack \/ LaterRun
      BY <2>3 DEF Next, RecorderStep, LaunchStep, FallbackStep, RunnerStep, WritePayload,
         WriteMetadata, RecorderExits, LaunchRecorder, EscalateToRecorder, OnRecorderExit,
         HandlerWrites, HandlerClears, LaunchExits, BringUpFails, NoPatrol, FlyPatrol,
         VerifyPatrol, GroupExits, InterruptTimesOut, TerminateTimesOut, CheckFinalized,
         FallbackLooks, FallbackLooksForSidecar, FallbackReads, FallbackWrites,
         FallbackClears, FallbackSays, FinalizeEnds, Exit, Shutdown, OnSignal, RunnerKilled,
         runVars
    <3>. QED  BY <3>1 DEF LaterRun
  <2>. QED  BY <2>1, <2>2, <2>3
<1>. QED  BY Inductive, <1>1, PTL DEF Spec, SourcesOutliveRecorder

-----------------------------------------------------------------------------
LEMMA FilesKept == UNCHANGED <<metadata, payload, sidecar>> => BagFiles' = BagFiles
BY DEF BagFiles

LEMMA Contents ==
  /\ "metadata" \in BagFiles <=> metadata
  /\ "payload" \in BagFiles <=> payload
  /\ "sidecar" \in BagFiles <=> sidecar # Absent
  /\ BagFiles \subseteq {"metadata", "payload", "sidecar"}
BY DEF BagFiles

\* The steps that put a file into the bag.
LEMMA WritersOnly ==
  Next => \/ UNCHANGED <<metadata, payload, sidecar>>
          \/ WritePayload
          \/ WriteMetadata
          \/ /\ handler = "writing" \/ fallback = "writing"
             /\ UNCHANGED <<metadata, payload>> /\ sidecar' = WholeFile
<1>. USE DEF Exit, Shutdown, Interrupted, Terminated, Killed, FallbackSays, WriteFails,
     AtomicWrite, bagVars, launchVars, groupVars
<1>1. RecorderStep => WritePayload \/ WriteMetadata \/ UNCHANGED <<metadata, payload, sidecar>>
  BY DEF RecorderStep, RecorderExits
<1>2. LaunchStep => \/ UNCHANGED <<metadata, payload, sidecar>>
                   \/ /\ handler = "writing"
                      /\ UNCHANGED <<metadata, payload>> /\ sidecar' = WholeFile
  BY DEF LaunchStep, LaunchRecorder, EscalateToRecorder, OnRecorderExit, HandlerWrites,
     HandlerClears, LaunchExits
<1>3. FallbackStep => \/ UNCHANGED <<metadata, payload, sidecar>>
                     \/ /\ fallback = "writing"
                        /\ UNCHANGED <<metadata, payload>> /\ sidecar' = WholeFile
  BY DEF FallbackStep, FallbackLooks, FallbackLooksForSidecar, FallbackReads, FallbackWrites,
     FallbackClears
<1>4. RunnerStep => FallbackStep \/ UNCHANGED <<metadata, payload, sidecar>>
  BY DEF RunnerStep, BringUpFails, NoPatrol, FlyPatrol, VerifyPatrol, GroupExits,
     InterruptTimesOut, TerminateTimesOut, CheckFinalized, FinalizeEnds, StackDown,
     WaitReturns
<1>5. StackExits \/ OnSignal \/ RunnerKilled \/ LaterRun => UNCHANGED <<metadata, payload, sidecar>>
  BY DEF StackExits, OnSignal, RunnerKilled, LaterRun
<1>. QED  BY <1>1, <1>2, <1>3, <1>4, <1>5 DEF Next

(* The recorder implements BagDirectory, which the upload daemon relies on:  *)
(* files appear one by one, none disappears, and the sidecar comes last.     *)
THEOREM ImplementsLayout == Spec => RefinesLayout
<1>. USE DEF Layout!Parts, Layout!BagDirParts, Layout!MayAdd, Layout!IsValidBagDir,
     Layout!HasFinalizeMarker, Layout!HasMcapPayload
<1>1. Init => Layout!DirectoryInit
  BY DEF Init, BagFiles, Layout!DirectoryInit
<1>2. IInv /\ [Next]_recVars => [Layout!DirectoryNext]_BagFiles
  <2>. SUFFICES ASSUME IInv, [Next]_recVars, BagFiles' # BagFiles  PROVE Layout!DirectoryNext
    OBVIOUS
  <2>1. Next /\ ~UNCHANGED <<metadata, payload, sidecar>>
    <3>1. UNCHANGED recVars => UNCHANGED <<metadata, payload, sidecar>>
      BY DEF recVars, groupVars, bagVars
    <3>. QED  BY <3>1, FilesKept
  <2>. SUFFICES ASSUME NEW part \in {"metadata", "payload", "sidecar"}, part \notin BagFiles,
                       BagFiles' = BagFiles \cup {part},
                       part = "sidecar" => metadata /\ payload
                PROVE  Layout!DirectoryNext
    <3>1. CASE WritePayload
      <4>1. payload' /\ ~payload /\ UNCHANGED <<metadata, sidecar>>
        BY <2>1, <3>1 DEF WritePayload, IInv, TypeOK
      <4>2. "payload" \notin BagFiles /\ BagFiles' = BagFiles \cup {"payload"}
        BY <4>1 DEF BagFiles
      <4>. QED  BY <4>2
    <3>2. CASE WriteMetadata
      <4>1. metadata' /\ ~metadata /\ UNCHANGED <<payload, sidecar>>
        BY <2>1, <3>2 DEF WriteMetadata, IInv, TypeOK
      <4>2. "metadata" \notin BagFiles /\ BagFiles' = BagFiles \cup {"metadata"}
        BY <4>1 DEF BagFiles
      <4>. QED  BY <4>2
    <3>3. CASE /\ handler = "writing" \/ fallback = "writing"
               /\ UNCHANGED <<metadata, payload>> /\ sidecar' = WholeFile
      <4>1. metadata /\ payload
        BY <3>3 DEF IInv, FilesInv
      <4>2. sidecar = Absent /\ sidecar' # Absent
        BY <2>1, <3>3 DEF IInv, FilesInv, SidecarTells, Absent, WholeFile
      <4>3. "sidecar" \notin BagFiles /\ BagFiles' = BagFiles \cup {"sidecar"}
        BY <3>3, <4>2 DEF BagFiles
      <4>. QED  BY <4>1, <4>3
    <3>. QED  BY <2>1, <3>1, <3>2, <3>3, WritersOnly
  <2>. QED  BY Contents DEF Layout!DirectoryNext
<1>. QED  BY <1>1, <1>2, Inductive, PTL DEF Spec, RefinesLayout, Layout!DirectorySpec
=============================================================================
