------------------------------ MODULE BagRecorder ------------------------------
(***************************************************************************)
(* One recorded flight: the recorder (external), the launch that stages    *)
(* the sidecar's inputs and writes the sidecar when the recorder exits     *)
(* (record.launch.py, recorder.py), and the runner that stops both and     *)
(* writes the sidecar itself when the launch did not                       *)
(* (run_patrol_world_sitl.sh).                                             *)
(*                                                                         *)
(* The three are processes: their steps interleave, any of them may be     *)
(* killed between two steps, and a write may fail.  The sidecar's presence *)
(* tells the upload daemon that the bag is complete.                       *)
(*                                                                         *)
(* Runs may share an output root: the runner looks at every finalized bag  *)
(* it finds there, an earlier run's as well as its own.                    *)
(***************************************************************************)
EXTENDS Naturals

CONSTANTS
  MaxRuns,       \* bound: later runs over the same output root
  MaxDiskFaults  \* bound: sidecar writes that fail

ASSUME RecorderAssumption == MaxRuns \in Nat /\ MaxDiskFaults \in Nat

VARIABLES
  recorder,    \* the ros2 bag record process
  metadata,    \* <bag>/metadata.yaml exists
  payload,     \* an .mcap file exists in <bag>
  launch,      \* the ros2 launch process
  handler,     \* where its exit handler is
  staging,     \* <bag>.sidecar-inputs.json exists
  sidecar,     \* <bag>.meta.json: absent, torn or whole
  runner,      \* where the runner is
  teardown,    \* it is inside shutdown()
  nodePid,     \* NODE_PID is not blank
  fallback,    \* where finalize_sidecar_from_staging is
  verdict,     \* the exit status of the run; "noPatrol": 0 without a flight
  keepUp,      \* --keep-up
  assertBag,   \* PATROL_ASSERT_BAG is not 0
  signalled,   \* INT or TERM has reached the runner; later ones are ignored
  resumeAt,    \* where the script goes on after shutdown()
  stack,       \* the runner's children besides the launch: PX4, Gazebo, QGroundControl, ...
  earlier,     \* a finalized bag of an earlier run in the output root
  runs,        \* later runs so far
  diskFaults   \* failed writes so far

bagVars == <<metadata, payload>>
launchVars == <<launch, handler>>
groupVars == <<recorder, bagVars, launchVars>>
optionVars == <<keepUp, assertBag>>
trapVars == <<signalled, resumeAt>>
runVars == <<runner, teardown, nodePid, verdict, optionVars, trapVars, stack, earlier, runs>>
recVars == <<groupVars, staging, sidecar, fallback, diskFaults, runVars>>

RecorderStates == {"none", "recording", "flushing", "clean", "failed"}
LaunchStates == {"off", "starting", "up", "closing", "gone"}
HandlerSteps == {"idle", "writing", "clearing", "done"}
FallbackSteps == {"idle", "skipped", "staged", "reading", "writing", "clearing", "done"}
RunnerSteps == {"bringup", "verify", "stopping", "terminating", "check",
                "finalize", "stackdown", "reaping", "done", "dead"}
StackStates == {"up", "terminated", "gone"}
EarlierBags == {"none", "staged", "published"}  \* staged: the inputs, but no sidecar yet

Absent == "absent"
Torn == "torn"
WholeFile == "whole"

Recording == recorder \in {"recording", "flushing"}
\* Mutant: any recorder event counts as its exit.
RecorderStarted == recorder # "none"

RecorderExited == recorder \in {"clean", "failed"}

\* Mutant: the finalize marker alone.
MarkerOnly == metadata

\* A finalized bag has its marker and a payload.
IsFinalizedBagDir == metadata /\ payload

\* find_finalized_bags lists every such directory under the output root.
SomeFinalizedBag == IsFinalizedBagDir \/ earlier # "none"

\* A bag that upload_daemon.is_complete accepts.
OwnBagPublished == IsFinalizedBagDir /\ sidecar # Absent
SomeBagPublished == OwnBagPublished \/ earlier = "published"

\* The launch group: the launch and the recorder, its child.
GroupAlive == launch \in {"starting", "up", "closing"} \/ Recording

-----------------------------------------------------------------------------
(* The recorder.  It may fail at any time, even after it finalized the bag.  *)

WritePayload ==
  /\ Recording /\ payload' = TRUE
  /\ UNCHANGED <<recorder, metadata, launchVars, staging, sidecar, fallback, diskFaults, runVars>>

WriteMetadata ==
  /\ recorder = "flushing" /\ metadata' = TRUE
  /\ UNCHANGED <<recorder, payload, launchVars, staging, sidecar, fallback, diskFaults, runVars>>

RecorderExits ==
  /\ \/ recorder = "flushing" /\ metadata /\ recorder' = "clean"
     \/ Recording /\ recorder' = "failed"
  /\ UNCHANGED <<bagVars, launchVars, staging, sidecar, fallback, diskFaults, runVars>>

-----------------------------------------------------------------------------
(* The launch.                                                              *)

\* The inputs are staged before the recorder starts.
LaunchRecorder ==
  /\ launch = "starting"
  /\ staging' = TRUE
  /\ launch' = "up" /\ recorder' = "recording"
  /\ UNCHANGED <<bagVars, handler, sidecar, fallback, diskFaults, runVars>>

\* A launch that was asked to stop escalates to the recorder: SIGINT, SIGTERM, SIGKILL.
EscalateToRecorder ==
  /\ launch = "closing"
  /\ \/ recorder = "recording" /\ recorder' = "flushing"
     \/ Recording /\ recorder' = "failed"
  /\ UNCHANGED <<bagVars, launchVars, staging, sidecar, fallback, diskFaults, runVars>>

RecorderFinishedCleanly == recorder = "clean" /\ IsFinalizedBagDir

\* OnProcessExit reaches a launch that is still alive.
OnRecorderExit ==
  /\ launch \in {"up", "closing"} /\ handler = "idle" /\ RecorderExited
  /\ handler' = IF RecorderFinishedCleanly THEN "writing" ELSE "done"
  /\ UNCHANGED <<recorder, bagVars, launch, staging, sidecar, fallback, diskFaults, runVars>>

\* Mutant: the file is written in place; a kill leaves its beginning.
WriteInPlace == sidecar' = IF sidecar = Absent THEN Torn ELSE WholeFile

\* A temporary sibling is written and renamed over the path in one step.
AtomicWrite == sidecar' = WholeFile

\* An OSError on the way: the temporary file is removed, the path is as before.
WriteFails == diskFaults < MaxDiskFaults /\ diskFaults' = diskFaults + 1 /\ UNCHANGED sidecar

\* Mutant: the inputs are removed although the write failed.
HandlerWritesOrForgets ==
  /\ launch \in {"up", "closing"} /\ handler = "writing"
  /\ \/ AtomicWrite /\ handler' = "clearing" /\ UNCHANGED diskFaults
     \/ WriteFails /\ handler' = "clearing"
  /\ UNCHANGED <<recorder, bagVars, launch, staging, fallback, runVars>>

HandlerWrites ==
  /\ launch \in {"up", "closing"} /\ handler = "writing"
  /\ \/ AtomicWrite /\ handler' = "clearing" /\ UNCHANGED diskFaults
     \/ WriteFails /\ handler' = "done"
  /\ UNCHANGED <<recorder, bagVars, launch, staging, fallback, runVars>>

HandlerClears ==
  /\ launch \in {"up", "closing"} /\ handler = "clearing"
  /\ staging' = FALSE
  /\ handler' = "done"
  /\ UNCHANGED <<recorder, bagVars, launch, sidecar, fallback, diskFaults, runVars>>

LaunchExits ==
  /\ launch = "closing" /\ RecorderExited /\ handler = "done"
  /\ launch' = "gone"
  /\ UNCHANGED <<recorder, bagVars, handler, staging, sidecar, fallback, diskFaults, runVars>>

-----------------------------------------------------------------------------
(* Signals to the launch group.                                             *)

\* SIGINT: the launch begins its shutdown, the recorder may ignore it.
Interrupted ==
  /\ launch' = CASE launch = "starting" -> "gone"
                 [] launch = "up" -> "closing"
                 [] OTHER -> launch
  /\ recorder' \in IF recorder = "recording" THEN {"recording", "flushing"} ELSE {recorder}
  /\ UNCHANGED <<bagVars, handler>>

\* SIGTERM: the launch dies wherever its handler is, the recorder flushes.
Terminated ==
  /\ launch' \in IF GroupAlive /\ launch # "off" THEN {launch, "gone"} ELSE {launch}
  /\ recorder' = IF recorder = "recording" THEN "flushing" ELSE recorder
  /\ UNCHANGED <<bagVars, handler>>

Killed ==
  /\ launch' = "gone"
  /\ recorder' = IF Recording THEN "failed" ELSE recorder
  /\ UNCHANGED <<bagVars, handler>>

-----------------------------------------------------------------------------
(* The runner.                                                              *)

RunnerSays(step) ==
  /\ runner' = step
  /\ UNCHANGED <<optionVars, earlier, runs>>

\* Mutant: shutdown() leaves the sidecar to the graceful path.
ShutdownWithoutFallback(after) ==
  /\ teardown' = TRUE /\ resumeAt' = after /\ fallback' = "done"
  /\ IF nodePid THEN Interrupted /\ RunnerSays("stopping")
     ELSE /\ RunnerSays(IF launch = "off" THEN "stackdown" ELSE "finalize")
          /\ UNCHANGED groupVars
  /\ UNCHANGED <<nodePid, stack>>

\* shutdown(): stop the group if NODE_PID is set, then the fallback if RUN_ROOT is.
\* It is the trap of EXIT, INT and TERM: after a signal the script goes on.
Shutdown(after) ==
  /\ teardown' = TRUE /\ resumeAt' = after /\ fallback' = "idle"
  /\ IF nodePid THEN Interrupted /\ RunnerSays("stopping")
     ELSE /\ RunnerSays(IF launch = "off" THEN "stackdown" ELSE "finalize")
          /\ UNCHANGED groupVars
  /\ UNCHANGED <<nodePid, stack>>

\* The end of main: with --keep-up the trap is removed and everything is left running.
Exit(status) ==
  /\ verdict' = status
  /\ UNCHANGED signalled
  /\ \/ /\ keepUp /\ RunnerSays("done")
        /\ UNCHANGED <<groupVars, fallback, teardown, nodePid, resumeAt, stack>>
     \/ ~keepUp /\ Shutdown("done")

\* A part of the stack does not come up: exit 1, whatever --keep-up says.
BringUpFails ==
  /\ runner = "bringup"
  /\ Shutdown("done") /\ verdict' = "failed"
  /\ UNCHANGED <<staging, sidecar, diskFaults, signalled>>

\* The camera check fails, or no patrol was asked for.
NoPatrol ==
  /\ runner = "bringup"
  /\ \E status \in {"failed", "noPatrol"} : Exit(status)
  /\ UNCHANGED <<staging, sidecar, diskFaults>>

FlyPatrol ==
  /\ runner = "bringup"
  /\ launch' = "starting" /\ nodePid' = TRUE
  /\ RunnerSays("verify")
  /\ UNCHANGED <<recorder, bagVars, handler, staging, sidecar, fallback, diskFaults,
                 teardown, verdict, trapVars, stack>>

\* assert_bag_has_compressed_imagery, unless it is switched off, takes any one of
\* the finalized bags; it may fail for the bag's contents, too.
Assessments == {"failed"} \cup IF assertBag => SomeBagPublished THEN {"passed"} ELSE {}

\* graceful_stop_mission returns at once when shutdown() has blanked NODE_PID.
VerifyPatrol ==
  /\ runner = "verify"
  /\ \/ Exit("failed")
     \/ /\ nodePid /\ Interrupted /\ RunnerSays("stopping")
        /\ UNCHANGED <<fallback, teardown, nodePid, verdict, trapVars, stack>>
     \/ ~nodePid /\ \E status \in Assessments : Exit(status)
  /\ UNCHANGED <<staging, sidecar, diskFaults>>

AfterStop == IF teardown THEN "finalize" ELSE "check"

\* wait_for_pgroup_exit returns: NODE_PID is blanked, the group is not signalled again.
GroupExits ==
  /\ runner \in {"stopping", "terminating"} /\ ~GroupAlive
  /\ nodePid' = FALSE
  /\ RunnerSays(AfterStop)
  /\ UNCHANGED <<groupVars, staging, sidecar, fallback, diskFaults, teardown, verdict, trapVars,
                 stack>>

\* Mutant: SIGINT is waited for without a bound.
InterruptWaitsForever ==
  /\ runner = "stopping" /\ GroupAlive
  /\ UNCHANGED recVars

InterruptTimesOut ==
  /\ runner = "stopping" /\ GroupAlive
  /\ Terminated
  /\ RunnerSays("terminating")
  /\ UNCHANGED <<staging, sidecar, fallback, diskFaults, teardown, nodePid, verdict, trapVars,
                 stack>>

\* Mutant: NODE_PID is blanked although the group is still alive.
TerminateTimesOutBlank ==
  /\ runner = "terminating" /\ GroupAlive
  /\ IF teardown THEN Killed ELSE UNCHANGED groupVars
  /\ nodePid' = FALSE
  /\ RunnerSays(AfterStop)
  /\ UNCHANGED <<staging, sidecar, fallback, diskFaults, teardown, verdict, trapVars,
                 stack>>

\* graceful_stop_mission leaves the group for shutdown(), which kills it.
TerminateTimesOut ==
  /\ runner = "terminating" /\ GroupAlive
  /\ IF teardown THEN Killed /\ nodePid' = FALSE ELSE UNCHANGED <<groupVars, nodePid>>
  /\ RunnerSays(AfterStop)
  /\ UNCHANGED <<staging, sidecar, fallback, diskFaults, teardown, verdict, trapVars,
                 stack>>

\* Any finalized bag under the root will do.
CheckFinalized ==
  /\ runner = "check"
  /\ \/ ~SomeFinalizedBag /\ Exit("failed")
     \/ /\ SomeFinalizedBag /\ RunnerSays("finalize") /\ fallback' = "idle"
        /\ UNCHANGED <<groupVars, teardown, nodePid, verdict, trapVars, stack>>
  /\ UNCHANGED <<staging, sidecar, diskFaults>>

-----------------------------------------------------------------------------
(* The finalize loop: finalize_sidecar_from_staging, in a process of the     *)
(* runner's, for each finalized bag it found.                                *)

\* The earlier bag has no other writer, so its visit is one step.
VisitEarlierBag ==
  earlier' \in IF earlier = "staged" THEN {"staged", "published"} ELSE {earlier}

FallbackSays(step) ==
  /\ fallback' = step
  /\ UNCHANGED <<groupVars, runVars>>

FallbackLooks ==
  /\ runner = "finalize" /\ fallback = "idle"
  /\ \/ ~IsFinalizedBagDir /\ fallback' = "skipped"
     \/ IsFinalizedBagDir /\ fallback' = IF staging THEN "staged" ELSE "done"
  /\ VisitEarlierBag
  /\ UNCHANGED <<groupVars, staging, sidecar, diskFaults, runner, teardown, nodePid, verdict,
                 optionVars, trapVars, stack, runs>>

FallbackLooksForSidecar ==
  /\ runner = "finalize" /\ fallback = "staged"
  /\ FallbackSays(IF sidecar # Absent THEN "clearing" ELSE "reading")
  /\ UNCHANGED <<staging, sidecar, diskFaults>>

\* The handler may have removed the inputs since: FileNotFoundError.
FallbackReads ==
  /\ runner = "finalize" /\ fallback = "reading"
  /\ FallbackSays(IF staging THEN "writing" ELSE "done")
  /\ UNCHANGED <<staging, sidecar, diskFaults>>

FallbackWrites ==
  /\ runner = "finalize" /\ fallback = "writing"
  /\ \/ AtomicWrite /\ FallbackSays("clearing") /\ UNCHANGED diskFaults
     \/ WriteFails /\ FallbackSays("done")
  /\ UNCHANGED staging

FallbackClears ==
  /\ runner = "finalize" /\ fallback = "clearing"
  /\ staging' = FALSE
  /\ FallbackSays("done")
  /\ UNCHANGED <<sidecar, diskFaults>>

\* Mutant: the verdict trusts that the fallback ran.
SidecarMissingNever == FALSE

\* The outcome gate looks at the artifacts, not at the fallback's exit status; a
\* bag that was finalized after the loop listed the bags is not among them.
SidecarMissing == (fallback = "done" /\ sidecar = Absent) \/ earlier = "staged"

FinalizeEnds ==
  /\ runner = "finalize" /\ fallback \in {"skipped", "done"}
  /\ \/ /\ teardown /\ RunnerSays("stackdown")
        /\ UNCHANGED <<groupVars, fallback, teardown, nodePid, verdict, trapVars, stack>>
     \/ ~teardown /\ SidecarMissing /\ Exit("failed")
     \/ ~teardown /\ ~SidecarMissing /\ \E status \in Assessments : Exit(status)
  /\ UNCHANGED <<staging, sidecar, diskFaults>>

\* SIGTERM to every part that was started; then a bare wait for all of them.
StackDown ==
  /\ runner = "stackdown"
  /\ RunnerSays("reaping")
  /\ stack' = IF stack = "up" THEN "terminated" ELSE stack
  /\ UNCHANGED <<groupVars, staging, sidecar, fallback, diskFaults, teardown, nodePid, verdict,
                 trapVars>>

\* The parts exit when they do: one may ignore SIGTERM, and nothing kills it.
StackExits ==
  /\ stack = "terminated" /\ stack' = "gone"
  /\ UNCHANGED <<groupVars, staging, sidecar, fallback, diskFaults, runner, teardown, nodePid,
                 verdict, optionVars, trapVars, earlier, runs>>

\* The wait has no limit, and INT and TERM are ignored.  A script that goes on
\* with the bring-up after it starts further parts.
WaitReturns ==
  /\ runner = "reaping" /\ stack = "gone"
  /\ RunnerSays(resumeAt) /\ teardown' = FALSE
  /\ stack' \in IF resumeAt = "bringup" THEN {"up", "gone"} ELSE {"gone"}
  /\ UNCHANGED <<groupVars, staging, sidecar, fallback, diskFaults, nodePid, verdict, trapVars>>

\* INT or TERM reaches the runner; shutdown() ignores any further one for good.
OnSignal ==
  /\ runner \in RunnerSteps \ {"done", "dead"} /\ ~teardown /\ ~signalled
  /\ signalled' = TRUE
  /\ Shutdown(runner)
  /\ UNCHANGED <<staging, sidecar, diskFaults, verdict>>

RunnerKilled ==
  /\ runner \in RunnerSteps \ {"done", "dead"}
  /\ RunnerSays("dead")
  /\ UNCHANGED <<groupVars, staging, sidecar, fallback, diskFaults, teardown, nodePid, verdict,
                 trapVars, stack>>

\* A later run with the same output root, and a stack of its own: its finalize loop
\* visits this bag, too.
LaterRun ==
  /\ runner \in {"done", "dead"} /\ runs < MaxRuns
  /\ runs' = runs + 1
  /\ runner' = "finalize" /\ teardown' = TRUE /\ resumeAt' = "done" /\ fallback' = "idle"
  /\ stack' = "up"
  /\ UNCHANGED <<groupVars, staging, sidecar, diskFaults, nodePid, verdict, optionVars, signalled,
                 earlier>>

-----------------------------------------------------------------------------
Init ==
  /\ recorder = "none" /\ metadata = FALSE /\ payload = FALSE
  /\ launch = "off" /\ handler = "idle"
  /\ staging = FALSE /\ sidecar = Absent
  /\ runner = "bringup" /\ teardown = FALSE /\ nodePid = FALSE
  /\ fallback = "idle" /\ verdict = "none"
  /\ keepUp \in BOOLEAN /\ assertBag \in BOOLEAN
  /\ signalled = FALSE /\ resumeAt = "done"
  /\ stack = "up" /\ earlier \in EarlierBags
  /\ runs = 0 /\ diskFaults = 0

RecorderStep == WritePayload \/ WriteMetadata \/ RecorderExits

LaunchStep == LaunchRecorder \/ EscalateToRecorder \/ OnRecorderExit
              \/ HandlerWrites \/ HandlerClears \/ LaunchExits

FallbackStep == FallbackLooks \/ FallbackLooksForSidecar \/ FallbackReads
                \/ FallbackWrites \/ FallbackClears

RunnerStep == BringUpFails \/ NoPatrol \/ FlyPatrol \/ VerifyPatrol
              \/ GroupExits \/ InterruptTimesOut \/ TerminateTimesOut
              \/ CheckFinalized \/ FallbackStep \/ FinalizeEnds \/ StackDown \/ WaitReturns

Next == RecorderStep \/ LaunchStep \/ RunnerStep \/ StackExits
        \/ OnSignal \/ RunnerKilled \/ LaterRun

Spec == Init /\ [][Next]_recVars
=============================================================================
