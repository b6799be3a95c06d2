-------------------------- MODULE RecorderProperties --------------------------
(***************************************************************************)
(* What a recorded flight leaves behind, whoever survives to finish it.    *)
(***************************************************************************)
EXTENDS BagRecorder

(* Types of all variables, and the processes fit together: the recorder is  *)
(* the launch's child, and the exit handler runs after the recorder ended.  *)
TypeOK ==
  /\ recorder \in RecorderStates
  /\ metadata \in BOOLEAN /\ payload \in BOOLEAN
  /\ launch \in LaunchStates
  /\ handler \in HandlerSteps
  /\ staging \in BOOLEAN
  /\ sidecar \in {Absent, Torn, WholeFile}
  /\ runner \in RunnerSteps
  /\ fallback \in FallbackSteps
  /\ verdict \in {"none", "passed", "failed", "noPatrol"}
  /\ teardown \in BOOLEAN /\ nodePid \in BOOLEAN /\ keepUp \in BOOLEAN
  /\ assertBag \in BOOLEAN /\ signalled \in BOOLEAN /\ resumeAt \in RunnerSteps
  /\ stack \in StackStates /\ earlier \in EarlierBags
  /\ runs \in 0 .. MaxRuns /\ diskFaults \in 0 .. MaxDiskFaults
  /\ runner = "bringup" => launch = "off"
  /\ launch \in {"off", "starting"} => recorder = "none"
  /\ handler # "idle" => recorder # "none" /\ ~Recording

(* The sidecar is the uploader's signal: whoever wrote it, the handler or   *)
(* the fallback of this run or of a later one, it is whole and the bag      *)
(* beside it has its marker and its payload.                                *)
SidecarTells == sidecar # Absent => sidecar = WholeFile /\ metadata /\ payload

(* A finalized bag is published or can still be: the inputs of the sidecar  *)
(* are removed only after it was written, wherever a process was killed or  *)
(* a write failed.                                                          *)
NeverStranded == IsFinalizedBagDir => sidecar # Absent \/ staging

(* A patrol that reports success has left an ingestable bag: its own, unless *)
(* an earlier run's lay in the output root, which satisfies the runner's     *)
(* checks as well.  A signal makes shutdown() skip the graceful stop and its *)
(* checks although the script goes on after it, so an interrupted run needs  *)
(* the assertion on the bag.                                                 *)
VerdictHonest ==
  (verdict = "passed" /\ (signalled => assertBag)) =>
    /\ SomeBagPublished
    /\ earlier = "none" => OwnBagPublished

(* PX4 and Gazebo, the recorder's data sources, are taken down only after   *)
(* the whole launch group is gone: a group that outlived both signals is    *)
(* killed first.  A later run takes down its own stack, not this recorder's. *)
SourcesOutliveRecorder ==
  [][runs = 0 /\ stack = "up" /\ stack' # "up" => ~GroupAlive]_recVars

\* The bag as the upload daemon sees it.
BagFiles ==
  {part \in {"metadata", "payload", "sidecar"} :
     CASE part = "metadata" -> metadata
       [] part = "payload" -> payload
       [] OTHER -> sidecar # Absent}

Layout == INSTANCE BagDirectory WITH files <- BagFiles

(* The recorder produces bags the way the upload daemon expects them: files *)
(* appear one by one, never disappear, and the sidecar comes last.          *)
RefinesLayout == Layout!DirectorySpec

-----------------------------------------------------------------------------
(* Only the runner is assumed to go on, as a script does that nothing kills. *)
(* Recorder, launch and the parts of the stack may hang for good.            *)
FairSpec == Spec /\ WF_recVars(RunnerStep)

\* Every part of the stack exits on SIGTERM, sooner or later.
StackObeys == stack = "terminated" ~> stack = "gone"

(* Teardown ends if the stack obeys: every wait for the launch group has a   *)
(* limit, so the runner is done once it is in shutdown(), unless it is       *)
(* killed.  Only the last wait has none: a part that ignores SIGTERM holds   *)
(* it for good (analysis/e2e_check.md:38-40).                                *)
TeardownEnds == StackObeys => (teardown ~> runner \in {"done", "dead"})

(* A bag that is finalized while its own runner is there gets its sidecar,  *)
(* unless that runner is killed, leaves the stack up, or a write fails.     *)
FinalizedIsPublished ==
  (IsFinalizedBagDir /\ runs = 0 /\ runner \notin {"done", "dead"})
    ~> (sidecar # Absent \/ runner = "dead" \/ keepUp \/ diskFaults > 0)

(* "A failed ros2 bag record (non-zero exit, or no finalized bag) must not  *)
(* leave a success-looking sidecar" (record.launch.py, the exit handler).   *)
FailedNeverBlessed == recorder = "failed" => sidecar = Absent
=============================================================================
