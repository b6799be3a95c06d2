--------------------------- MODULE CaptureCoordinator ---------------------------
(***************************************************************************)
(* patrol_perception: the node that answers /patrol/dwell with a capture   *)
(* of the checkpoint in view (perception_node.py, coordinator.py,          *)
(* samplers.py, checkpoint_resolver.py, capture_writer.py).                *)
(*                                                                         *)
(* The node spins on a single-threaded executor, so each callback is one   *)
(* action; sensors and triggers interleave freely with time.  Pixels and   *)
(* poses are not represented: a frame or a pose is its age, a capture is   *)
(* its number in the sequence of published messages.                       *)
(***************************************************************************)
EXTENDS Integers, Sequences

CONSTANTS
  Tokens,            \* visit tokens: the waypoint indices /patrol/dwell carries
  Tags,              \* the tags a detector may report
  DetectionArrays,   \* the AprilTagDetectionArray messages it may publish
  Checkpoints,       \* checkpoint ids
  MappedTags,        \* the tags checkpoints.yaml has, with the right family
  CheckpointOf,      \* its tag_id -> checkpoint_id map
  DetectionWindow,   \* max_detection_age_s
  FrameWindow,       \* max_frame_age_s
  PoseWindow,        \* max_pose_age_s
  MaxPublished       \* bound: captures published in a run

ASSUME CaptureAssumption ==
  /\ DetectionArrays \subseteq Seq(Tags)
  /\ MappedTags \subseteq Tags
  /\ CheckpointOf \in [MappedTags -> Checkpoints]
  /\ DetectionWindow \in Nat
  /\ FrameWindow \in Nat
  /\ PoseWindow \in Nat
  /\ MaxPublished \in Nat

VARIABLES
  detections,    \* _detection_buffer: the latest array
  detectionAge,  \* its age, None while the buffer holds no value
  frameAge,      \* age of the buffered frame
  poseAge,       \* age of the buffered pose
  latched,       \* _latched_token: none or one token
  index,         \* CaptureWriter._index
  images,        \* the PNG files, by stem
  sidecars,      \* the JSON files, by stem
  published,     \* the CheckpointCapture messages
  up             \* the process runs

sensorVars == <<detections, detectionAge, frameAge, poseAge>>
diskVars == <<index, images, sidecars>>
captureVars == <<sensorVars, latched, diskVars, published, up>>

None == -1

Ages(limit) == None .. limit

\* An age stops growing where it is stale for good.
Older(age, window) == IF age = None \/ age > window THEN age ELSE age + 1

-----------------------------------------------------------------------------
(* Sensor callbacks: keep the latest, with its receipt time.                *)

OnDetections(array) ==
  /\ up
  /\ detections' = array /\ detectionAge' = 0
  /\ UNCHANGED <<frameAge, poseAge, latched, diskVars, published, up>>

OnImage ==
  /\ up
  /\ frameAge' = 0
  /\ UNCHANGED <<detections, detectionAge, poseAge, latched, diskVars, published, up>>

OnPose ==
  /\ up
  /\ poseAge' = 0
  /\ UNCHANGED <<detections, detectionAge, frameAge, latched, diskVars, published, up>>

Elapse ==
  /\ detectionAge' = Older(detectionAge, DetectionWindow)
  /\ frameAge' = Older(frameAge, FrameWindow)
  /\ poseAge' = Older(poseAge, PoseWindow)
  /\ UNCHANGED <<detections, latched, diskVars, published, up>>

-----------------------------------------------------------------------------
(* The gates of on_trigger.                                                 *)

IsFresh(age, window) == age # None /\ age <= window

\* Only the first detection of the array is looked at.
TagInView == detections # <<>> /\ IsFresh(detectionAge, DetectionWindow)

WorldSampled == IsFresh(frameAge, FrameWindow) /\ IsFresh(poseAge, PoseWindow)

Resolves(tag) == tag \in MappedTags

\* The gates in the order of the code; the frame is encoded between the second
\* and the third.
Skip ==
  /\ \/ ~TagInView
     \/ TagInView /\ ~WorldSampled
     \/ TagInView /\ WorldSampled /\ ~Resolves(Head(detections))
  /\ UNCHANGED captureVars

\* cv2.imencode fails: the RuntimeError leaves the callback and ends the process.
EncodeFails ==
  /\ TagInView /\ WorldSampled
  /\ up' = FALSE
  /\ UNCHANGED <<sensorVars, latched, diskVars, published>>

-----------------------------------------------------------------------------
(* The writer.                                                              *)

\* NNN_<checkpoint_id>
Stem(checkpoint) == <<index, checkpoint>>

Whole(capture) == [capture |-> capture, whole |-> TRUE]

Partial(capture) == [capture |-> capture, whole |-> FALSE]

NoPath == <<>>

\* A file is created or replaced.
Put(files, stem, content) ==
  [s \in DOMAIN files \cup {stem} |-> IF s = stem THEN content ELSE files[s]]

\* mkdir or opening the PNG fails, or the disk fills while it is written.
WriteImageFails(stem, capture) ==
  /\ \/ UNCHANGED images
     \/ images' = Put(images, stem, Partial(capture))
  /\ UNCHANGED <<index, sidecars>>

\* The image is there; the sidecar is not, or only its beginning.
WriteSidecarFails(stem, capture) ==
  /\ images' = Put(images, stem, Whole(capture))
  /\ \/ UNCHANGED sidecars
     \/ sidecars' = Put(sidecars, stem, Partial(capture))
  /\ UNCHANGED index

\* Mutant: the index is not advanced.
WriteOverwriting(stem, capture) ==
  /\ images' = Put(images, stem, Whole(capture))
  /\ sidecars' = Put(sidecars, stem, Whole(capture))
  /\ UNCHANGED index

Write(stem, capture) ==
  /\ images' = Put(images, stem, Whole(capture))
  /\ sidecars' = Put(sidecars, stem, Whole(capture))
  /\ index' = index + 1

Message(token, checkpoint, path) ==
  [token |-> token, checkpoint |-> checkpoint, path |-> path]

\* _emit: a failed write is published all the same, without a path.
Emit(token, checkpoint) ==
  LET stem == Stem(checkpoint)
      capture == Len(published) + 1
  IN  \/ /\ Write(stem, capture)
         /\ published' = Append(published, Message(token, checkpoint, stem))
      \/ /\ WriteImageFails(stem, capture) \/ WriteSidecarFails(stem, capture)
         /\ published' = Append(published, Message(token, checkpoint, NoPath))

\* Mutant: the buffered detection is not expired.
ExpireNothing == UNCHANGED <<detections, detectionAge>>

\* The buffer forgets its value.
ExpireDetections == detections' = <<>> /\ detectionAge' = None

\* Mutant: the visits before stay latched against, too.
LatchAlso(token) == latched' = latched \cup {token}

\* Only the latest captured visit is latched against.
Latch(token) == latched' = {token}

Capture(token) ==
  /\ TagInView /\ WorldSampled /\ Resolves(Head(detections))
  /\ Emit(token, CheckpointOf[Head(detections)])
  /\ Latch(token)
  /\ ExpireDetections
  /\ UNCHANGED <<frameAge, poseAge, up>>

\* Mutant: a skip is latched too.
OnTriggerLatchAlways(token) ==
  /\ up
  /\ \/ token \in latched /\ UNCHANGED captureVars
     \/ /\ token \notin latched
        /\ \/ EncodeFails
           \/ Capture(token)
           \/ /\ ~(TagInView /\ WorldSampled /\ Resolves(Head(detections)))
              /\ latched' = {token}
              /\ UNCHANGED <<sensorVars, diskVars, published, up>>

\* Mutant: the visit is not latched against.
OnTriggerUnlatched(token) ==
  /\ up
  /\ Skip \/ EncodeFails \/ Capture(token)

OnTrigger(token) ==
  /\ up
  /\ \/ token \in latched /\ UNCHANGED captureVars
     \/ /\ token \notin latched
        /\ Skip \/ EncodeFails \/ Capture(token)

-----------------------------------------------------------------------------
CaptureInit ==
  /\ detections = <<>>
  /\ detectionAge = None /\ frameAge = None /\ poseAge = None
  /\ latched = {}
  /\ index = 0 /\ images = <<>> /\ sidecars = <<>>
  /\ published = <<>>
  /\ up = TRUE

Latches == {{}} \cup {{token} : token \in Tokens}

Stems == Nat \X Checkpoints

Contents == [capture : Nat, whole : BOOLEAN]

Messages == [token : Tokens, checkpoint : Checkpoints, path : Stems \cup {NoPath}]
=============================================================================
