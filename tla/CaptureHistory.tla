----------------------------- MODULE CaptureHistory -----------------------------
(***************************************************************************)
(* The perception node with two history variables, and its properties.     *)
(***************************************************************************)
EXTENDS CaptureCoordinator

VARIABLES
  arrived,  \* a detection array arrived since the last capture
  wasted    \* a trigger that should have been answered was not

historyVars == <<arrived, wasted>>
vars == <<captureVars, historyVars>>

-----------------------------------------------------------------------------
\* The visit the latest message is about is over for further triggers.
Captured(token) == published # <<>> /\ published[Len(published)].token = token

Answerable == TagInView /\ WorldSampled /\ Resolves(Head(detections))

HTrigger ==
  \E token \in Tokens :
    /\ Len(published) < MaxPublished
    /\ OnTrigger(token)
    /\ arrived' = (arrived /\ published' = published)
    /\ wasted' = (wasted \/ (Answerable /\ ~Captured(token) /\ up' /\ published' = published))

HDetections ==
  \E array \in DetectionArrays : OnDetections(array) /\ arrived' = TRUE /\ UNCHANGED wasted

HImage == OnImage /\ UNCHANGED historyVars
HPose == OnPose /\ UNCHANGED historyVars
HElapse == Elapse /\ UNCHANGED historyVars

Init == CaptureInit /\ arrived = FALSE /\ wasted = FALSE

Next == HTrigger \/ HDetections \/ HImage \/ HPose \/ HElapse

Spec == Init /\ [][Next]_vars

TypeOK ==
  /\ detections \in DetectionArrays \cup {<<>>}
  /\ detectionAge \in Ages(DetectionWindow + 1)
  /\ frameAge \in Ages(FrameWindow + 1)
  /\ poseAge \in Ages(PoseWindow + 1)
  /\ latched \in Latches
  /\ index \in Nat
  /\ \A files \in {images, sidecars} : \A stem \in DOMAIN files :
       stem \in Stems /\ files[stem] \in Contents
  /\ published \in Seq(Messages)
  /\ up \in BOOLEAN /\ arrived \in BOOLEAN /\ wasted \in BOOLEAN

-----------------------------------------------------------------------------
\* A detection message answers one trigger at most: after a capture, another one
\* needs a message that arrived since, however fresh the old one would still be.
EachDetectionOnce == [][published' # published => arrived]_vars

\* Latch only on success: no earlier skip, failed write or capture of another
\* visit makes a trigger go unanswered that finds everything it needs.
NoTriggerWasted == ~wasted

\* A complete sidecar always stands beside the complete image of its own capture,
\* and is the one its message names, after any sequence of failed writes.
SidecarsTell ==
  \A stem \in DOMAIN sidecars :
    sidecars[stem].whole =>
      /\ stem \in DOMAIN images /\ images[stem] = sidecars[stem]
      /\ sidecars[stem].capture \in DOMAIN published
      /\ LET message == published[sidecars[stem].capture]
         IN  message.path = stem /\ message.checkpoint = stem[2]

\* The capture whose message names a path can be read back from that path.
Readable(n) ==
  LET path == published[n].path
  IN  /\ path \in DOMAIN images /\ images[path] = Whole(n)
      /\ path \in DOMAIN sidecars /\ sidecars[path] = Whole(n)

Log == INSTANCE CaptureLog WITH
  Visits <- Tokens,
  Places <- Checkpoints,
  log <- [n \in DOMAIN published |->
            [visit |-> published[n].token, place |-> published[n].checkpoint,
             archived |-> published[n].path # NoPath]],
  archive <- {n \in DOMAIN published : Readable(n)}

\* The node implements the abstract log: never two captures of one visit in a
\* row, and what a message says was written stays on disk, unchanged, for good.
RefinesLog == Log!LogSpec

-----------------------------------------------------------------------------
\* What the writer's comment says of an image whose sidecar could not be written:
\* the next successful write reuses the index and overwrites it, so that no image
\* without a sidecar is left behind a later one.
OrphansOverwritten ==
  \A stem \in DOMAIN images : stem[1] < index => stem \in DOMAIN sidecars
=============================================================================
