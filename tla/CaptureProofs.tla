------------------------------ MODULE CaptureProofs ------------------------------
(***************************************************************************)
(* Theorems about the perception node for every map of tags, every set of  *)
(* detection arrays, every freshness window and any number of captures.    *)
(***************************************************************************)
EXTENDS CaptureHistory, TLAPS

USE CaptureAssumption

\* The writer never touches a stem below its index again, and a complete sidecar
\* or a path in a message is always below it.
DiskInv ==
  /\ \A stem \in DOMAIN sidecars :
       sidecars[stem].whole =>
         /\ stem[1] < index
         /\ stem \in DOMAIN images /\ images[stem] = sidecars[stem]
         /\ sidecars[stem].capture \in DOMAIN published
         /\ published[sidecars[stem].capture].path = stem
         /\ published[sidecars[stem].capture].checkpoint = stem[2]
  /\ \A n \in DOMAIN published :
       published[n].path # NoPath => published[n].path[1] < index /\ Readable(n)

\* The latch holds the visit of the latest message, and a buffered detection
\* arrived after it.
LatchInv ==
  /\ latched = {token \in Tokens : Captured(token)}
  /\ detectionAge # None => arrived
  /\ ~wasted

-----------------------------------------------------------------------------
LEMMA AppendFacts ==
  ASSUME NEW message \in Messages, published \in Seq(Messages),
         published' = Append(published, message)
  PROVE  /\ published' \in Seq(Messages)
         /\ DOMAIN published' = DOMAIN published \cup {Len(published) + 1}
         /\ Len(published) + 1 \notin DOMAIN published
         /\ Len(published') = Len(published) + 1
         /\ published' # <<>>
         /\ published'[Len(published) + 1] = message
         /\ \A n \in DOMAIN published : published'[n] = published[n]
OBVIOUS

\* A step that is not a capture leaves the disk, the messages and the latch alone.
LEMMA StepKinds ==
  [Next]_vars =>
    \/ UNCHANGED <<diskVars, published, latched>>
    \/ \E token \in Tokens : token \notin latched /\ Capture(token) /\ HTrigger
<1>1. HTrigger => \/ UNCHANGED <<diskVars, published, latched>>
                 \/ \E token \in Tokens : token \notin latched /\ Capture(token) /\ HTrigger
  BY DEF HTrigger, OnTrigger, Skip, EncodeFails, captureVars
<1>. QED  BY <1>1 DEF Next, HDetections, HImage, HPose, HElapse, OnDetections, OnImage, OnPose,
     Elapse, vars, captureVars

\* What a capture does to the disk.
WrittenOK(stem, capture) ==
  /\ index' = index + 1
  /\ stem \in DOMAIN images' /\ images'[stem] = Whole(capture)
  /\ stem \in DOMAIN sidecars' /\ sidecars'[stem] = Whole(capture)

WriteFailed(stem, capture) ==
  /\ index' = index
  /\ stem \in DOMAIN images' =>
       \/ stem \in DOMAIN images /\ images'[stem] = images[stem]
       \/ images'[stem] \in {Partial(capture), Whole(capture)}
  /\ stem \in DOMAIN sidecars' =>
       \/ stem \in DOMAIN sidecars /\ sidecars'[stem] = sidecars[stem]
       \/ sidecars'[stem] = Partial(capture)

OthersKept(files, next, stem) ==
  /\ DOMAIN files \subseteq DOMAIN next /\ DOMAIN next \subseteq DOMAIN files \cup {stem}
  /\ \A s \in DOMAIN files : s # stem => next[s] = files[s]

LEMMA WriterEffect ==
  ASSUME NEW stem, NEW capture
  PROVE  /\ Write(stem, capture) => WrittenOK(stem, capture)
         /\ WriteImageFails(stem, capture) => WriteFailed(stem, capture)
         /\ WriteSidecarFails(stem, capture) => WriteFailed(stem, capture)
         /\ Write(stem, capture) \/ WriteImageFails(stem, capture) \/ WriteSidecarFails(stem, capture)
              => OthersKept(images, images', stem) /\ OthersKept(sidecars, sidecars', stem)
<1>1. Write(stem, capture) => WrittenOK(stem, capture)
  BY DEF Write, WrittenOK, Put
<1>2. WriteImageFails(stem, capture) => WriteFailed(stem, capture)
  BY DEF WriteImageFails, WriteFailed, Put
<1>3. WriteSidecarFails(stem, capture) => WriteFailed(stem, capture)
  BY DEF WriteSidecarFails, WriteFailed, Put
<1>4. Write(stem, capture) \/ WriteImageFails(stem, capture) \/ WriteSidecarFails(stem, capture)
        => OthersKept(images, images', stem) /\ OthersKept(sidecars, sidecars', stem)
  BY DEF Write, WriteImageFails, WriteSidecarFails, OthersKept, Put
<1>. QED  BY <1>1, <1>2, <1>3, <1>4

LEMMA EmitEffect ==
  ASSUME NEW token, NEW checkpoint, Emit(token, checkpoint),
         NEW stem, stem = Stem(checkpoint), NEW capture, capture = Len(published) + 1
  PROVE  /\ OthersKept(images, images', stem)
         /\ OthersKept(sidecars, sidecars', stem)
         /\ \/ /\ WrittenOK(stem, capture)
               /\ published' = Append(published, Message(token, checkpoint, stem))
            \/ /\ WriteFailed(stem, capture)
               /\ published' = Append(published, Message(token, checkpoint, NoPath))
BY WriterEffect DEF Emit

-----------------------------------------------------------------------------
(* Types.                                                                   *)

LEMMA CaptureTypes ==
  ASSUME TypeOK, NEW token \in Tokens, Capture(token)
  PROVE  LET checkpoint == CheckpointOf[Head(detections)]
         IN  /\ Emit(token, checkpoint)
             /\ checkpoint \in Checkpoints
             /\ Stem(checkpoint) \in Stems
             /\ \A path \in {Stem(checkpoint), NoPath} :
                  Message(token, checkpoint, path) \in Messages
<1>1. Emit(token, CheckpointOf[Head(detections)])
  BY DEF Capture
<1>2. CheckpointOf[Head(detections)] \in Checkpoints
  BY DEF Capture, Resolves
<1>3. Stem(CheckpointOf[Head(detections)]) \in Stems
  BY <1>2 DEF Stem, Stems, TypeOK
<1>. QED  BY <1>1, <1>2, <1>3 DEF Message, Messages
LEMMA AgeTypes ==
  ASSUME NEW window \in Nat, NEW age \in Ages(window + 1)
  PROVE  /\ Older(age, window) \in Ages(window + 1)
         /\ (Older(age, window) = None) <=> (age = None)
         /\ None \in Ages(window + 1) /\ 0 \in Ages(window + 1)
BY DEF Older, Ages, None

\* The files of a set of stems keep their types when one stem is written.
LEMMA FilesTyped ==
  ASSUME NEW files, NEW next, NEW stem \in Stems, OthersKept(files, next, stem),
         \A s \in DOMAIN files : s \in Stems /\ files[s] \in Contents,
         stem \in DOMAIN next => next[stem] \in Contents
  PROVE  \A s \in DOMAIN next : s \in Stems /\ next[s] \in Contents
BY DEF OthersKept

LEMMA TypeStep == TypeOK /\ [Next]_vars => TypeOK'
<1>1. SUFFICES ASSUME TypeOK, [Next]_vars PROVE TypeOK'
  OBVIOUS
<1>. USE DEF TypeOK
<1>2. /\ detectionAge' \in Ages(DetectionWindow + 1)
      /\ frameAge' \in Ages(FrameWindow + 1)
      /\ poseAge' \in Ages(PoseWindow + 1)
      /\ detections' \in DetectionArrays \cup {<<>>}
  <2>1. CASE HElapse
    BY <1>1, <2>1, AgeTypes DEF HElapse, Elapse
  <2>2. CASE HTrigger
    BY <1>1, <2>2, AgeTypes DEF HTrigger, OnTrigger, Skip, EncodeFails, Capture,
       ExpireDetections, captureVars, sensorVars
  <2>3. CASE HDetections \/ HImage \/ HPose
    BY <1>1, <2>3, AgeTypes DEF HDetections, HImage, HPose, OnDetections, OnImage, OnPose
  <2>4. CASE UNCHANGED vars
    BY <1>1, <2>4 DEF vars, captureVars, sensorVars
  <2>. QED  BY <1>1, <2>1, <2>2, <2>3, <2>4 DEF Next
<1>3. up' \in BOOLEAN /\ arrived' \in BOOLEAN /\ wasted' \in BOOLEAN
  <2>1. CASE HTrigger
    <3>1. up' \in BOOLEAN
      BY <1>1, <2>1 DEF HTrigger, OnTrigger, Skip, EncodeFails, Capture, captureVars
    <3>2. arrived' \in BOOLEAN
      BY <2>1 DEF HTrigger
    <3>3. wasted' \in BOOLEAN
      BY <2>1 DEF HTrigger
    <3>. QED  BY <3>1, <3>2, <3>3
  <2>. QED
    BY <1>1, <2>1 DEF Next, HDetections, HImage, HPose, HElapse, OnDetections, OnImage, OnPose,
       Elapse, vars, captureVars, historyVars
<1>. DEFINE Typed == /\ latched' \in Latches
                     /\ index' \in Nat
                     /\ published' \in Seq(Messages)
                     /\ \A s \in DOMAIN images' : s \in Stems /\ images'[s] \in Contents
                     /\ \A s \in DOMAIN sidecars' : s \in Stems /\ sidecars'[s] \in Contents
<1>4. Typed
  <2>1. CASE UNCHANGED <<diskVars, published, latched>>
    BY <1>1, <2>1 DEF diskVars
  <2>2. ASSUME NEW token \in Tokens, Capture(token) PROVE Typed
    <3>. DEFINE checkpoint == CheckpointOf[Head(detections)]
    <3>1. PICK stem \in Stems : stem = Stem(checkpoint)
      BY <1>1, <2>2, CaptureTypes
    <3>2. PICK capture \in Nat : capture = Len(published) + 1
      BY <1>1
    <3>3. /\ OthersKept(images, images', stem) /\ OthersKept(sidecars, sidecars', stem)
          /\ WrittenOK(stem, capture) \/ WriteFailed(stem, capture)
          /\ \E path \in {stem, NoPath} :
               published' = Append(published, Message(token, checkpoint, path))
      BY <1>1, <2>2, <3>1, <3>2, CaptureTypes, EmitEffect
    <3>4. published' \in Seq(Messages)
      BY <1>1, <2>2, <3>1, <3>3, CaptureTypes, AppendFacts
    <3>5. Whole(capture) \in Contents /\ Partial(capture) \in Contents
      BY <3>2 DEF Whole, Partial, Contents
    <3>6. /\ index' \in Nat
          /\ stem \in DOMAIN images' => images'[stem] \in Contents
          /\ stem \in DOMAIN sidecars' => sidecars'[stem] \in Contents
      <4>1. stem \in DOMAIN images => images[stem] \in Contents
        BY <1>1
      <4>2. stem \in DOMAIN sidecars => sidecars[stem] \in Contents
        BY <1>1
      <4>3. CASE WrittenOK(stem, capture)
        BY <1>1, <3>5, <4>3 DEF WrittenOK
      <4>4. CASE WriteFailed(stem, capture)
        BY <1>1, <3>5, <4>1, <4>2, <4>4 DEF WriteFailed
      <4>. QED  BY <3>3, <4>3, <4>4
    <3>7. latched' \in Latches
      BY <2>2 DEF Capture, Latch, Latches
    <3>. QED  BY <1>1, <3>3, <3>4, <3>6, <3>7, FilesTyped
  <2>. QED  BY <1>1, <2>1, <2>2, StepKinds
<1>. QED  BY <1>2, <1>3, <1>4

\* Every variable of the perception node keeps its type.
THEOREM CaptureTypeCorrect == Spec => []TypeOK
<1>1. Init => TypeOK
  <2>1. DOMAIN <<>> = {} /\ <<>> \in Seq(Messages)
    OBVIOUS
  <2>2. \A limit \in Nat : None \in Ages(limit)
    BY DEF Ages, None
  <2>3. SUFFICES ASSUME Init PROVE TypeOK
    OBVIOUS
  <2>4. /\ images = <<>> /\ sidecars = <<>> /\ published = <<>>
        /\ detections = <<>> /\ detectionAge = None /\ frameAge = None /\ poseAge = None
        /\ latched = {} /\ index = 0 /\ up = TRUE /\ arrived = FALSE /\ wasted = FALSE
    BY <2>3 DEF Init, CaptureInit
  <2>5. \A files \in {images, sidecars} : \A stem \in DOMAIN files :
          stem \in Stems /\ files[stem] \in Contents
    BY <2>1, <2>4
  <2>6. /\ None \in Ages(DetectionWindow + 1) /\ None \in Ages(FrameWindow + 1)
        /\ None \in Ages(PoseWindow + 1)
    BY <2>2
  <2>7. {} \in Latches
    BY DEF Latches
  <2>. QED  BY <2>1, <2>4, <2>5, <2>6, <2>7 DEF TypeOK
<1>. QED  BY <1>1, TypeStep, PTL DEF Spec
-----------------------------------------------------------------------------
(* The disk.                                                                *)

CaptureEffect(token, checkpoint, stem, capture, path) ==
  /\ stem = <<index, checkpoint>> /\ capture = Len(published) + 1
  /\ OthersKept(images, images', stem) /\ OthersKept(sidecars, sidecars', stem)
  /\ \/ path = stem /\ WrittenOK(stem, capture)
     \/ path = NoPath /\ WriteFailed(stem, capture)
  /\ Message(token, checkpoint, path) \in Messages
  /\ published' = Append(published, Message(token, checkpoint, path))

\* One capture, seen through its stem, its number and the path it published.
LEMMA CaptureSplit ==
  ASSUME TypeOK, NEW token \in Tokens, Capture(token)
  PROVE  \E checkpoint \in Checkpoints, stem \in Stems, capture \in Nat,
             path \in Stems \cup {NoPath} :
           CaptureEffect(token, checkpoint, stem, capture, path)
<1>1. PICK checkpoint \in Checkpoints :
        /\ Emit(token, checkpoint) /\ Stem(checkpoint) \in Stems
        /\ \A path \in {Stem(checkpoint), NoPath} : Message(token, checkpoint, path) \in Messages
  BY CaptureTypes
<1>2. PICK stem \in Stems : stem = Stem(checkpoint)
  BY <1>1
<1>3. PICK capture \in Nat : capture = Len(published) + 1
  BY DEF TypeOK
<1>4. /\ OthersKept(images, images', stem) /\ OthersKept(sidecars, sidecars', stem)
      /\ \/ /\ WrittenOK(stem, capture)
            /\ published' = Append(published, Message(token, checkpoint, stem))
         \/ /\ WriteFailed(stem, capture)
            /\ published' = Append(published, Message(token, checkpoint, NoPath))
  BY <1>1, <1>2, <1>3, EmitEffect
<1>5. stem = <<index, checkpoint>>
  BY <1>2 DEF Stem
<1>6. \/ CaptureEffect(token, checkpoint, stem, capture, stem)
      \/ CaptureEffect(token, checkpoint, stem, capture, NoPath)
  <2>1. Message(token, checkpoint, stem) \in Messages /\ Message(token, checkpoint, NoPath) \in Messages
    BY <1>1, <1>2
  <2>2. CASE WrittenOK(stem, capture) /\ published' = Append(published, Message(token, checkpoint, stem))
    BY <1>3, <1>4, <1>5, <2>1, <2>2 DEF CaptureEffect
  <2>3. CASE WriteFailed(stem, capture) /\ published' = Append(published, Message(token, checkpoint, NoPath))
    BY <1>3, <1>4, <1>5, <2>1, <2>3 DEF CaptureEffect
  <2>. QED  BY <1>4, <2>2, <2>3
<1>. QED  BY <1>6

\* A path is a stem or none.
LEMMA PathFacts ==
  /\ NoPath \notin Stems
  /\ \A message \in Messages : message.path # NoPath => message.path \in Stems
  /\ \A stem \in Stems : stem[1] \in Nat /\ stem[2] \in Checkpoints
BY DEF NoPath, Stems, Messages

LEMMA DiskStep == TypeOK /\ DiskInv /\ [Next]_vars => DiskInv'
<1>1. SUFFICES ASSUME TypeOK, DiskInv, [Next]_vars PROVE DiskInv'
  OBVIOUS
<1>2. CASE UNCHANGED <<diskVars, published, latched>>
  BY <1>1, <1>2 DEF DiskInv, Readable, diskVars
<1>3. ASSUME NEW token \in Tokens, Capture(token) PROVE DiskInv'
  <2>1. PICK checkpoint \in Checkpoints, stem \in Stems, capture \in Nat,
             path \in Stems \cup {NoPath} :
           CaptureEffect(token, checkpoint, stem, capture, path)
    BY <1>1, <1>3, CaptureSplit
  <2>. USE DEF CaptureEffect
  <2>2. /\ DOMAIN published' = DOMAIN published \cup {capture}
        /\ capture \notin DOMAIN published
        /\ published'[capture] = Message(token, checkpoint, path)
        /\ \A n \in DOMAIN published : published'[n] = published[n]
    BY <1>1, <2>1, AppendFacts DEF TypeOK
  <2>3. stem[1] = index /\ stem[2] = checkpoint /\ index \in Nat /\ index' \in Nat /\ index <= index'
    BY <1>1, <2>1 DEF TypeOK, WrittenOK, WriteFailed
  <2>4. /\ Message(token, checkpoint, path).path = path
        /\ Message(token, checkpoint, path).checkpoint = checkpoint
        /\ Whole(capture).whole /\ ~Partial(capture).whole
        /\ Whole(capture).capture = capture
    BY DEF Message, Whole, Partial
  <2>5. ASSUME NEW s \in DOMAIN sidecars', sidecars'[s].whole
        PROVE  /\ s[1] < index'
               /\ s \in DOMAIN images' /\ images'[s] = sidecars'[s]
               /\ sidecars'[s].capture \in DOMAIN published'
               /\ published'[sidecars'[s].capture].path = s
               /\ published'[sidecars'[s].capture].checkpoint = s[2]
    <3>1. CASE s \in DOMAIN sidecars /\ sidecars[s].whole /\ sidecars'[s] = sidecars[s]
      <4>1. /\ s[1] < index
            /\ s \in DOMAIN images /\ images[s] = sidecars[s]
            /\ sidecars[s].capture \in DOMAIN published
            /\ published[sidecars[s].capture].path = s
            /\ published[sidecars[s].capture].checkpoint = s[2]
        BY <1>1, <3>1 DEF DiskInv
      <4>2. s # stem /\ s[1] < index'
        <5>1. s[1] \in Nat
          BY <1>1, <3>1, PathFacts DEF TypeOK
        <5>. QED  BY <2>3, <4>1, <5>1
      <4>3. s \in DOMAIN images' /\ images'[s] = images[s]
        BY <2>1, <4>1, <4>2 DEF OthersKept
      <4>. QED  BY <2>2, <3>1, <4>1, <4>2, <4>3
    <3>2. CASE s = stem /\ path = stem /\ WrittenOK(stem, capture)
      <4>1. /\ index < index' /\ s \in DOMAIN images'
            /\ images'[s] = Whole(capture) /\ sidecars'[s] = Whole(capture)
        BY <1>1, <3>2 DEF WrittenOK, TypeOK
      <4>. QED  BY <2>2, <2>3, <2>4, <3>2, <4>1
    <3>3. s # stem => s \in DOMAIN sidecars /\ sidecars'[s] = sidecars[s]
      BY <2>1, <2>5 DEF OthersKept
    <3>4. WriteFailed(stem, capture) /\ s = stem
            => s \in DOMAIN sidecars /\ sidecars'[s] = sidecars[s]
      BY <2>4, <2>5 DEF WriteFailed
    <3>. QED  BY <2>1, <2>5, <3>1, <3>2, <3>3, <3>4
  <2>6. ASSUME NEW n \in DOMAIN published', published'[n].path # NoPath
        PROVE  published'[n].path[1] < index' /\ Readable(n)'
    <3>1. CASE n = capture
      <4>1. path = stem /\ WrittenOK(stem, capture) /\ published'[n].path = stem
        BY <2>1, <2>2, <2>4, <2>6, <3>1
      <4>. QED  BY <1>1, <2>3, <3>1, <4>1 DEF WrittenOK, Readable, TypeOK
    <3>2. CASE n \in DOMAIN published
      <4>1. published'[n] = published[n] /\ published[n].path[1] < index /\ Readable(n)
        BY <1>1, <2>2, <2>6, <3>2 DEF DiskInv
      <4>2. published[n].path \in Stems
        BY <1>1, <2>6, <3>2, <4>1, PathFacts DEF TypeOK
      <4>3. published[n].path # stem /\ published[n].path[1] < index'
        BY <2>3, <4>1, <4>2, PathFacts
      <4>. QED  BY <2>1, <4>1, <4>3 DEF Readable, OthersKept
    <3>. QED  BY <2>2, <3>1, <3>2
  <2>. QED  BY <2>5, <2>6 DEF DiskInv
<1>. QED  BY <1>1, <1>2, <1>3, StepKinds

LEMMA LatchStep == TypeOK /\ LatchInv /\ [Next]_vars => LatchInv'
<1>1. SUFFICES ASSUME TypeOK, LatchInv, [Next]_vars PROVE LatchInv'
  OBVIOUS
<1>. DEFINE Latched == latched' = {token \in Tokens : Captured(token)'}
<1>2. Latched
  <2>1. CASE UNCHANGED <<diskVars, published, latched>>
    BY <1>1, <2>1 DEF LatchInv, Captured
  <2>2. ASSUME NEW token \in Tokens, Capture(token) PROVE Latched
    <3>1. PICK checkpoint \in Checkpoints, path \in Stems \cup {NoPath} :
            /\ Message(token, checkpoint, path) \in Messages
            /\ published' = Append(published, Message(token, checkpoint, path))
      BY <1>1, <2>2, CaptureSplit DEF CaptureEffect
    <3>2. published' # <<>> /\ published'[Len(published')] = Message(token, checkpoint, path)
      BY <1>1, <3>1, AppendFacts DEF TypeOK
    <3>3. published'[Len(published')].token = token
      BY <3>2 DEF Message
    <3>4. latched' = {token}
      BY <2>2 DEF Capture, Latch
    <3>. QED  BY <3>2, <3>3, <3>4 DEF Captured
  <2>. QED  BY <1>1, <2>1, <2>2, StepKinds
<1>3. detectionAge' # None => arrived'
  <2>1. CASE HTrigger
    <3>1. \/ UNCHANGED <<detectionAge, published>>
          \/ detectionAge' = None
      BY <2>1 DEF HTrigger, OnTrigger, Skip, EncodeFails, Capture, ExpireDetections,
         captureVars, sensorVars
    <3>. QED  BY <1>1, <2>1, <3>1 DEF HTrigger, LatchInv
  <2>2. CASE HElapse
    <3>1. (detectionAge' = None) <=> (detectionAge = None)
      BY <1>1, <2>2, AgeTypes DEF TypeOK, HElapse, Elapse
    <3>. QED  BY <1>1, <2>2, <3>1 DEF HElapse, LatchInv, historyVars
  <2>. QED
    BY <1>1, <2>1, <2>2 DEF Next, HDetections, HImage, HPose, OnImage, OnPose, LatchInv,
       vars, captureVars, sensorVars, historyVars
<1>4. ~wasted'
  <2>1. CASE HTrigger
    <3>1. PICK token \in Tokens :
            /\ OnTrigger(token)
            /\ wasted' = (wasted \/ (Answerable /\ ~Captured(token) /\ up' /\ published' = published))
      BY <2>1 DEF HTrigger
    <3>2. ASSUME Answerable, ~Captured(token) PROVE ~up' \/ Capture(token)
      <4>1. token \notin latched /\ ~Skip
        BY <1>1, <3>2 DEF LatchInv, Answerable, Skip
      <4>. QED  BY <3>1, <4>1 DEF OnTrigger, EncodeFails
    <3>3. Capture(token) => published' # published
      <4>1. SUFFICES ASSUME Capture(token) PROVE published' # published
        OBVIOUS
      <4>2. PICK message \in Messages : published' = Append(published, message)
        BY <1>1, <4>1, CaptureSplit DEF CaptureEffect
      <4>. QED  BY <1>1, <4>2, AppendFacts DEF TypeOK
    <3>. QED  BY <1>1, <3>1, <3>2, <3>3 DEF LatchInv
  <2>. QED
    BY <1>1, <2>1 DEF Next, HDetections, HImage, HPose, HElapse, LatchInv, vars, historyVars
<1>. QED  BY <1>2, <1>3, <1>4 DEF LatchInv

LEMMA CaptureInitial == Init => DiskInv /\ LatchInv
<1>1. SUFFICES ASSUME Init PROVE DiskInv /\ LatchInv
  OBVIOUS
<1>2. /\ DOMAIN sidecars = {} /\ DOMAIN published = {} /\ published = <<>>
      /\ latched = {} /\ detectionAge = None /\ wasted = FALSE
  BY <1>1 DEF Init, CaptureInit
<1>. QED  BY <1>2 DEF DiskInv, LatchInv, Captured

-----------------------------------------------------------------------------
\* A complete sidecar stands beside the complete image of its own capture and is
\* the one its message names, after any sequence of failed writes.
THEOREM SidecarsHonest == Spec => []SidecarsTell
<1>1. DiskInv => SidecarsTell
  BY DEF DiskInv, SidecarsTell
<1>2. Spec => []DiskInv
  BY CaptureInitial, DiskStep, CaptureTypeCorrect, PTL DEF Spec
<1>. QED  BY <1>1, <1>2, PTL

\* A trigger that finds what it needs is answered, whatever was skipped, captured
\* or failed before it.
THEOREM TriggersAnswered == Spec => []NoTriggerWasted
<1>1. LatchInv => NoTriggerWasted
  BY DEF LatchInv, NoTriggerWasted
<1>2. Spec => []LatchInv
  BY CaptureInitial, LatchStep, CaptureTypeCorrect, PTL DEF Spec
<1>. QED  BY <1>1, <1>2, PTL

\* No detection message serves two captures.
THEOREM DetectionsOnce == Spec => EachDetectionOnce
<1>1. LatchInv /\ [Next]_vars => [published' # published => arrived]_vars
  <2>1. SUFFICES ASSUME LatchInv, NEW token \in Tokens, Capture(token) PROVE arrived
    BY StepKinds
  <2>. QED  BY <2>1 DEF LatchInv, Capture, TagInView, IsFresh
<1>2. Spec => []LatchInv
  BY CaptureInitial, LatchStep, CaptureTypeCorrect, PTL DEF Spec
<1>3. Spec => [][published' # published => arrived]_vars
  BY <1>1, <1>2, PTL DEF Spec
<1>. QED  BY <1>3 DEF EachDetectionOnce
-----------------------------------------------------------------------------
(* The node implements the abstract log.                                    *)

Entry(message) == [visit |-> message.token, place |-> message.checkpoint,
                   archived |-> message.path # NoPath]

LogOf(messages) == [n \in DOMAIN messages |-> Entry(messages[n])]

\* Appending a message appends its entry.
LEMMA LogAppend ==
  ASSUME NEW messages \in Seq(Messages), NEW message \in Messages
  PROVE  LogOf(Append(messages, message)) = Append(LogOf(messages), Entry(message))
<1>1. LogOf(messages) \in Seq({Entry(m) : m \in Messages})
  BY DEF LogOf
<1>. QED  BY <1>1 DEF LogOf

\* What can be read back is what the messages say was written.
ArchiveInv ==
  {n \in DOMAIN published : Readable(n)} = {n \in DOMAIN published : published[n].path # NoPath}

LEMMA ArchiveIs == TypeOK /\ DiskInv => ArchiveInv
<1>1. SUFFICES ASSUME TypeOK, DiskInv PROVE ArchiveInv
  OBVIOUS
<1>2. \A n \in DOMAIN published : Readable(n) => published[n].path # NoPath
  BY <1>1, PathFacts DEF Readable, TypeOK
<1>. QED  BY <1>1, <1>2 DEF DiskInv, ArchiveInv

\* A step that publishes is a step of the log; any other leaves the log alone.
LEMMA LogStep ==
  ASSUME TypeOK, DiskInv, ArchiveInv', LatchInv, [Next]_vars
  PROVE  [Log!LogNext]_Log!logVars
<1>. DEFINE Archive == {n \in DOMAIN published : Readable(n)}
<1>1. CASE UNCHANGED <<diskVars, published, latched>>
  BY <1>1 DEF Log!logVars, diskVars, Readable
<1>2. ASSUME NEW token \in Tokens, token \notin latched, Capture(token) PROVE Log!LogNext
  <2>1. PICK checkpoint \in Checkpoints, stem \in Stems, capture \in Nat,
             path \in Stems \cup {NoPath} :
           CaptureEffect(token, checkpoint, stem, capture, path)
    BY <1>2, CaptureSplit
  <2>. DEFINE message == Message(token, checkpoint, path)
              archived == (path # NoPath)
  <2>2. /\ message \in Messages /\ published' = Append(published, message)
        /\ capture = Len(published) + 1
    BY <2>1 DEF CaptureEffect
  <2>3. message.token = token /\ message.checkpoint = checkpoint /\ message.path = path
    BY DEF Message
  <2>4. Entry(message) = [visit |-> token, place |-> checkpoint, archived |-> archived]
    BY <2>3 DEF Entry
  <2>5. LogOf(published)' = Append(LogOf(published), Entry(message))
    BY <2>2, LogAppend DEF TypeOK
  <2>6. LogOf(published) # <<>> => LogOf(published)[Len(LogOf(published))].visit # token
    <3>1. Len(LogOf(published)) = Len(published) /\ (LogOf(published) # <<>> => published # <<>>)
      BY DEF LogOf, TypeOK
    <3>2. published # <<>> => published[Len(published)].token # token
      BY <1>2 DEF LatchInv, Captured
    <3>3. published # <<>> => LogOf(published)[Len(published)].visit = published[Len(published)].token
      BY DEF LogOf, Entry, TypeOK
    <3>. QED  BY <3>1, <3>2, <3>3
  <2>7. Archive' = IF archived THEN Archive \cup {capture} ELSE Archive
    <3>1. /\ DOMAIN published' = DOMAIN published \cup {capture}
          /\ capture \notin DOMAIN published
          /\ published'[capture].path = path
          /\ \A n \in DOMAIN published : published'[n] = published[n]
      BY <2>2, <2>3, AppendFacts DEF TypeOK
    <3>2. Archive = {n \in DOMAIN published : published[n].path # NoPath}
      BY ArchiveIs DEF ArchiveInv
    <3>3. Archive' = {n \in DOMAIN published' : published'[n].path # NoPath}
      BY DEF ArchiveInv
    <3>. QED  BY <3>1, <3>2, <3>3
  <2>8. Len(LogOf(published)') = capture
    BY <2>2 DEF LogOf, TypeOK
  <2>9. archived \in BOOLEAN
    OBVIOUS
  <2>. HIDE DEF message, archived, Archive
  <2>10. Log!Record(token, checkpoint, archived)
    BY <2>4, <2>5, <2>6, <2>7, <2>8 DEF Log!Record, Log!Fresh, LogOf, Entry, Archive
  <2>. QED  BY <2>9, <2>10 DEF Log!LogNext
<1>. QED  BY <1>1, <1>2, StepKinds

\* For every configuration the node implements the abstract log: one capture per
\* visit, and what a message says was written can be read back for good.
THEOREM ImplementsLog == Spec => RefinesLog
<1>1. Init => Log!LogInit
  <2>1. DOMAIN <<>> = {}
    OBVIOUS
  <2>. QED  BY <2>1 DEF Init, CaptureInit, Log!LogInit
<1>2. Spec => [](TypeOK /\ DiskInv /\ LatchInv)
  BY CaptureInitial, DiskStep, LatchStep, CaptureTypeCorrect, PTL DEF Spec
<1>3. Spec => []ArchiveInv
  BY <1>2, ArchiveIs, PTL
<1>4. Spec => [][Log!LogNext]_Log!logVars
  BY <1>2, <1>3, LogStep, PTL DEF Spec
<1>. QED  BY <1>1, <1>4, PTL DEF RefinesLog, Log!LogSpec, Spec

-----------------------------------------------------------------------------
(* What the log promises of the messages and the files.                     *)

\* Two captures in a row are of different visits.
VisitsAlternate ==
  \A n \in DOMAIN published :
    n + 1 \in DOMAIN published => published[n].token # published[n + 1].token

\* No two messages name the same file: what one capture wrote, no later one
\* overwrites.
FilesUnshared ==
  \A m, n \in DOMAIN published :
    published[m].path = published[n].path /\ published[n].path # NoPath => m = n

LEMMA LogFacts ==
  ASSUME NEW messages \in Seq(Messages)
  PROVE  /\ LogOf(messages) \in Seq({Entry(m) : m \in Messages})
         /\ Len(LogOf(messages)) = Len(messages)
         /\ \A n \in DOMAIN messages : LogOf(messages)[n].visit = messages[n].token
BY DEF LogOf, Entry

LEMMA AlternateStep ==
  ASSUME TypeOK, TypeOK', VisitsAlternate, [Log!LogNext]_(Log!logVars)
  PROVE  VisitsAlternate'
<1>. DEFINE log == LogOf(published)
            next == LogOf(published')
            AppendsEntry(visit, place, archived) ==
              /\ next = Append(log, [visit |-> visit, place |-> place, archived |-> archived])
              /\ log # <<>> => log[Len(log)].visit # visit
<1>1. /\ log \in Seq({Entry(m) : m \in Messages}) /\ Len(log) = Len(published)
      /\ \A n \in DOMAIN published : log[n].visit = published[n].token
  BY LogFacts DEF TypeOK
<1>2. /\ next \in Seq({Entry(m) : m \in Messages}) /\ Len(next) = Len(published')
      /\ \A n \in DOMAIN published' : next[n].visit = published'[n].token
  BY LogFacts DEF TypeOK
<1>3. \/ next = log
      \/ \E visit, place, archived : AppendsEntry(visit, place, archived)
  <2>1. CASE UNCHANGED Log!logVars
    BY <2>1 DEF Log!logVars, LogOf, Entry
  <2>2. ASSUME NEW visit, NEW place, NEW archived, Log!Record(visit, place, archived)
        PROVE  AppendsEntry(visit, place, archived)
    BY <2>2 DEF Log!Record, Log!Fresh, LogOf, Entry
  <2>. HIDE DEF AppendsEntry, log, next
  <2>. QED  BY <2>1, <2>2 DEF Log!LogNext
<1>4. published \in Seq(Messages) /\ published' \in Seq(Messages)
  BY DEF TypeOK
<1>. HIDE DEF log, next
<1>5. SUFFICES ASSUME NEW n \in DOMAIN published', n + 1 \in DOMAIN published'
               PROVE  next[n].visit # next[n + 1].visit
  BY <1>2 DEF VisitsAlternate
<1>6. \A k \in DOMAIN published : k + 1 \in DOMAIN published => log[k].visit # log[k + 1].visit
  BY <1>1 DEF VisitsAlternate
<1>7. n \in 1 .. Len(next) /\ n + 1 \in 1 .. Len(next)
  BY <1>2, <1>4, <1>5
<1>8. CASE next = log
  BY <1>1, <1>2, <1>4, <1>5, <1>6, <1>8
<1>9. ASSUME NEW visit, NEW place, NEW archived, AppendsEntry(visit, place, archived)
      PROVE  next[n].visit # next[n + 1].visit
  <2>. DEFINE entry == [visit |-> visit, place |-> place, archived |-> archived]
  <2>1. Len(next) = Len(log) + 1 /\ next[Len(log) + 1] = entry
        /\ \A k \in 1 .. Len(log) : next[k] = log[k]
    BY <1>1, <1>9
  <2>2. CASE n + 1 \in 1 .. Len(log)
    BY <1>1, <1>4, <1>6, <1>7, <2>1, <2>2
  <2>3. CASE n + 1 = Len(log) + 1
    BY <1>1, <1>7, <1>9, <2>1, <2>3
  <2>. QED  BY <1>1, <1>7, <2>1, <2>2, <2>3
<1>. QED  BY <1>3, <1>8, <1>9

\* A message, once published, keeps its place in the sequence of captures.
LEMMA MessagesStay ==
  ASSUME TypeOK, [Next]_vars, NEW n \in DOMAIN published
  PROVE  n \in DOMAIN published' /\ published'[n] = published[n]
<1>1. CASE UNCHANGED published
  BY <1>1
<1>2. ASSUME NEW token \in Tokens, Capture(token)
      PROVE  n \in DOMAIN published' /\ published'[n] = published[n]
  <2>1. PICK message \in Messages : published' = Append(published, message)
    BY <1>2, CaptureSplit DEF CaptureEffect
  <2>. QED  BY <2>1 DEF TypeOK
<1>. QED  BY <1>1, <1>2, StepKinds

\* The evidence of a flight adds up: a visit is not captured twice in a row, and
\* every capture that names a file names one of its own.
THEOREM EvidenceNeverShared == Spec => [](VisitsAlternate /\ FilesUnshared)
<1>1. Init => VisitsAlternate
  BY DEF Init, CaptureInit, VisitsAlternate
<1>2. DiskInv => FilesUnshared
  <2>1. SUFFICES ASSUME DiskInv, NEW m \in DOMAIN published, NEW n \in DOMAIN published,
                        published[m].path = published[n].path, published[n].path # NoPath
                 PROVE  m = n
    BY DEF FilesUnshared
  <2>2. images[published[n].path] = Whole(n) /\ images[published[n].path] = Whole(m)
    BY <2>1 DEF DiskInv, Readable
  <2>3. Whole(n).capture = n /\ Whole(m).capture = m
    BY DEF Whole
  <2>. QED  BY <2>2, <2>3
<1>3. Spec => [](TypeOK /\ DiskInv)
  BY CaptureInitial, DiskStep, CaptureTypeCorrect, PTL DEF Spec
<1>. QED
  BY <1>1, <1>2, <1>3, AlternateStep, ImplementsLog, PTL DEF Spec, RefinesLog, Log!LogSpec

\* What was archived can be read back for good, and unchanged.
THEOREM ArchivedForGood ==
  ASSUME NEW n \in Nat, NEW message \in Messages, message.path # NoPath
  PROVE  Spec => [](n \in DOMAIN published /\ published[n] = message
                     => [](published[n] = message /\ Readable(n)))
<1>. DEFINE Sent == n \in DOMAIN published /\ published[n] = message
<1>1. TypeOK /\ [Next]_vars /\ Sent => Sent'
  BY MessagesStay
<1>2. DiskInv /\ Sent => published[n] = message /\ Readable(n)
  BY DEF DiskInv
<1>3. Spec => [](TypeOK /\ DiskInv)
  BY CaptureInitial, DiskStep, CaptureTypeCorrect, PTL DEF Spec
<1>. HIDE DEF Sent
<1>4. Spec => [](Sent => [](published[n] = message /\ Readable(n)))
  BY <1>1, <1>2, <1>3, PTL DEF Spec
<1>. QED  BY <1>4 DEF Sent
===============================================================================
