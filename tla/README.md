# patrol-drone in TLA+

This directory is a TLA+ model of patrol-drone: the mission software that flies
a PX4 vehicle around a patrol route, the perception software that photographs a
checkpoint at each stop, and the pipeline that records, ships and indexes the
flight's bag. It says what is modelled, what TLC checks on small instances, what
TLAPS proves for every instance, and what is left.

The names of variables and operators follow the source. `PROJECT.json` maps each
definition to the lines it translates.

## 1. Inventory of the system

Paths are relative to `src/`; `mission/` stands for
`ros2_ws/src/patrol_mission/patrol_mission/`, and so on.

| Part | State it keeps | Operations | What makes it correct |
|---|---|---|---|
| Mission state machine, `mission/state_machine.py` | `_Progress`: last state, entry stamp, hold stamp, waypoint index, abort reason | `tick(state, telemetry)`, `reset_timing()` | waypoints in order and none skipped; holds and waits really spent; an abort is final; home, land, done |
| Mission node, `mission/node.py`, `mission/commands.py` | latest position, status, battery and abort with receipt times; state; warm-up; pause flag; offboard latch; dwell clock and flag | four subscription callbacks, a 10 Hz timer | no progress on missing, invalid or stale telemetry; arming handshake; one capture trigger per visit |
| Mission configuration, `mission/config.py` | none | `load_mission_config` | impossible missions are refused, waypoints resolve to the checkpoints perception knows |
| Frames, `mission/frames.py` | none | ENU/NED conversions | inverse to each other; the vehicle faces the tag it stops for |
| World Composer, marker generator and drift gate, `sim/tools/`, `scripts/check_world_drift.py` | the generated world and marker models | render, generate, check | a clean gate means that mission, perception and world describe one patrol |
| Capture coordinator, `perception/coordinator.py`, `samplers.py`, `checkpoint_resolver.py`, `capture_writer.py` | latest detection, frame and pose; the latched visit; the file index | three sensor callbacks, `on_trigger` | never two captures of one visit in a row, from fresh data; files consistent with messages |
| Recorder, `patrol_logging/recorder.py`, `launch/record.launch.py`, `scripts/run_patrol_world_sitl.sh` | bag directory, staging file, sidecar; the runner's `NODE_PID` and trap | launch, exit handler, runner shutdown and fallback | a sidecar exactly for complete bags, whoever survives to write it; a verdict that tells; a teardown that ends |
| Upload daemon, `analysis/upload_daemon/` | receipts on disk, a bounded set in memory | poll, send with retry, write receipt | every complete bag arrives, bag before sidecar; a receipt only after arrival |
| Ingest, `docker/ingest/` | manifest table, a bounded set in memory | poll, derive facts, upsert, query | every landed bag gets one row, from its own sidecar |
| Other launch files, runners and verifiers, manifest checks, vendored PX4 packages | files only | one-shot | not modelled, see section 7 |

How the parts interact:

- **PX4 to node**: `VehicleLocalPosition`, `VehicleStatus`, `BatteryStatus`,
  best-effort, depth 1. **Node to PX4**: keepalive, setpoint and
  `VehicleCommand`, best-effort, depth 1: any of them may be lost.
- **Operator to node**: `/patrol/abort`, reliable, not latched.
- **Node to perception**: `/patrol/dwell`, one message per visit, reliable and
  volatile. Perception also listens to detections, frames and position.
- **Recorder to uploader to ingest**: files only. The sidecar's existence is the
  signal on both sides of the transfer. Inside a recorded flight the runner, the
  launch and the recorder are three processes of which the first signals the
  other two.
- **Configuration**: `checkpoints.yaml` is read by three programs with three
  readers; the composer writes the world from it, the generator writes the models
  the world refers to, and the gate compares all of them before a flight.

Hard behaviours: callbacks interleaving with the timer; telemetry that stops and
resumes; commands that are lost; an abort at any moment; clocks of two
components that are reset by different events; crashes between two file
operations; signals to a shell script and to the group it started; retries of
transfers that may have succeeded; an output root that several runs share; readers
of one file that type its scalars, or read its digits, differently. `PROJECT.json` lists each as a hazard at its line.

## 2. Modules

```
MissionStateMachine     state_machine.py: handlers as actions, tick()
  PatrolMissionNode     node.py and commands.py: callbacks, timer, time
    MissionHistory      history variables, the safety properties, RefinesRoute
      MissionProofs     theorems: types, aborts, holds, waits, arming
        MissionRouteProofs    theorems: the refinement, one trigger per visit
      MissionClaims     two statements of comments, refuted (MCClaims)
      MCMission         instance for TLC
    MissionFlight       the node with an external vehicle, fairness, liveness
      FlightProofs      theorems: the safety of the flight (on MissionRouteProofs)
      MCFlight          instance for TLC
PatrolRoute             abstract specification, implemented by MissionHistory

CaptureCoordinator      perception_node.py, coordinator.py, samplers.py,
                        checkpoint_resolver.py, capture_writer.py
  CaptureHistory        history variables, the properties, RefinesLog
    CaptureProofs       theorems: all five properties of capture_safety, archive
    MCCapture           instance for TLC
CaptureLog              abstract specification, implemented by CaptureHistory

BagLayout               bag_layout.py: what makes a directory a bag
  BagDirectory          how a bag comes to be: between recorder and uploader
BagRecorder             recorder.py, record.launch.py, run_patrol_world_sitl.sh
  RecorderProperties    the properties, RefinesLayout, fairness, a refuted claim
    RecorderProofs      theorems: all its safety properties
BoundedSeen             bounded_seen.py
UploadDaemon            upload_daemon.py, its __main__.py and transport.py
  UploadProperties      the properties, fairness, liveness
    UploadProofs        theorems: all its safety properties, BagDirectory
    UploadClaims        a statement of a docstring, refuted
    BagPipeline         with IngestService: daemon and service, one directory
      PipelineProofs    theorems: types, rows, the refinement, the catalogue
IngestService           docker/ingest: __main__.py, ingest_service.py, the store
PipelineLog             abstract specification, implemented by BagPipeline

ConfigScalars           what the three readers take for a number, position, id
  CheckpointConfig      checkpoint_config.py, perception's reader
    MissionConfig       config.py (with Frames, frames.py)
    WorldComposer       compose_world.py and gen_apriltag_models.py
      PatrolConfiguration        the files and who writes them, the drift gate
        ConfigurationProperties  the properties, fairness, liveness
          ConfigurationProofs    theorems: its invariants, the advice step by step
```

The configurations of the bag side and of the configuration files give their
constants directly, so they have no MC module.

**MissionStateMachine.** Each `_handler` of the Python class is an action over
`state`, `_Progress` (`lastState`, `sinceEntry`, `sinceInside`, `waypointIndex`,
`abortReason`) and the returned command `cmd`. `Tick(t, reset)` is `tick()`: the
abort guards first, then the dispatch. `reset` says that `reset_timing()` was
called just before; in the code that sets `last_state = None`, whose only effect
is that the next `_enter_if_new` counts as an entry.

- *Time.* The code stores timestamps and compares differences. The model stores
  the differences (ages); `Elapse` increments them. An age stops growing at the
  largest value any comparison looks at, so it saturates without changing any
  decision. `Never` is `None`.
- *Space.* A position is the set of targets (home, takeoff point, waypoints)
  whose tolerance ball contains it. The machine only ever asks that question.
- *Battery.* A fraction is its class: unknown, low or ok.

**PatrolMissionNode.** `OnPos`, `OnStatus`, `OnBattery`, `OnAbort` are the
subscription callbacks, `GatedTick` and `LiveTick` the two ways through
`_on_tick`, `Elapse` the clock. The node spins on a single-threaded executor, so a
callback is one atomic action and any order of callbacks can happen. The content
and the moment of messages are unconstrained: lost, repeated, delayed and frozen
streams are all behaviours. `sent` is the set of `VehicleCommand`s the latest
tick published and `trigger` the `/patrol/dwell` message, if any.
`/patrol/mission_state` and `/patrol/current_waypoint` are functions of `state`
and `cmd` and are not represented.

**MissionHistory** adds variables that record what a bystander could observe
(how long the machine has been in its state on unbroken live ticks, how many
triggers each waypoint had, the raw battery message, the setpoints streamed) and
states the properties over them. The history is never computed from the
machine's own clocks, so a mistake in those clocks is visible.

**PatrolRoute** is what a patrol promises without clocks or telemetry. The
refinement mapping reads the phase off the state and the number of visits off the
waypoint index.

**MissionFlight** closes the loop with PX4 and its link, modelled as external:
setpoints (`stream`) and commands (`wire`) not received before the next tick are
lost, as their publishers are best-effort of depth 1; PX4 may refuse to arm
outside offboard and flies to the latest setpoint it did receive (`aim`); telemetry
tells the truth but may stop; gusts move the vehicle out of a tolerance ball.

**MissionClaims** adds the two history variables that two comments of `node.py`
need to be stated.

**CaptureCoordinator.** `OnDetections`, `OnImage`, `OnPose` and `OnTrigger` are the
four subscription callbacks of the perception node, `Elapse` the clock. This node,
too, spins on a single-threaded executor, so a trigger reads its three buffers
in one step, but what they hold then depends on every order of callbacks.

- *Buffers.* A `LatestBuffer` is the age of its value, `None` if it has none; an
  age saturates one above the freshness window. Of frames and poses nothing else
  matters; a detection array is a sequence of tags, of which the coordinator
  looks at the first.
- *Gates.* `Skip` is each early return of `on_trigger`, in the code's order:
  detection, world, resolver. `EncodeFails` stands between the second and the
  third, where `cv2.imencode` is called: its `RuntimeError` is caught nowhere, so
  the spin ends (`up`).
- *Files.* A capture is its number in `published`. A file is whole or partial and
  holds one capture; its name (`Stem`) is the index and the checkpoint.
  `WriteImageFails` and `WriteSidecarFails` are the places an `OSError` can
  come from: no file, or the beginning of one, was written. `Emit` publishes in
  either case, with an empty path after a failure.
- *Latch.* `latched` is `_latched_token`: no token or one.

**CaptureHistory** records whether a detection message arrived since the last
capture, and whether a trigger that had everything it needed went unanswered.

**CaptureLog** is what the node promises: a log of captures that never has the same
visit twice in a row, and an archive that only grows. The refinement mapping
takes the log from the messages and the archive from the files: what can be read
back whole under the path of its message.

**BagRecorder.** One recorded flight as three processes whose steps interleave.

- *Recorder* (external): writes payload, then `metadata.yaml` while it flushes; it
  may hang or fail at any point, after the metadata, too.
- *Launch*: `LaunchRecorder` stages the sidecar's inputs before it starts the
  recorder; `OnRecorderExit`, `HandlerWrites` and `HandlerClears` are the steps of
  the exit handler between which a signal can end it. `AtomicWrite` is the write
  of a temporary sibling and its rename, `WriteFails` an `OSError` on the way.
- *Runner*: `runner` is the place in the script. `Shutdown` is the trap of EXIT,
  INT and TERM; as in bash, after a signal the script goes on behind the trap
  (`resumeAt`), with later signals ignored (`signalled`). The two callers of
  `stop_launch_group` differ: `graceful_stop_mission` leaves a group that ignored
  SIGINT and SIGTERM alone with `NODE_PID` set, `shutdown()` kills it
  (`TerminateTimesOut`). The fallback is step by step (`FallbackLooks` to
  `FallbackClears`), since the exit handler may run between any two of its steps.
- *Stack*: `stack` is the runner's other children, PX4 and Gazebo among them.
  `StackDown` sends them SIGTERM; the bare `wait` at the end of `shutdown()` returns
  (`WaitReturns`) only when all of them have exited (`StackExits`), which one that
  ignores SIGTERM never does.
- *Output root*: runs may share one, and the runner's checks and its fallback look at
  every finalized bag found there. `earlier` is such a bag of an earlier run, with or
  without its sidecar; `SomeFinalizedBag` and `SomeBagPublished` are what the checks
  ask, and the fallback visits that bag, too (`VisitEarlierBag`). A later run
  (`LaterRun`) starts a stack of its own and runs the fallback over this run's bag.
- *Faults*: the runner may be killed anywhere, the launch and the recorder by the
  runner's signals.

The start of the launch group and the assignment of `NODE_PID` (lines 568 to 571)
are one step.

`Interrupted`, `Terminated` and `Killed` are what the group does with each signal;
the launch may miss a SIGTERM, the recorder may ignore a SIGINT.

**UploadDaemon.** `StartPass` lists the directory once; `Skip`, `SkipDurably` and
`OnBagComplete` are the three ways through `_drain_once` for the next bag of the
listing. A transfer is `LandPart` until `SendSucceeds`, `SendFails` (a non-zero
exit or a timeout, retried) or `SendRaises` (an `OSError`, not retried).
`WriteUploadMarker`, `MarkerExists` and `MarkerFails` are the exclusive publication
of the receipt. `Restart` loses the memory and may come with another target.
`Produce` is the recorder, as `BagDirectory` specifies it: the same guard
(`MayAdd`) that `RefinesLayout` shows the recorder to satisfy. A receipt is the
target it names; `ForeignFile` is any file of that name that is not a receipt for
this bag.

**BoundedSeen** is the whole class: a sequence in order of use, where remembering a
member moves it to the end and the oldest is evicted above the limit.

**IngestService** is the second polling loop. `at` is the place between reading the
listing, the duplicate check, the guards and the insert; `Fault` is any of
`_INGEST_FAULTS` at any of the three reads and writes, `Refuse` a guard that
raises. `defective` bags never validate.

**BagPipeline** composes both over the landing directory of one target
(`INSTANCE IngestService WITH landing <- landed[Dgx]`). **PipelineLog** is what
they promise together: recorded, then arrived, then catalogued, each once.

**ConfigScalars, CheckpointConfig, MissionConfig, WorldComposer, Frames** are the
pure part of the configuration. A scalar is the form it is written in together
with the number it spells; each reader is the predicate of the forms it takes and
the value it makes of them, because `float()`, `isinstance` and a line reader
differ in both. They differ in what they take for `1e0`, `"1.0"`, `.nan`, `true` or an id
of digits, and in what they read: `012` is twelve to the composer and ten to PyYAML,
`08` eight to the composer and a string to PyYAML (`YamlValue`). `MissionLoads` is
`load_mission_config` as the predicate of the documents that raise nothing, and
`Route` the waypoints it builds, approach poses included. `CanRender` is the
conjunction of the composer's guards, `RenderWorld` what it writes, each coordinate
rounded as `%g` rounds it (`Written`: to a given number of significant digits, and
nothing that would need an exponent). `WriteModels` is the generator's writes up to
any point at which it may be stopped.

**PatrolConfiguration** puts them into motion: authors edit any of the sources or
touch generated files, the tools run or are killed, orphans are removed by hand.
`GateClean` is `check_world_drift.py`.

Units of the configuration: lengths are whole numbers of the `Metre`th part of a
metre (a tenth of a metre in the run), the tolerance is in half metres, the battery
threshold in fifths, angles in eighths of a turn, one eighth of camera pitch
standing for the default 0.35 rad. The shipped coordinates are rounded to whole
metres and the inline waypoint is moved off the diagonal, so that swapping its
axes shows; an author may move a checkpoint to a point between two metres.

## 3. Runs

| Run | Question | Instance |
|---|---|---|
| `mission_safety` | the safety, action and refinement properties below | 2 waypoints, unrestricted message order, 2.3 million states |
| `mission_flight` | does every mission launch, and every flying mission end | 1 waypoint, 1 outage or gust, 289 thousand states |
| `claim_abort` | "a momentary external True still drives the full return home" | refuted |
| `claim_dwell` | the settle time is not counted while the machine is not ticking | refuted |
| `capture_safety` | the properties of the perception node below | 2 visits, 2 checkpoints, 3 captures, 157 thousand states |
| `claim_orphan` | the next write overwrites the orphaned image of a partial one | refuted |
| `recorder` | the properties of a recorded flight below | one flight, an earlier and a later run, 2 failed writes, 156 thousand states |
| `claim_failed` | a failed recording leaves no success-looking sidecar | refuted |
| `upload` | the properties of the daemon below | 2 bags, 2 targets, seen set of 1, a retry, a restart, a failed receipt, 159 thousand states |
| `claim_once` | each completed bag is uploaded exactly once | refuted |
| `pipeline` | the properties of daemon and service together below | 2 bags, one of them possibly defective, a restart of each side, a transient fault, 275 thousand states |
| `configuration` | the properties of the configuration below | every 2 edits or kills, 64 thousand states |

Properties of `mission_safety`:

- `TypeOK`: types.
- `HoldsAreObserved`: TAKEOFF, WAYPOINT and RTH end only when an unbroken run of
  live ticks saw the target in tolerance for the hold time.
- `WaitsAreObserved`: HOVER and DWELL end only when their whole duration was
  spent on unbroken live ticks. Without the reset on resume this fails.
- `ArmHandshake`: no mode request before the setpoint stream has warmed up, no
  arming in the tick of the first mode request, none outside ARMING.
- `TriggersMatchVisits`: never two triggers for a waypoint, none early, and none
  missing when the dwell is at least the settle delay plus one timer gap. The
  second waypoint of the instance has a shorter dwell, so the case the
  configuration does not exclude (no trigger at all) is in the state space.
- `AbortIsFinal`, `AbortJustified`: an abort is never taken back, and never
  invented.
- `RefinesRoute`: the node implements `PatrolRoute`.

Properties of `mission_flight`:

- `DoneMeansDisarmed`: DONE is never declared with the motors running. A status
  from before the arming could be taken for the landing if it were still fresh
  when LANDING reads it; the hold at home, followed by one more tick, outlasts the
  telemetry timeout. The instance has a hold of 2 and a timeout of 1. The shipped
  values are equal (2 s each, `config.py:42`, `node.py:63`) and the time between two
  timer callbacks makes the difference; a configuration with a shorter hold would
  not have this property, and the loader accepts one. Section 4 proves both cases.
- `FlyingMissionEnds`: from any flying state the mission reaches DONE.
- `MissionLaunches`: the vehicle flies, unless an abort comes first.

Properties of `capture_safety`:

- `TypeOK`: types; at most one visit is latched against.
- `EachDetectionOnce`: between two captures a detection message arrives. A
  detection that is not expired after its capture would answer the next visit's
  trigger within its window.
- `NoTriggerWasted`: a trigger with a fresh mapped tag, frame and pose is answered
  unless the latest capture is of the same visit. A latch that is set on a skip,
  or that keeps visits of long ago, would give up visits.
- `SidecarsTell`: a complete sidecar stands beside the complete image of its own
  capture and is named by that capture's message, after any sequence of failed
  and partial writes at the same index.
- `RefinesLog`: the node implements `CaptureLog`. An archived capture is never
  overwritten by a later one, although names are reused after failures.

Properties of `recorder`:

- `TypeOK`: types, and that the processes fit together.
- `SidecarTells`: a sidecar, whoever wrote it, is whole and stands beside a bag
  with marker and payload. Written in place instead of renamed, it can be torn.
- `NeverStranded`: a finalized bag has its sidecar or the inputs to write one.
- `VerdictHonest`: a run that reports a flown patrol has left an ingestable bag,
  its own unless a bag of an earlier run lay in the output root, which then
  satisfies the checks in its place (section 5). After an interrupt this needs
  `PATROL_ASSERT_BAG`.
- `SourcesOutliveRecorder`: PX4 and Gazebo go down only after the launch group is
  gone; if `graceful_stop_mission` blanked `NODE_PID` of a group it gave up on, they
  would not.
- `RefinesLayout`: the recorder implements `BagDirectory`.
- `TeardownEnds`: a runner in `shutdown()` gets out of it if the stack obeys
  SIGTERM, whatever the recorder and the launch do. Without that condition it does not
  hold: the last `wait` has no limit, and `analysis/e2e_check.md:38-40` tells of
  a leftover QGroundControl that held it.
- `FinalizedIsPublished`: a bag finalized under its runner gets its sidecar, unless
  the runner is killed, `--keep-up` leaves everything running, or a write fails.

Properties of `upload`:

- `TypeOK`: types, and the seen set within its limit.
- `ReceiptMeansArrival`, `SidecarArrivesLast`, `OnlyCompleteBagsTravel`,
  `SeenAreReceipted`: what a receipt, a sidecar at the target, any file at the target
  and a member of the seen set say about the bag, through partial transfers,
  retries, restarts and changes of the target.
- `BagsArrive`: every complete bag arrives at the daemon's target, also behind a
  bag that cannot be sent or a foreign file in a receipt's place.

Properties of `pipeline`:

- `PipelineTypeOK`: types of the service's variables.
- `IndexedHaveRows`: what the service remembers in memory has its row. A bag
  remembered although its insert failed would never be indexed.
- `RefinesLog`: daemon and service implement `PipelineLog`: no second row after a
  re-transfer or a restart, and no row for a bag that is not there whole.
- `BagsAreIndexed`: every recorded good bag gets its row, also behind one that never
  validates.
- `PipelineSettles`: without foreign files the daemon comes to rest. With a seen
  set smaller than the number of bags it is the receipt that stops it.

Properties of `configuration` (there is no type
invariant, as the files are records built by the same operators that edit them):

- `CleanMeansOnePatrol`: after a clean gate every marker of the world shows a tag
  that perception maps to that checkpoint, at the position the mission flies to, the
  marker stands there to within the composer's rounding, and each checkpoint has its
  marker. It assumes a keyed file with plainly typed scalars, which the gate does not
  check (section 5).
- `ReadersAgree`: for any file, however typed. If mission and perception both start,
  a tag's checkpoint is one the mission knows, at the same position; what the composer
  accepts beside the mission it places where the mission flies, to within its
  rounding, unless a coordinate has a leading zero, where the two differ (section 5).
- `HoversFaceTags`: the setpoint of a checkpoint waypoint, after the conversion to
  NED, is `standoff_m` in front of the tag along the commanded heading; the pose
  perception records there converts back to the same point.
- `AdviceRepairs`: rerunning the generators and removing orphans, in any order and
  after any edit or kill, ends in a clean gate once the sources are buildable.
- `CleanIsFixed`: over a clean gate none of the three changes a file.

### Bounds

`mission_safety`: warm-up 2 ticks, so that the stream can be interrupted inside
it; hold, hover and dwell 1 or 2 units, so that a window can be open across a
pause; telemetry timeout 1, so a sample may be fresh, old or stale; timer gap 1.
Several ticks and callbacks fit into one unit. Two waypoints are the least for
which order, the advance and the end of the route all differ. Ages saturate at
`EntryLimit` and at their timeouts; there is no state constraint. The position
messages put the vehicle into at most one ball at a time and include one
unconverged estimate; the status messages leave out offboard without being armed.

`mission_flight`: one waypoint and one fault. A fault can fall into every phase,
and after it the mission continues from an ordinary state.

`capture_safety`: two visits, which is what the latch tells apart (the same and
another), and up to three captures, so that a visit may come back after another
one, and a failure may stand before, between or after two successes. Windows of
1, so that each buffer may be empty, new, old but fresh, or stale. Two
checkpoints give different file names at one index; the detection arrays include
an empty one and one that starts with a tag no checkpoint has. `MaxPublished`
bounds the messages, nothing else is bounded.

`recorder`: one flight and one later run, which is the second finalizer a bag can
meet; at most one earlier bag, with its sidecar or only with the inputs of one, which
is all the checks tell apart; two failed writes, one for the handler and one for the fallback. Everything
else is finite by itself. The run may end, so deadlock is not checked.

`upload`: two bags are the least with an order and with a seen set that evicts;
two targets, so that the daemon can be sent elsewhere; one retry, so that a send may
fail once and then succeed or fail for good. `MaxRestarts` and `MaxReceiptFaults`
bound the faults that are bounded.

`pipeline`: the target is fixed, since the service watches one directory; retries
are left to the next pass, which is the same for what the service sees. `Defects`
leaves it open whether the first bag in the order ever validates.

`configuration`: two mishaps, so that two edits may hide one another, a kill may
follow an edit, or a hand-touched file a changed source. Three checkpoints, the
gate's minimum, and a fourth that can be added. `Metre = 10` and `Precision = 100`
stand for finer coordinates and the six digits of `%g`: whole metres up to 99
are written exactly, 18.4 m is rounded, 100 m needs an exponent and is refused. Numbers
with leading zeros have up to six digits (`Powers`), in the theorems, too.

### Fairness

`MissionFlight` assumes weak fairness of the timer, of the clock, of the two
required telemetry streams, of the vehicle's movement and landing, of the EKF's
convergence and of the link's recovery: each is a process that keeps running when
nothing stops it. Setpoints and mode, arm and land commands get strong fairness: each
single one may be lost, but what is published again and again gets through
eventually, which is what the code's repetition counts on. Nothing is assumed of
the operator, the battery, outages or gusts; outages and gusts are bounded
because with endlessly many no mission could end.

`recorder` assumes weak fairness of the runner alone: a shell script goes on unless
it is killed, and its waits for the launch group are bounded. Recorder and launch may
hang for good; the liveness properties hold all the same, since the runner kills
them. Its last wait, for the stack, is not bounded, and no fairness is assumed of
the stack: `TeardownEnds` names the condition that it obeys.

`upload` assumes that the daemon's loop goes on (weak fairness of `Pass` and
`Receipt`) and, for each bag and each of its two paths, strong fairness of
`SendSucceeds`: the link may fail for any finite number of attempts, but a path
that is tried again and again gets through eventually, which is what the endless
polling counts on. Nothing is assumed of restarts or of failures. `pipeline` adds
weak fairness of the service's loop.

`configuration` assumes weak fairness of the two generators and of the removal of
orphans: whoever sees the gate fail does what its message says. Nothing is assumed
of authors; `AdviceRepairs` asks only for sources that are buildable from some time
on.

No fairness is assumed of the perception node, whose properties are about safety:
nothing triggers it again for a visit it skipped.

## 4. Proofs

### The mission

Two modules prove every property of `mission_safety`, for every number of
waypoints, every duration, timeout and set of messages allowed by
`MissionConfigAssumption` and `NodeAssumption`. Of the bounds of the run only two
remain: `EntryLimit`, which may be any number not below the durations, and
`MaxTickGap`, the longest time between two timer callbacks, which is any positive
number and occurs in one statement (`TriggersMatchVisits`).

`MissionProofs`:

- `TypeCorrect`: `TypeOK` and `RouteIndexOK`. `TypeOK` alone is not inductive:
  the command a handler returns carries `waypointIndex`, which is a waypoint only
  because the index is valid while the machine is on the route. `TickType` shows
  that `tick()` keeps both; the node's actions are then taken one by one.
- `AbortFinal`: `AbortIsFinal`, which is inductive by itself. In a state with an
  abort on record the guards cannot fire again and only the four handlers of the
  way home can run (`TickAborted`); their commands neither arm nor change mode,
  so `build_vehicle_commands` can only let a landing through.

The theorems about types, aborts and the route hold of the node alone (`NodeSpec`);
history variables do not change them. The others compare the clocks and latches of
the code with the history. Their invariant, `WindowInv`, has four parts, and each property follows from
one of them in one step:

- `WatchCovers`: while the machine is in the state of its previous live tick, the
  entry clock is at most the unbroken run of live ticks. It holds only under
  `lastState = state` and not paused; after a pause the clocks do disagree, and it
  is the reset on the resume edge that keeps the stale one from being read. Gives
  `WaitsObserved`.
- `SettleCovers`: the same for the hold clock and the run in tolerance. Gives
  `HoldsObserved`.
- `HandshakeCounts`: the offboard latch is the record of what was sent, and up to
  the launch the warm-up counter is the number of setpoints streamed. Gives
  `HandshakeKept`. After the launch the two differ, and need not agree: no handler
  asks for the mode again.
- `BatteryTraced`: a low value in the cache is the newest message, connected and
  low. Gives `AbortsJustified`.

`MissionRouteProofs` first sums up what a tick can do to the route (`DispatchMoves`,
`LiveTickMoves`), then shows

- `NodeImplementsRoute`, `ImplementsRoute`: the refinement, of the node and of the
  node with its history. It needs the type invariant, `AbortIsFinal`, and that ABORT
  has a reason and the index is 0 before the route (`RouteInv`). The step is proved
  for `AnyNext`, the node receiving any message of its type at all, so that the
  flight below can use it, too.
- `TriggersMatched`: by `TriggerInv`. Its delicate part, `DwellPending`, relates
  two clocks that different events reset: `_dwell_entered_s` of the node and
  the machine's entry stamp. While the trigger is pending the machine's clock is
  below the settle delay plus the time since the last tick, so a dwell that has
  lasted the settle delay plus a timer gap must have fired.

Every invariant was first checked by TLC on the instance of its run.

### The flight

`FlightProofs` proves what `mission_flight` checks apart from liveness, and what the
vehicle makes of the node's promises, for every mission and every set of telemetry,
from the same two assumptions. Nothing is assumed of the link but that it invents
nothing: what it delivers the latest tick published, and the theorems hold when every
setpoint and command is lost and no message arrives.

- `FlightImplementsRoute`: the mission flown is a patrol. `ImplementsNode` says more,
  that flying is one of the things the open node allows, if the sets of messages it
  was given include what a vehicle reports (`Reports`, `StatusMsg`).
- `DoneDisarmed`: `DoneMeansDisarmed`, if the hold time is greater than the telemetry
  timeout. `DoneDisarmedAtEquality`: the same if they are equal, as shipped, and two
  timer callbacks never share an instant (`TicksApart`). Without `TicksApart` TLC finds
  a violation at equality; with a smaller hold time there is none to prove.

  `LandingInv(lead)` is the argument. While the machine flies the route its cached
  status is armed whenever the vehicle is (it was, when ARMING was left, and an armed
  vehicle reports nothing else). From the abort or the last waypoint on it may be
  wrong only by being old, so the invariant dates it: a status that says disarmed of
  an armed vehicle is at least as old as the hold at home, plus `lead`, the time between
  the abort and the first tick in RTH. When the hold is complete that is more than the
  timeout, and the node runs no live tick on a stale status. It needs `ArmsInArming`: an ARM on its way was published by
  the tick the machine is still in ARMING with, so nothing arms the vehicle later.
- `MotorsStart`: by `ArmsInArming`; no late ARM starts the motors after an abort.
- `RouteIsFlown`: in TAKEOFF, HOVER, WAYPOINT and DWELL the vehicle is armed and in
  offboard mode. `FlownInv` adds that a status once received as such stays true until
  LANDING. PX4 as modelled leaves offboard only to land: a pilot's takeover or a
  failsafe of its own is not part of the model.
- `AbortedFlightGoesHome`: once an abort is on record the only setpoint on its way to
  PX4 is home and the only command is the one to land (`HomewardInFlight`); every live
  tick of the return publishes home again (`HomeRepeated`), so that a lost one is not
  the last; and whatever PX4 accepts from then on is home (`OnlyHomeAccepted`). It may
  go on flying to an older setpoint until one gets through. From `HomeInv`: what is
  on its way is what the latest tick published.

### The perception node

`CaptureProofs` proves every property of `capture_safety` for every set of visits,
tags, checkpoints and detection arrays, all freshness windows and every
`MaxPublished`, from `CaptureAssumption`. `StepKinds` says that a step either
captures a visit that is not latched or leaves files, messages and latch alone;
`EmitEffect` and `CaptureSplit` say what a capture, successful or not, may do.

- `CaptureTypeCorrect`: `TypeOK`, inductive by itself.
- `SidecarsHonest`: by `DiskInv`. `SidecarsTell` alone is not inductive: nothing in
  it keeps the next write away from the files of an earlier capture. `DiskInv` adds
  that a complete sidecar's index is below the current one (so every name about to
  be written is free of complete sidecars) and that each message with a path can
  be read back.
- `TriggersAnswered` and `DetectionsOnce`: by `LatchInv`. The latch is exactly the
  visit of the last message, and a buffered detection arrived since.
- `ImplementsLog`: both invariants; `ArchiveIs` turns the archive, defined by the
  files, into what the messages say of it.
- `EvidenceNeverShared`: no visit is captured twice in a row, from the steps of
  `CaptureLog` alone, and no two messages name the same file, from `DiskInv`.
  `ArchivedForGood`: a message that names a file goes on naming it, and its capture
  can be read back from then on.

### The recorded flight

`RecorderProofs` proves every safety property of `recorder` for any number of later
runs and failed writes, from `RecorderAssumption`. Its invariant adds to the types:

- `FilesInv`: the inputs or the sidecar exist once the recorder was started; the
  handler and the fallback are past their looks only over a finalized bag, and clear
  only when the sidecar is there. Without the last part `NothingStranded` would not
  follow: two writers remove one staging file.
- `TrapInv`: where the runner can be inside and behind the trap; a script that no
  signal has reached ends after it.
- `GroupInv`: a blank `NODE_PID` means that the group is gone, and the runner's own
  teardown reaches the simulator only with a blank one. Gives `SourcesOutlive`.
- `VerdictInv`: an uninterrupted runner looks at the verdict only over a finalized
  bag, and if the fallback found none of this run's, there is an earlier one. Gives
  `VerdictsHonest`, which holds of an output root with or without an earlier bag.

`ImplementsLayout` maps each step to the appearance of one file or to a stutter.

### The pipeline

`UploadProofs` proves every safety property of `upload` for every set of bags and
targets and every bound, from `UploadAssumption` and `SeenAssumption` (a limit of
zero included). `RememberFacts` is the lemma about the bounded seen set: its
length, and that remembering adds nobody else. The properties are inductive together
with `ShippingInv`, which says what the daemon has already done for the bag it is
shipping: complete at home, its directory landed, its sidecar landed.

- `ReceiptsForGood`: a receipt once published goes on naming its target, with the
  whole bag there, through resends, restarts and changes of the target.
- `DirectoriesFill`: each bag of the watch directory behaves as `BagDirectory`, which
  `RecorderProofs` proves of the recorder (`ImplementsLayout`). The two theorems meet
  in that specification: the daemon assumes no more of a bag than the recorder keeps.

`PipelineProofs` composes. `ServiceInv` says that a bag past the service's look has
its sidecar in the landing directory, that one past the duplicate check has no row,
and that every row's bag has landed. `DaemonStep` shows that it survives the steps
of the daemon, because files at a target stay (`LandedGrows` of `UploadProofs`);
`ServiceStep` that it survives the service's own. `ImplementsLog` then follows from `ShippingInv`
(what arrives was recorded) and `SidecarArrivesLast` (what the service sees has
arrived whole): the bag guard of the service is not needed for it.

- `CatalogueAccounted`: one row for a bag at most, and the bag whole at both ends. It
  follows from the steps of `PipelineLog` alone (`LogAccounts`), so it holds of whatever
  implements the log. `RowsForGood`: a row is never taken back, nor its bag.
- `RefusalsJustified`: the guards of `index` raise only for a bag with a defect of its
  own, never for one that is still on its way or sent again.

### The configuration

`ConfigurationProofs` proves every property of `configuration` but its liveness, for
any number of mishaps and from two assumptions on the units: a metre has a power of ten of them
(`MetreAssumption`), and the composer writes some digits (`PrecisionAssumption`).
Every invariant needs documents typed down to their coordinates (`DocumentsOK`), which
one lemma per kind of edit preserves. `MissionEntry`, `PerceptionEntry` and
`MarkerFacts` say that a file without repeated names, or tags, has the entry of each of
its rows in the map, or the world, of each reader.

- `ReadersAlwaysAgree`: the two YAML readers make the same point of a row, leading
  zeros included, and `MarkerNear` compares it with the composer's. `WrittenNear` is the
  arithmetic under it: what `%g` makes of a number is within half a unit of the last
  digit it keeps.
- `CleanGateMeansOnePatrol` needs the range of the generator's version (`VersionInv`),
  too.
- `HoversAlwaysFaceTags`: the frame lemmas are those of `frames.py`: `RoundTrip` (NED and back is the identity), `OriginNeutral`,
  and `YawRoundTrip` for headings.
- `AdviceHelps` and `CleanStaysClean` are about what the gate tells its reader to do,
  and rest on `ToolsInv` (no more than four tags, so that the table is finite; each
  of a model's three files has a version). Over buildable sources the generator,
  the removal of orphans and the composer each establish one part of a clean gate and
  spoil none of the others, in whatever order they run, and the composer can run once
  the models are there. `TagsDistinct` is a pigeonhole argument: n rows whose tags are all of
  0 .. n - 1 repeat none. `CleanStaysClean` is `CleanIsFixed`: over a clean gate the
  tools change nothing.

### Beyond the prover

Left to TLC are the eight liveness properties, since fairness and `ENABLED` are outside
the prover's reach: `FlyingMissionEnds`, `MissionLaunches`, `TeardownEnds`,
`FinalizedIsPublished`, `BagsArrive`, `BagsAreIndexed`, `PipelineSettles` and
`AdviceRepairs`. Of the last the steps are proved (`AdviceHelps`); that the tools get
to run is its fairness. Every other property of a passing run is a theorem.

## 5. What the model found

1. **A momentary abort can be lost** (`claim_abort`). `_on_abort` overwrites the
   cached value with each message. The latch the comment of `node.py:158-159`
   relies on is in the state machine, which sees the value only on a live tick. A
   True followed by a False before that tick, or during a telemetry pause, leaves
   no trace.
2. **The settle clock of the capture trigger runs through pauses**
   (`claim_dwell`). `reset_timing()` restarts the machine's windows, but not
   `_dwell_entered_s` of the node, so the first live tick after a blackout may
   fire `/patrol/dwell` at once, contrary to `node.py:166` and `node.py:176-177`.

3. **An orphaned image can stay** (`claim_orphan`). The comment at
   `capture_writer.py:72-74` says the write after a failed one overwrites the
   orphaned PNG, because it reuses the index. The name holds the checkpoint, too:
   after a partial write for one checkpoint, a capture of another at the same index
   leaves both, `000_cpA.png` without a sidecar and `000_cpB` complete. No message
   names the orphan.

4. **A failed recording can be published** (`claim_failed`). The exit handler refuses
   the sidecar of a recorder that exited with an error and leaves the staging file.
   The runner's fallback finds a finalized bag with staged inputs, does not know how
   the recorder ended, and writes the sidecar, contrary to
   `record.launch.py:122-124`.
5. **A bag can be shipped at every poll** (`claim_once`). After a change of target
   the old receipt is not one for the new target, so the bag is shipped; then the
   new receipt cannot be published over the old one, and the next poll ships the
   bag again. The docstring at `__main__.py:141-146` says each bag is uploaded
   exactly once.

Observed on the bag and configuration side, without a run of its own:

- A runner interrupted by INT or TERM goes on after its trap. With
  `PATROL_ASSERT_BAG=0` it can then report success without an ingestable bag,
  because the graceful stop and its checks were skipped; and it ignores any further
  signal. `VerdictHonest` names the condition.
- A run whose recorder finalized nothing reports success if a finalized bag of an
  earlier run lies in the output root: `run_patrol_world_sitl.sh:305` and `:594` ask for
  the first finalized bag there, not for this run's.
- The teardown can wait for ever: `run_patrol_world_sitl.sh:354` waits for every child
  after one SIGTERM each, with INT and TERM ignored.
- The drift gate passes `x: 012`, at which the world has its marker at 12 and the
  mission flies to 10: the composer reads the text as decimal, PyYAML as octal, although
  `check_world_drift.py:8` says that marker positions are those of `checkpoints.yaml`. A
  `tag_id: 010` is 10 to the composer and 8 to perception in the same way.
- The drift gate passes files that keep perception from starting: a bare list, an
  unquoted id of digits, a coordinate written `1e0`. The gate reads the file with
  the composer's own line reader, the nodes with PyYAML.
- The composer's guard looks for a model's directory only, so it renders a world
  over half-written models; the gate's model check is what notices.
- A bag behind a foreign file in its receipt's place is shipped at every poll, too,
  which `PipelineSettles` excludes.

Observed on the flight side, without a run of its own: an abort on the ground leaves
the machine in RTH for good, because no handler after ARMING asks for arming or
offboard; the warm-up count survives a pause although `node.py:55-57` wants a
continuous stream; `topics.py` and the comments in `_dwell` and in the node's
constructor still describe the trigger as a rising edge; `config.py:47-49` says
the low-battery threshold is not enforced, while the machine enforces it; a frame that
`cv2.imencode` refuses ends the perception node, and the launch files do not
restart it; only the first detection of an array is looked at, so an unmapped tag
listed first hides a configured one.

## 6. Plan

Done: the mission node and its flight; the perception node; the recorded flight;
the upload daemon, the ingest service and their pipeline; the configuration and its
gate; theorems for every one of them. What is left, in order of worth:

1. **PatrolCapture**: mission node and coordinator over the `/patrol/dwell` queue.
   A capture of a visit shows that visit's checkpoint, under the conditions on
   windows, detector delay and settle time it needs; what a skipped trigger costs.
   Two listed hazards wait for it.
2. The manifest's read-only queries and the reader of `metadata.yaml` as operators
   against reference definitions, with the resolution of declared payload paths.
3. The toolchain manifest checks as predicates over versions.

## 7. What is not modelled

- In the flight: keepalive messages, logging, yaw and coordinates, on which no
  property of the flight depends.
- The scaffold guards for manual takeover and timeout are in the machine but the
  node never sets them; the model keeps both facts.
- A clock that jumps backwards, a multi-threaded executor, a Python exception in
  a callback other than the encoder's.
- The other launch files, toolchain manifests, the verifiers and the other runners,
  CI, vendored PX4 packages: one-shot or third-party. How the patrol runner brings
  the simulator up is one step that may fail; its numeric guard on `FINALIZE_WAIT`
  and the run-id plumbing are left out.
- The fields of a sidecar and the parsing of `metadata.yaml`: a bag's facts derive,
  fail for good or fail for the moment. The manifest's read-only queries.
- Symbolic links, which the bag side refuses and which count as absent;
  the resolution of declared payload paths; the validation of `--target`; rsync and
  ssh beyond their outcome. Bags and receipts removed by hand.
- In the configuration: the camera-topic comparison of the gate, the pixels and the
  SDF text, and YAML features other than the listed spellings: integers in base 2, 16 or
  60, which only the two YAML readers take, both alike. Mixed spellings within
  one position, and coordinates with a leading zero and a fraction. A tie of the
  composer's rounding goes away from zero. Of `frames.py` the quaternion and the
  takeoff target.
- A restart of the perception node: nothing restarts it, and a new run has a new
  directory.
- The components of the plan, for now.
