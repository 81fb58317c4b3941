# Cornhole Motion — a TLA+ verification project

The repository drives a cornhole board that moves under a thrown bean bag: a depth
camera tracks the bag, a ROS 2 node predicts where it lands, and one of several motor
controllers moves the board there. This directory holds TLA+ models of that program,
the TLC configurations that check them, and TLAPS proofs of the properties that matter
most. Paths below are relative to the repository root (`src/` in `PROJECT.json`).

Short names: `INO` is `arduino/omni_bldc_firmware/omni_bldc_firmware.ino`; `SUB` is
`src/arduino_serial_com/arduino_serial_com/omni_pwm_subscribe.py`; files of the camera
driver and of the MQTT bridge are named without their directories
(`src/realsense2_camera/src`, `src/realsense2_ros_mqtt_bridge/src`).

## 1. The system

### Components, their state and operations

| Component | State | Operations | Hard parts |
|---|---|---|---|
| **Bean bag tracker** (`ros2_bag_sense_fast.py`) — camera to trajectory | `state` (WAIT, IDLE, COLLECTING), points, `_pending_keyboard_reset`, time of the last publication | image callback, poll timer, stdin threads | threads that share a pending flag; the cooldown |
| **Tracker subscriber** (`SUB`) — trajectory to a drive line and a later stop | `stop_timer`, serial port | `listener_callback`, `timer_stop_callback` on a multi-threaded executor | the callbacks race, statement by statement |
| **Motor move firmware** (`Ardiuno_Motor_Move_New.ino`) — lines of four values to pins | line buffer, `lastDirForward`, pins | `processSerialLine`, one motor after the other | no watchdog; a 16-bit cast |
| **Omni BLDC firmware** (`INO`) — closed-loop controller of four wheels | line buffer, mission and its timers, pulse counters, output shadows, pins | `loop` (drain UART, control tick, status), interrupt handlers | bytes and interrupts at any point; wrapping clocks and counters; a reversal is a timed pin sequence |
| **Mecanum firmware** — timed pulses and raw wheel commands | command buffer, pulse settings, `lastCommandTime`, `rawMotorsActive` | `processCommand`, `executePulse`, watchdog | the watchdog against the stream of commands; a pulse blocks everything |
| **Omni kinematics node** — target to wheel commands | latest target and its time | `target_callback`, `control_loop` | stale targets, saturation |
| **Serial motor bridge** — ROS topics to a serial line | wheel command, target, one `last_cmd_time`, safety stop, connection, `_last_tx_line` | three subscriptions, `io_loop` | link failures, timeouts, a STOP sent once |
| **RealSense camera driver** (`realsense2_camera`) — parameters, sensors, topics, hot plug | parameters and what they stand for, update flags, open profiles, publishers, `_device` and the node | parameter callbacks, a thread that sets parameters back, the monitoring thread, `hw_reset`, query thread, `changeDeviceCallback` | five threads and almost no common lock; devices that leave at any time |
| **Camera diagnostics** (`diagnostic_updater` as the camera uses it) | the updater's task list, frequency windows | start and stop of a sensor by the monitoring thread, stop by `hw_reset`, frames, the updater's timer, the end of the node | objects that enter and leave a list by name, in two threads; a node destroyed in a process that lives on |
| **Diagnostic aggregator** (`diagnostic_aggregator`) | analyzers, their items, the match cache, last top level | status callback, publication timer, change of parameters | what a failed analyzer leaves behind; stacked timeouts |
| **MQTT bridge** (`realsense2_ros_mqtt_bridge`) — requests of MQTT clients to ROS | tables of clients, subscriptions, goal handles; a future being waited for | a handler per kind of request; callbacks of futures, images and results | two threads share the tables; calls without timeout; a broker that forgets |
| **Camera services and calibration** (`safety.cpp`, `actions.cpp`, `rs_node_setup.cpp`) | pending reply, goals, a reset to come | service handlers, a thread per goal | the device resets while it is asked |
| Motor telemetry node, earlier trackers, host tools, bench sketches | — | parse and print | — |
| `cv_bridge`, `self_test`, `diagnostic_remote_logging`, `diagnostic_common_diagnostics`, `realsense2_rgbd_plugin`, messages and descriptions | vendored ROS packages | — | conversions, displays |

### How they interact

    camera driver --images--> bean bag tracker --/bean_bag_trajectory--> tracker subscriber --serial--> motor move firmware
         |                    omni kinematics node --/motion/wheel_cmd--> serial motor bridge --serial--> mecanum firmware
         |                    host tool --serial--> omni BLDC firmware
         +--/diagnostics--> diagnostic aggregator --> /diagnostics_toplevel_state
         +--services, topics, actions--> MQTT bridge --MQTT--> clients

ROS queues of depth 1 keep the last message, a serial link has a small receive ring and
goes away when the cable does, an MQTT broker forgets a client that was cut off. Inside a
firmware the only concurrency is interrupt handlers and the UART; inside a node it is its
executor and the threads it starts.

### What makes each component correct

* **Throw** (tracker, subscriber, sketch). No capture is dropped, Enter always arms again,
  the wheels do what was last written and rest before the next throw can come.
* **Omni BLDC firmware.** F/R never moves on a live output stage; the shadows never drift
  from the pins; a stop reaches every wheel. A mission ends once, in bounded time, with one
  verdict of its own and no wheel driven; the mission run is the mission sent; STOP stops.
  No pulse of a mission is lost or counted twice.
* **Motion** (kinematics node, bridge, mecanum firmware). Wheels stop when commands stop
  coming, whatever part of the chain died; a safety stop reaches them; wheel commands beyond
  full scale keep the heading that the limits of the axes leave.
* **Camera.** No change of a parameter is lost; the streams and topics served are those
  wanted; a value that no profile has does not stay, whether a user or the launch set it; a device on
  the bus gets its node, if only half of one when setup throws what nobody catches.
* **Diagnostics.** The list of tasks names no stream whose object is gone, until a reset
  meets a start or stop of the sensor; every status is with the
  analyzers that match it; a stream that fell silent shows at the top level in time.
* **Remote.** A request is answered at most once and no progress follows the answer; it is
  answered if the camera can do what is asked, unless the camera left, the bridge is stuck or
  calibrations of one camera got mixed up; an abort takes up the goal that the bridge knows to
  be accepted and cancels no other.

`PROJECT.json` lists the hazards behind these, each at its line, with the properties that
cover it.

## 2. Modules

| Module | Models | Runs |
|---|---|---|
| `BldcDriver`, `BldcWheels` | pin sequences of `applyWheelCommand` and `stopAllMotors` | `driver` |
| `BldcFirmware`, `MoveService` | `loop()`: framing, missions, control period, timeout; and what it promises its host | `mission`, `framing`, `no_newline` |
| `BldcOdometry`, `BldcWheels` | pulse interrupts against the code that reads the counters | `odometry` |
| `SerialBridge` | the ROS node in front of the mecanum firmware | `motion`, `bridge_lost_stop`, `bridge_mecanum` |
| `OmniKinematics`, `Motion` | the kinematics node; EXTENDS `SerialBridge`, INSTANCEs the node | `motion` |
| `MecanumFirmware`, `BridgeMecanum` | pulses, raw commands, watchdog; EXTENDS the firmware, INSTANCEs the bridge | `bridge_mecanum` |
| `BeanBagTracker`, `TrackerSubscriber`, `MotorMoveFirmware`, `Throw` | the three programs, and all of them on one clock | `throw` |
| `CameraParameters`, `CameraNode`, `Camera` | parameters and profiles; the node that EXTENDS them; the process that builds and destroys the node | `camera` |
| `CameraDiagnostics`, `Aggregator`, `Diagnostics` | updater, aggregator, and both on one clock | `diagnostics` |
| `MqttBridge`, `CameraServices`, `RemoteCamera`, `RequestReply` | the bridge, the cameras it asks, both together; and what a client sees of a request | `remote` |
| `MC*` | instances for TLC | |
| `*_proofs` | theorems and their proofs | |

The three models of the BLDC sketch meet at `stopAllMotors` and `applyWheelCommand`:
`BldcFirmware` takes them as one step each (a wheel is driven or not), `BldcDriver` opens
them pin by pin, `BldcOdometry` keeps of them only that F/R may move. `BldcWheels` holds
what these last two have in common: the wheels and their F/R lines.

### BldcDriver

State: the four lines of every wheel as levels (`en`, `fr`, `bk`, `sv`), the shadows
`lastDirForward`, `lastEnOn` (`lastSvDuty` always has the value of `sv`, written by the
same statement pair, and is not kept apart), the loop index `i`, and the position `pc`
of the running call. `energised` is the environment: the wheels whose output stage may
still be live, which EN on adds to and only the 5 ms delay after EN off empties. Each pin
write is an action, named for what it writes. `ApplyCommands` is
`applyInverseKinematics` handing a command to every wheel, with any request: the floating
point that computes it is abstracted to the set `Requests`. The initial state is the one
`setup()` leaves.

### BldcFirmware

One pass of `loop()` is `pc = "drain"` (one action per byte read, each standing for the
whole handler of that byte, `tryProcessIdleLine` included), `pc = "control"`
(`NoTick`, `Steer`, `Done`, `TimedOut`: the `if` at `INO:923` with all of
`runControlTick`), and `pc = "status"` (the last `updateStatusOutputs`). Between any two
of them the host may `Send`, a byte may `Arrive` or be lost (`Overrun`), and a
millisecond may pass (`Tick`).

Data: a byte is a member of `Symbol`. `"d"` stands for any digit, `"x"` for a byte no
number has, and the words `STOP` and `PING` (`HELP` and `STATUS` behave alike) for
their letters: what the properties tell apart is whether a line is a word, a pair of
numbers, or neither. `Consumes` is `strtod`'s longest numeric prefix, `ParsesAsPair`
is `parseCommaPair`, `IsCompletePair` is `omniCommaMoveLineComplete`; signs, exponents
and blanks are left out. The goal of a mission is kept as the text it was parsed from, so
that it can be compared with what the host sent. The PID's arithmetic is abstracted to its
outcome: any set of wheels is driven, the wheels are at the goal or not. Bytes read while
a line is a PING or garbage change nothing else, as in the code. `now` is one reading of
`millis()` per check; the code reads it twice (`INO:530`, `INO:920`) within one tick.
The periodic telemetry (`INO:944-982`) prints and resets its own timers only and is left
out. The debug prints are left out too, though they are compiled in (`INO:133`, `INO:175`):
all they change is how long a handler takes. A refused line prints about 105 characters,
some 9 ms at 115200 baud, longer than a short line takes to arrive; the bound `MaxPass` on
one pass of `loop()` is therefore an assumption about the host as well, and nothing is
assumed about when a host that keeps sending lets the drain end.

History variables: `moveAge` is the true age of the running mission (against the wrapped
difference the code computes), `afterStop` remembers that the last byte read ended the
word STOP.

`MoveService` is the abstract specification: a mission is accepted when none runs, wheels
are driven only while one runs, it ends with one of three verdicts and with the wheels at
rest in the same step, and every other line leaves mission and wheels alone.
`BldcFirmware` implements it with `busy <- moveState = "MOVING"` and
`driving <- driven # {}`.

### BldcOdometry

State: `pgPulseTotal` (`total`), the interrupt flags, `noInterrupts()` (`masked`),
`pgSnapPrev`, the local copy of a tick, and the travel of each wheel as two counts of
pulses (`fwd`, `rev`) instead of a signed length. An AVR reads an `unsigned long` byte by
byte; here a counter has two halves, which is enough for a torn read. `Isr(w)` may run
between any two steps of `loop()` unless interrupts are masked; an edge that comes
meanwhile is latched, one per wheel, as the hardware does. `Isr` is bounded in two ways:
`MaxSeen` pulses per mission, for TLC (the proofs put no bound on it), and fewer pulses
between two ticks than a counter can count, which at 32 bits and 20 ms is physics.

### MecanumFirmware

One pass of `loop()` is `pc = "drain"` (one action per line read, each the whole of
`processCommand` for that command) and `pc = "watchdog"`. `executePulse` is two actions
around its `delay`, during which lines arrive and time passes but nothing else happens.
A line is a record of its word and its numbers, received whole or not at all: bytes, the
64-byte buffer and the two line ends are left out, and so are the encoder counters, which
no decision reads. A number goes through AVR's 16-bit `atoi` (`Number`), which wraps. A line
`m` that is too short is no error: the values it lacks are the zeros `vals` was made with
(`mecanum_firmware.ino:198-204`), and the motors they are for stop. `lineAge` is a history variable, the true age of the last line, against
which the wrapped difference of the code is judged.

### SerialBridge

`rclpy.spin` runs one callback at a time, so a callback is an action, and so is an
`io_loop`, divided by how far it gets: the port stays closed (`IoDown`), a read fails
(`ReadFails`), the STOP is a duplicate (`SkipStop`), the line is written (`Write`) or the
write fails (`WriteFails`). The port may go away at any read or write and come back at any
attempt to open it, which the code spaces by `Reconnect`. A `SerialException` is the only
failure; another exception ends the node, and for the firmware that is a link that stays
down. The node compares times only with thresholds, so times are ages that saturate; the
clock of the node does not wrap. Targets are numbered, and number 0 is the initial
distance and angle of zero. The parameter `command_mode` is read anew by every `io_loop`
and may be set at any time (`SetMode`); it ranges over `Modes`. `restAge`, `delivered` and
`lost` are history: how long a safety stop or the timeout has lasted without a break, the
last line that really went out, and whether the line after it was lost.

### BridgeMecanum

The firmware's receive ring is what the bridge writes, and the time a line takes is part of
the lateness of the `io_loop` that wrote it; time is common. Until the bridge opens the
port the firmware is on a bench: any host sends it any line, pulses included, and what it
leaves behind is what the bridge finds. Opening the port resets an Arduino whose DTR line
is wired to reset, which would stop the wheels sooner; the model does not count on it.

### OmniKinematics and Motion

A target is the body command it comes to, before the clamps: the trigonometry is left out,
the clamps, the common scale and Python's rounding to even are kept, over whole multiples
of a small unit. In `Motion` what the node publishes is the bridge's wheel command, clamped
to the bridge's own limit; `Exit` is the end of the node's process.

`HeadingKept` compares the line that went out with the targets themselves. Two things in the
code do turn the robot, and the property says where they end: `to_body_command` cuts vx, vy
and omega each by itself (`omni_kinematics_node.py:108-110`), so that a target beyond the limits moves on the
heading of the target cut to them and not on its own (the second target of the run), while
a target within them keeps its own; and the bridge cuts each wheel at 255 by itself, which
does nothing so long as `max_wheel_cmd` (255 by default) is not raised above that, and the
property promises nothing if it is. The bridge keeps one
`last_cmd_time` for wheel commands and targets, so a target on its own topic starts the
measure of `StaleTargetStops` again. Its `Grace` is the node's next tick or the
bridge's timeout, whichever is shorter, and one `io_loop`; only the timeout counts once the
node has died.

### BeanBagTracker, TrackerSubscriber, MotorMoveFirmware and Throw

In `BeanBagTracker` a frame with a bag is a choice, and so is the verdict on a fit: published,
refused by the cooldown, rejected. `Enter` ends the wait of a stdin thread; the thread then
sleeps for what is left of the cooldown and sets the pending flag the poll timer looks for.
In `TrackerSubscriber` every statement that touches the line or `stop_timer` is an action of
the thread that runs it; `cancel()` on None sets `crashed`, which ends `executor.spin()`. The
wheel commands are computed from the message as `pwm_from_body_velocity` does, over integer
sines and cosines. `MotorMoveFirmware` takes a line as what `strtol` makes of it, casts to 16
bits, clamps, and moves the motors one after the other. In `Throw` an operator may type lines
at the sketch until the subscriber opens the port, which resets the board; `lag` bounds how
long a due statement waits.

### CameraParameters, CameraNode and Camera

`CameraParameters` holds the profiles a sensor lists, the choice of defaults
(`DefaultProfiles`, `DefaultValues`, `DefaultFormat`), what the two callbacks accept — a
format of the stream, but width, height and rate of any profile of the sensor — and which
profile is opened (`WantedProfile`, 0 when no profile has both). A rejected value is queued
for the thread that sets it back, in two steps: it first marks the parameter, so that the
callback leaves the coming set out, then sets it. A user's set may come in between. What
the launch gives (`Overrides`) is played back by `setParam` as the parameter is declared
(`dynamic_params.cpp:156-166`): it goes through the same callback, so that a value no profile
has is in the server, at every start of a node, until the thread has set it back.
`rs_launch.py` gives `0,0,0` for every profile. Overrides are among the values users set; one
of the wrong type throws in the declaration and is left out.

`CameraNode` has the executor's callbacks, each storing its value and then waiting for
`_profile_changes_mutex` to set its flag, the monitoring thread that keeps that mutex except
while it waits, and `updateSensors`, one action per sensor and pass (`at` counts both
passes). `active` is the index of the open profile. Streams and `align_depth` given at
launch (`LaunchEnabled`, `LaunchAlign`; `LaunchOther` for the infrared streams, which the model
leaves out but whose flag is the same) have set their flags before the monitoring thread is
started, and it then updates beside `setup`. `hw_reset` stops the sensors without the
lock that updates take. `slipped` is history: the streams that an update can no longer give
topics to, because they stopped being wanted while it ran or because it threw. `Camera` adds the device on the bus, the query thread, librealsense's
callback thread, and `startDevice` in either. An exception of `setup` other than
`backend_error` is not caught there (`realsense_node_factory.cpp:497`): it leaves a node with
its monitoring thread and parameters but without `hw_reset` (phase `half`), `_device` stays
set, and no thread tries again until the device has left and returned. Where one thread destroys the node another is
in (`NodeUnderfoot`, `ClosedUnderfoot`), or a revert finds its parameter undeclared
(`SetBackThrows`), the model ends: `terminated`.

### CameraDiagnostics, Aggregator and Diagnostics

The updater's task list is a sequence of names and objects. A stream is entered twice, by a
temporary and by the copy that the map keeps, and leaves by name. Two threads do this: the
monitoring thread starts and stops the sensor under `_update_sensor_mutex`, and
`handleHWReset` stops it on the executor without that lock (`rs_node_setup.cpp:611-626`), in
the middle of a start if it so happens (`Reset`, `Clear`, `ResetReturns`). `clashed` is history:
both have been in the sensor at once. The node may end with its process (`Die`) or be
destroyed in a process that lives on (`Close`, `MembersGo`, `Dispose`), as a reconnection does;
its task Temperatures, which captures the node, stays in the updater until the last sensor lets
go of it. `TasksAlive` is that before any such clash no task refers to an object that is gone,
the node's own in that last moment apart, and that the list lacks no stream that runs. An
update that comes to a task whose object is gone (`UpdateDead`) ends the model: `dead` names
the task. Two things are taken as the build has them or are left open: an `emplace` that finds
its key taken makes a copy and drops it in libstdc++ before GCC 12, and makes none since
(`KeyTaken` allows both); two threads in one `std::map` are a data race, of which only the
orders of its steps are followed. A `hw_reset` that is being served while the node is
destroyed is in `Camera` (`ClosedUnderfoot`) and not here.

`Aggregator` keeps what an analyzer whose `init` failed leaves behind, its type and its path,
with which the next namespace is tried first and which may cost it the trial of its own type
(`analyzer_group.cpp:86-171`; it depends on whether a path is left behind and on whether the
namespace has a parameter before `path`, `Early`), groups, the cache of matches, the ages of
items and the roll-up of levels. The publication timer runs on by itself (`aggregator.cpp:85-88`): what is published at
once for a critical error does not put it off. `Diagnostics` composes them through the depth-1 publisher of `/diagnostics`. `silent`
is history: how long a stream has been without a frame that counts, told from when its
task was entered, new parameters came or the analyzers first heard of it. Before that they
hold no item of the stream, and an item that is not there cannot be stale.

### MqttBridge, CameraServices, RemoteCamera and RequestReply

`MqttBridge` has the loop thread of the MQTT client (`pc`, `cur`, `held`: one handler at a
time, broken where it waits for a service or an action server, and where the executor can
change what it has read) and the executor's thread, with the tables they share. Kinds of
request that are handled alike are one kind. An exception in a handler ends the loop thread
(`pc = "ended"`), one in an executor callback the process (`up = FALSE`). `CameraServices`
answers, resets after the answer, and runs every goal in a thread of its own; the progress of a
goal is published (`Progress`) and heard later (`HearProgress`), after the result too. A
`bad_index` raises where `int(index)` does, after its service was found
(`safety_preset_handler.py:40-45`). `RemoteCamera` composes them with the broker and cameras
that come and go; only a camera of `Streaming` publishes the images asked for.
`RequestReply` is a client's view, and `RemoteCamera` implements it; progress that is told
after the answer is the phase `taken back`, which no step of `RequestReply` reaches.

The tables of clients and goal handles have one place for each camera, and calibrations of a
camera that are not over when the next one begins share it. History tells them apart:
`overlapped` are cameras with a calibration begun while the camera still had something to
tell of another, `hurried` those with one begun after the answer to another, whose client and
handle were still to be cleared (`triggered_calibration_handler.py:86-92`). Of a camera that
is neither (`Orderly`) `AbortReaches` says which goal an abort takes up: the one the bridge
knows to be accepted. That is less than the client is told: an abort that is read before the
acceptance of the goal has been heard (`triggered_calibration_handler.py:58`, `:118`) is
answered that no goal is in progress, while the camera calibrates.

## 3. Runs

Bounds are in the `.cfg` files. Deadlock is checked except in `camera` (the process may
terminate), in `diagnostics` (which ends when an update calls a task that is gone) and in
`remote` (requests are bounded, and threads may end).

| Run | Question | Instance, and why it is enough |
|---|---|---|
| `driver` | Do pins, shadows and the reversal sequence survive every mix of calls? | two wheels (one mid-sequence while the other is not reached), requests on both sides of the floor, of full scale and of zero |
| `mission` | Are missions bounded and honest about their verdict? Do they all end? | `FairSpec`; a clock of six milliseconds, which wraps within a mission; period 2, timeout 2, hold 2; a host that types without newlines, a ring of one byte and a buffer of four, so that overrun and overflow are frequent; one wheel, since no property tells wheels apart |
| `framing` | With newlines, do early acceptance and leftovers change a distance, swallow a STOP, break the service promise? | angles of one and two digits, so that a tail is left when the mission starts; PING and garbage; untimed, so every check may tick: more orders of events than the clock allows, never fewer |
| `odometry` | Is any pulse lost or counted twice? | counters of two halves that wrap after four pulses, two wheels, two pulses each per mission |
| `motion` | Do safety stop, timeout and a stale target reach the line through link failures, mode changes and dead nodes? Is the heading kept? | all periods 1 and the bridge's timeout 2, so that they overlap in any order; both modes; one full scale (3) for both, as by default, two aims that saturate it, one of them beyond the limits of its axes |
| `bridge_mecanum` | Do raw commands run under the watchdog, do pulses follow the kinematics, do wheels rest when a node, the link or the safety input dies? | bench, then robot; numbers of −4..3, and on the bench one beyond them, which wraps, and an `m` line that is too short; a clock that wraps every three milliseconds; the watchdog only as long as an `io_loop`, harder than the 500 ms and 20 ms of the code; the reconnection just longer than any drive without a line (`PacedAssumption`); a ring that may still be full when a line comes, which `ComesToRest` excludes |
| `throw` | From frames and Enter to the pins: is any capture lost, does the chain do what was asked and rest in time? | two calls, two timers, two stdin threads; full scale 2 and ints of −4..3, with a landing that comes to ±3, and one in the hole; the cooldown just beyond twice `stop_after` plus the lag (5 s against 1 s in the code) |
| `camera` | Is a change lost, a device forgotten, an invalid value left? | depth and color; values that only another format has, values no profile has, an unknown format, no default profile for color; `0,0,0` for depth, aligned depth and the flag of the infrared streams given at launch, so that with every start of a node a revert is queued and an update under way; any two inputs more, which reach such an update, a reset and an unplugged cable at once |
| `diagnostics` | Are tasks alive, statuses routed, silences shown in time? | one stream and the temperatures; window 2, timeouts 1 and 2; three configurations: a broken analyzer between two, one beside a group, one that loads nothing; any four of starts, stops and resets of the sensor, ends of the node or of its process, and new parameters, which reach a reset in the middle of a start after a restart; one frame in a unit of time, the expected rate; it ends at the call of a task that is gone. `Horizon` is tight: one unit less and TLC finds a silence not yet shown |
| `remote` | Is every request answered once, and each abort right? | two cameras, one with a safety sensor, the other with its stream on; every pair of eleven kinds of request, the triples of two calibrations and an abort, and two requests for an image of the stream that is off; three requests, lost connections and departures together |
| `no_newline`, `bridge_lost_stop` | the two findings below | the smallest instance that shows each |

The type invariants of `BldcDriver`, `BldcOdometry` (`OdometryTypeOK`), `SerialBridge` and `MecanumFirmware` and
`MecanumFirmware`'s `WatchdogArmed` are proved for every instance and not checked again.
That `BldcFirmware` implements `MoveService` over a line that loses bytes is the theorem
`ImplementsService`; the run checks it on a line that does not.

### Fairness

* `BldcFirmware`, `FairSpec`: weakly fair to reading a byte, the control check, the status
  update and the clock, since the processor runs `loop()` for ever, and to the end of the
  drain. That one is weak on purpose: `available()` is tested only after a whole handler has
  run (`INO:874`), and a handler that prints a refusal lasts longer than the next short line
  takes to arrive, so a ring that is empty again and again need not be empty when it is
  tested. Nothing makes the host send or pause: `MoveEnds` says what happens once the host
  is silent, and a host that goes on sending may keep a mission running, because the
  timeout is tested only after the drain.
* `Throw`: threads, timers and the sketch run on. Frames, Enter and the operator need not come.
* `Camera`: each thread's actions are weakly fair, and a device that was reset comes back.
  Users, cables and errors need do nothing.
* `RemoteCamera`: the loop thread, the executor's callbacks, the cameras' services and goals,
  reconnecting and sending. An image comes only of a stream that is on: infrared is off by
  default (`rs_launch.py:43-44`), and a request for an image of a stream that is off is never
  answered, without a timeout, while every later one is rejected as in progress
  (`frame_handler.py:97`). `RequestsAnswered` promises nothing there. Progress of a goal need
  not be made nor heard; requests, lost connections, departures and arrivals need not happen.
* `Diagnostics` needs none: `SilenceShown` bounds the time.

### Findings

1. `no_newline` — a move starts at the first digit of its angle (`INO:909`); the rest is read
   while MOVING, and if the move had no newline, which the banner allows, those leftovers are
   glued to the STOP that follows, which is refused (`INO:897`). They also become the head of
   the next distance when the mission ends by itself, since neither DONE nor TIMEOUT clears
   the buffer (`INO:645`).
2. `bridge_lost_stop` — a STOP whose write fails is remembered as sent
   (`serial_motor_bridge_node.py:158`), and after the reconnection it is skipped as a
   duplicate for as long as the stop lasts.

What `bridge_mecanum` shows is related. The bridge's stop line is `STOP`; the mecanum
firmware's emergency stop is `s`, and it ignores a `STOP`. The wheels come to rest after a
safety stop only because the bridge then falls silent and the watchdog fires. But any line
refreshes the watchdog, known or not (`mecanum_firmware.ino:131`), so up to two STOPs put
it off, and `WheelsRest` therefore allows three watchdog periods: with two, TLC finds it
violated. If the bridge repeated its STOPs, which would mend finding 2, the wheels would
never stop: a fix has to change both sides.

### Facts met while modelling that no run is about

The models follow the code in all of these, and the properties say what holds in spite of
them.

* **A task that is gone is called.** `handleHWReset` stops the sensors without the lock
  (`rs_node_setup.cpp:611-626`). If the monitoring thread is in `start` meanwhile, its stream
  has been copied into `_frequency_diagnostics` and the temporary is still there
  (`ros_sensor.cpp:267-272`), `clear()` (`ros_sensor.cpp:281`) destroys the copy but removes by
  name the temporary's entry, and the copy's stays until the temporary goes. If instead the
  stream is copied after the `clear()`, it stays registered in a sensor that is stopped; the next start
  finds the key taken, and the copy that is made and dropped leaves its own entry behind. An
  update then calls an object that is destroyed, against `diagnostic_updater.hpp:266-268`
  ("It must remain live at least until the last time its diagnostic method is called"). A node
  that is destroyed in a living process leaves its task Temperatures
  (`base_realsense_node.cpp:1373`), and an update between the end of the destructor's body and
  the end of the updater calls that. Both are `UpdateDead`.
* **An abort that comes early is lost.** It looks only for the handle of an accepted goal
  (`triggered_calibration_handler.py:118`), which is stored when the acceptance has been heard
  (`:58`). Before that it is answered, with success, that no goal is in progress, though the
  comment of line 117 says "check if there was a pending goal"; the calibration goes on.
* **A calibration asked for on the answer to the last is lost.** The result is published
  (`triggered_calibration_handler.py:86`) before the client of the camera is destroyed and
  forgotten by name (`:90-92`). A request that the loop thread reads in between stores its new
  client (`:141`), which the executor destroys or replaces by None: the loop thread ends, or the
  new goal's result is never heard, though the package's `README.md:579` promises a message on
  every progress update. A calibration begun during another takes its place in the same way.

* **The tracker's pair is taken for a velocity.** It publishes distance and angle
  (`ros2_bag_sense_fast.py:414`). The subscriber reads them so only with `--stdin` or
  `--distance` (`SUB:161`); started as `README.md:68` says, it takes any two numbers for vx
  and vy (`SUB:181`), so the angle in radians becomes a speed. `Throw` sends the pair through
  that formula; `CarriesOut` is about what was written, not about where the board should go.
* The angle of a move is cut at its first digit (`INO:909` against the header, `INO:16`). A
  tick's pulses are signed by F/R after it may have been switched (`INO:552`). A zero command
  grounds BK before EN is dropped (`INO:418`).
* The motor move sketch has no watchdog, and `executor.spin()` stands outside the `try`
  (`SUB:422`): Ctrl-C or an exception leaves the wheels running. COLLECTING has no timeout,
  so one fit may use points of two throws.
* Camera: after an update for align_depth has taken a stream's topics away, a stream that is
  disabled, or set to what it cannot open, before they come back stays active without topics
  (`slipped`; the comment at `base_realsense_node.cpp:237` knows the pattern). An update for
  align_depth that throws at one sensor's start leaves the streams of the other sensors
  active without topics, its flags cleared, and a later change of a profile does not give
  them back (`rs_node_setup.cpp:66`, `rs_node_setup.cpp:491`): the proof of `ServesWanted`
  met this one, which takes one input more than the run has. The profile
  callback accepts values of another stream or format of the sensor
  (`profile_manager.cpp:471`); the stream then does not open. `_update_functions_v` is pushed
  to without its mutex. A revert of a parameter that was undeclared meanwhile throws in a
  thread, which ends the process; one that comes late overwrites a newer valid value. A device
  that leaves between the query and `set_devices_changed_callback` is never noticed
  (`missed`). An exception of `setup` that is no `backend_error` leaves half a node for which
  nobody tries again (`realsense_node_factory.cpp:497`). Both threads may be in `startDevice` at once. Frame callbacks use publisher maps
  and `_frequency_diagnostics` (`ros_sensor.cpp:83`) that other threads change: undefined
  behaviour without an outcome to model, so a frame is atomic here.
* Aggregator: `expected` and the node's own name are never matched; the type of a failed
  analyzer is tried on the next namespace; a member that is broken drops the group it is in;
  with `discard_stale` the header says OK though the only item is stale; `critical` is ignored
  while the last top level is STALE (3 > ERROR); `README.md:120` of the package says that
  items of Other go stale, the code discards them; changed parameters, unlike new ones, do
  not reload. The camera's diagnostics are off by default.
* MQTT bridge: an unavailable service or an unsupported parameter type is not answered at
  all; type `boolean` always sets False (`parameter_handler.py:153`) and `double` is
  unsupported; an undeclared parameter is an IndexError, which ends the loop thread; an image
  that comes before its subscription was stored ends the process; a second calibration of a
  camera takes its client and handle, so that the first cannot be aborted and a third ends in
  `destroy()` of None; waits have no timeout and stop the bridge for every camera; `hw_reset`
  always answers success. Topic names in the package's README differ from the code's
  (`get_parameter_response`), and `hwm_command_send_request` is subscribed but unsupported.

## 4. Proofs

The theorems hold for every value of the constants that satisfies the module's `ASSUME`;
where a theorem needs more, the hypothesis is in its statement and named here.

* `BldcWheels_proofs`, of `BldcDriver`: `TypeCorrect`, `Settles`, `TurnsAsRequested`,
  `SwitchesOnlyWhenOff`, `StopIsComplete`. The invariant says, for each position of the
  running call, what is known of the wheels already done, of the one at hand and of those
  still to come; in particular that F/R and its shadow agree except between their two
  writes and that a wheel about to switch is disabled and settled.
  Of `BldcOdometry`: `CountersCorrect`, `PulsesConserved`. The invariant follows a copy
  through its two halves while interrupts are masked and then through the credit loop,
  wheel by wheel, where `total` may already have moved on.
* `BldcFirmware_proofs`: `TypeCorrect`, `LightCoversMotors`, `MovesAreBounded`,
  `NoEarlyTimeout`, `DoneTakesItsHold`, `ImplementsService`, `StopAborts`, `RunsAsSent`.
  `TypeOK` and `DrivenOnlyWhenArmed` are nearly inductive (an IDLE mission drives nothing).
  The timing theorems need that the wrapped difference `Elapsed(moveStart)` is the true age
  while a mission runs, which is inductive only with a bound on the age, which in turn needs
  the time since the last tick: `AgeInv` ties the three together, and
  `MoveTimeout + ControlPeriod + MaxPass < ClockMod` is where the width of the clock
  enters. `HoldInv` relates the count of stable ticks to the age. The refinement theorem
  maps every action to a step of `MoveService` or a stutter. The last two are about the
  stream of bytes, that is the buffer followed by the ring and by what is still to arrive:
  `StopInv` says that a STOP in it begins its line, `FramingInv` that the text up to each
  newline is a message or the tail of one that can no longer start a move. `StopAborts`
  supposes `StopsAlone` (the host ends its messages in a newline, loses no byte, and begins
  a line with STOP), `RunsAsSent` supposes `OneLineEach` (each message one line that fits
  the buffer, with one comma at most). The finding `no_newline` is why they are needed.
* `BridgeMecanum_proofs`: of `MecanumFirmware`, alone, `TypeCorrect`, `RawRunsWatched`,
  `RawRunsBounded`, `PulsesFollow`; of the two programs together, `RobotIsWatched` and
  `ComesToRest`. `RunInv` says that outside a pulse a running motor is watched, that the
  wrapped difference is the true age of the last line, and that the last check found it in
  time; `Watchdog + MaxPass < ClockMod` is where the width of the clock enters. `PulseInv`
  ties the motors to the direction of the pulse whose delay runs. `ComesToRest` is
  `WheelsRest`, under `RingHolds`: the ring does not overflow, since a line of at most 22
  bytes comes every 20 ms and a pass of `loop()` reads all 64 bytes in less than two
  periods. Its invariant `RingInv` counts `Refreshes`, the STOPs that may still put the
  watchdog off, in the ring (`Backlog`) and yet to be sent (`StopsInv`); each one spent
  (`SpentInv`) accounts for one watchdog period of the rest, and a third comes from a
  reconnection only after the wheels stopped, which is what `PacedAssumption` says.
* `Motion_proofs`: of `SerialBridge`, `TypeCorrect` and `StopsAreSent`; of the two nodes,
  `HeadingIsKept`, `MotionIsBridge` and `StaleTargetsStop`. `HeadingIsKept` carries the
  proportions (`ScaleFacts`: common scale and rounding lose no sign and at most half a step)
  from the node's last publication to the command the bridge keeps and to the line it
  writes. `SentInv` says that what the
  node remembers as sent was sent, unless the last write was lost, and that a drive that
  went out was right at the time of the last `io_loop`. `MotionIsBridge` is the refinement:
  behind the kinematics node the bridge is still the bridge of `SerialBridge`. `StaleInv` adds up the ages of target, command and
  `io_loop` against the age of the last target.
* `Throw_proofs`: `TypeCorrect`, `ArmedOnce`, `CapturesEnd`, `RestsSoon`, `CarriedOut`.
  `TrackerInv` counts the ways in which the tracker is armed and says that a capture begun
  after the cooldown never meets it again. `LineInv` says that what was written last
  arrives last, `PinInv` which motors the sketch is done with. `FlightInv` is the long one:
  a command is alone in the subscriber, and at each of its stages (resting before its stop,
  awaiting the timer, in a call, in a timer) its age is covered by the sleeps passed and the
  lag; it needs `PacedAssumption`, that the cooldown outlasts twice `stop_after` and the lag.
* `Camera_proofs`: `TypeCorrect`, `InvalidIsReverted`, `WantedIsServed`. `RevertInv` says
  that a value no profile has is in the queue of reverts, and that a mark stands only for
  the revert under way; `DeclareKeeps` shows it of whatever the launch gives. `ServiceInv` says, for each sensor and pass of an update
  (`Between`, `Over`), which streams are open, which topics exist and which flag still
  announces work, in every thread that may be updating.
* `RemoteCamera_proofs`: `RemoteTypesKept`, `FramesAreKept`, `AbortsReach`, `AnsweredOnce`
  (the refinement of `RequestReply`). The invariant says what the two threads hold in their
  handlers, that a request is in one place at a time, that one not answered has no reply on
  its way, and what the tables of subscriptions and goals mean; `AloneInv` says that the
  tables hold the calibration under way as long as those of a camera are orderly (neither
  `overlapped` nor `hurried`), the condition of `AbortReaches`, and `ProgressInv` that then
  nothing is progress once it is answered: the feedback that is heard late finds the client
  destroyed.
* `Diagnostics_proofs`: `TasksStayAlive`, `TypeCorrect`, `StatusesAreRouted`,
  `SilenceIsShown`, for any streams, analyzers, groups, window, periods and timeouts.
  `ListInv` says which tasks are in the list at each step of a start, a temporary and its
  copy in that order, so that leaving by name takes out the right one; it holds for a stop by
  `hw_reset` as well as long as it and the monitoring thread take turns (`~clashed`), which the
  code does not see to, and nothing is proved of the list after that. `FrequencyInv` gives
  every slot of a window its greatest age and, from the rate of frames, its greatest count;
  `SampledInv` says that a status that is not an error, in the outbox too, tells of frames
  within the window. `AggregatorInv` says that what is cached for a name is what matches
  it, and of each analyzer what `Routed` does. `ShownInv` carries `SampledInv` through the
  items to the published level: a level that is not an error is not much younger than the
  frames it tells of, and a watched stream silent for longer than the window and every timeout
  is shown by the next publication. The lemmas about `Max`, `Rolled`, `Header` and
  `TopLevel` say that an error or a stale item makes the roll-up bad, whatever group it is
  in.

The proofs changed the models where something turned out too weak, too strong or unsaid:
`Grace` and `slipped` above, the guards of `RemoteCamera`'s `Phase`, which overlapped (a
request was both answered and progressing), and assumptions that only the bounds of the
runs had supplied (`RoomAssumption` and `RangeAssumption` of `Throw`, `FormatAssumption` of
`CameraParameters`, the finite `Leaf` of `Aggregator`). `Horizon` had one window period too many: `silent` counted
a stream that the analyzers had not heard of yet. The loading of
analyzers goes namespace by namespace instead of parameter by parameter: the proofs take
`Tries` for any set.

Only model-checked: everything temporal under fairness (`MoveEnds`, `EnterArms`,
`ChangesApplied`, `Reconnects`, `RequestsAnswered`), since the prover has neither liveness
nor ENABLED. Every other property of a passing run is a theorem.

## 5. Not modelled, and the plan

Next: of the camera driver, infrared streams, motion streams and the RGBD topic, which share
the update of sensors; of the subscriber, distance mode. As proofs: the safety half of what is only
model-checked, that a change not yet applied is announced by a flag (`ChangesApplied`), and
that a device without a node is known to a thread that will build one (`Reconnects`).

Not modelled, and why:

* Floating-point kinematics and PID tuning, image processing, the parabola fit: their
  results are choices, because the properties are about what is done with them.
* Camera: frames, filters, tf, motion streams, infrared (whose default values may come from
  another stream), QoS parameters, the RGBD topic, rosbag files, the lifecycle build. They
  have no part in the update of sensors or change with it in the same way.
* Subscriber: distance mode and dry runs, which the robot is not started with; failed writes.
* Aggregator: groups within groups, plugins that cannot be found, texts and output names.
* Motor telemetry, earlier trackers, host tools and bench sketches: they keep no state that
  anything depends on, or are not started any more.
* The other vendored packages: conversions, displays and logging of their own projects.
