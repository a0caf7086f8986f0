# Formal model of gzh_ipc

`gzh_ipc` is the program of an RV1106 IP camera: it captures and encodes two
video channels and one audio channel, draws detection results and the frame
rate on the picture, and publishes the streams over RTSP and RTMP, on a wired
or a wireless link. This directory holds TLA+ modules of it, TLC configurations
that check them on small instances, and proofs that TLAPS checks.

Source paths below are relative to the repository (`src/publisher/...`,
`scripts/...`); in `PROJECT.json` they have the prefix of the checkout.

## 1. The system

### 1.1 Threads and processes

| thread / process | runs | shares |
| --- | --- | --- |
| main | `main.cpp`: construct, heartbeat, health check, destroy | everything, before and after the others run |
| 2 video capture threads | `Video::capture_encoded_video` → `ffmpeg_publisher_write_video` | one queue per endpoint, the parameter-set copy of their channel |
| audio capture thread | `Audio::capture` → `ffmpeg_publisher_write_audio` | the queues of the main channel |
| 1 sending thread per URL (up to 4) | `PublisherEndpoint::send_loop` | its queue, `g_stopping`, the route's atomics |
| route thread | `NetworkRoute::run` | `ready_`, `generation_`; the kernel routing table; `/run/gzh_ipc.route` |
| inference, overlay and FPS threads | `video.cpp`, `osd/fps_overlay.cpp` | the RockIva result list, the frame lent to RockIva, RGN canvases |
| every thread of the program | `elog_output`, `elog_port.c` | EasyLogger's line buffer, its lock, the log file |
| RockIva SDK callbacks | `rkba_callback`, frame release | the result list, the frame wait |
| service script, monitor | `scripts/S98gzh_ipc` | the PID file, the intent file, two lock files, signals |

### 1.2 Inventory

| component | state | operations | interacts by | what makes it correct |
| --- | --- | --- | --- | --- |
| Publisher queue (`publisher_queue.hpp`) | backlog, bytes, `waiting_key_`, `stopped_`, `generation_` | push, pop, reset, stop, cancelled | a mutex, a condition variable, two atomics read without the mutex | exact accounting, no lost wakeup, whole GOPs per generation |
| Endpoint and connection (`ffmpeg_publisher.cpp`) | queue epoch, network generation, parameter sets, time origin, back-off, FFmpeg context | enqueue, discard, send loop, open, write, close, interrupt | the queue, the route's atomics, FFmpeg's interrupt callback | the receiver sees whole GOPs; IO is cancelled when its purpose is gone; shutdown ends; failures are recovered from |
| Network route (`network/`) | active link, source address, failure counters, retry time, kernel routes, ownership file | probe, choose, replace route, publish, recover after a crash | two atomics, `/proc/net/route`, ioctl | foreign routes untouched; a crash leaves nothing the next start refuses; the generation changes with the path |
| Annex-B scanner (`annexb.cpp`) | none | `parameter_sets` | called by capture and sending threads | finds the first set of each kind, whole |
| Media runtime, video, audio (`src/media/`) | which SDK resources and threads are held | staged initialisation, roll-back, shutdown | SDK calls, thread joins | released in dependency order, each once, after any failure |
| RockIva (`common/rockiva/`) | result list, frame in flight | callbacks, submit, take, release wait | a mutex, a semaphore | a frame goes back to the camera only when it is no longer read; the list stays bounded |
| Media health, service state, main loop | progress times, heartbeat, PID file | record, stalled, set | atomics; a file read by the script | a stall ends the process; the file names the process |
| Service script and monitor (`S98gzh_ipc`) | intent, attempts, next try, PID file | start, stop, restart, monitor tick | two lock files, signals, the process table | one instance; a manual stop is final; recovery within its budget |
| Overlays (`video.cpp`, `src/osd/`) | canvases, counters | draw, refresh, release | RGN canvases, joins | drawing stays inside the canvas and shows what was asked |
| Configuration check (`src/config/`) | none | validate | throws | the later code's assumptions hold |
| Parameter store, INI parser, dictionary (`common/param/`) | table, file | load, get, set, unset, save, reload | a mutex, a file | a crash leaves one whole version; no entry is lost in the table |
| ISP control (`common/isp/`) | parameters by scenario, attributes of the image processor | setters, scenario switch, HDR restart | the SDK | parameters and processor agree |
| EasyLogger core, log port, recovery log | filters, line buffer, open file, backups | output, set levels, rotate | a lock, files | whole lines, sizes bounded, the newest lines kept |

### 1.3 Where it is hard

* **The drop is asynchronous.** A full queue, an expired packet, a failed
  allocation in either capture thread or a failed write all drop a GOP. The
  sending thread may at that moment hold a packet of the dropped GOP, be between
  two reads, or be inside FFmpeg. That it notices is left to a counter.
* **Two atomics, four stores, two reads.** The route thread stores `ready_`,
  `generation_`, and `ready_` again around a change of route; the sending threads
  read `generation()` and then `ready()`, and FFmpeg's callback reads them in the
  other order.
* **Packets that are skipped count as sent.** `write_video` returns 0 for a
  packet it did not write because the route was not ready; only the generation
  keeps the connection from going on after the hole.
* **Late audio, early parameter sets.** Audio is queued behind a key frame that is
  younger than it, and timestamps are unsigned. The encoder need not repeat its
  parameter sets, and the key frame that carries them may be the one that is dropped.
* **Shell functions that race.** The user's commands and the monitors run the same
  functions in different processes; between two of their commands any process may
  end, hang, or be killed, the shells included, and the PID file is emptied before
  its process is gone.
* **Lent memory.** RockIva keeps a camera buffer for as long as it likes; the wait
  for it times out, but the buffer stays lent. The size of the result list is read
  outside of the lock under which an entry is taken.
* **Partial failure.** Some forty SDK calls acquire things one by one; each may fail,
  and constructors that throw leave what they hold to flags.
* **Files and power.** The parameter file is saved explicitly and logs are rotated,
  with a kill or a power cut between any two system calls.
* **The same rule twice.** Validation, the publisher, the route and the video code
  each read the same keys with checks of their own, in two number formats.

`PROJECT.json` lists each hazard at its line with the properties that cover it.

## 2. Modules

```
Capture ──────────┬── MCCapture                         KeyMap
PublisherQueue ───┤                                       ▲ implements, if copies succeed
                  ├── PublisherEndpoint ── GopStream    Dictionary ────────────┐
RouteSignal ──────┘        │  implements                IniFile ── ParamStore ─┤
   ▲ implements            └── EndpointRecovery         Configuration ─────────┼─ MCProgram
NetworkRoute                                            ConfigNumber ──────────┤
Service                                                 IspSettings ───────────┤
                                                                               │
MediaLifecycle, Canvas, AnnexB, Elog, LogFile, RecoveryLog ────────────────────┘
```

| module | models | notes |
| --- | --- | --- |
| `PublisherQueue` | `publishing::Queue` | one action per operation, since each holds the lock throughout; `pop` is split where it waits |
| `RouteSignal` | what `NetworkRoute::run` shows to others | one action per store; when and why a change happens is left open |
| `NetworkRoute` | `NetworkRoute`, `LinkPolicy`, `stream_route_state`, the ownership record | one action per call to the kernel and per store others read; processes start, stop, crash |
| `GopStream` | the promise to the receiver | abstract: a stream opens with a key frame and has no hole |
| `PublisherEndpoint` | one URL: capture threads, sending thread, route thread, main thread | one action per access to shared state |
| `EndpointRecovery` | the same, in surroundings that become calm | for the liveness of publishing |
| `Service` | the script, its monitors, `ServiceState` and `main` | one action per step between which others may move |
| `Capture` | encoder, inference and overlay threads, RockIva's callbacks, `MediaHealth`, shutdown | one action per locked step |
| `MediaLifecycle` | construction, roll-back and shutdown of everything `main` owns | the program as a sequence of acquisitions |
| `Canvas` | `rectangle`, `refresh_detection_overlay`, `fps_text.hpp` | byte by byte, next to a reference picture |
| `AnnexB` | `annexb::parameter_sets` | one step per NAL unit |
| `Configuration`, `ConfigNumber` | `config::validate` and everything that reads the keys later | files as records; the two readings of a number |
| `Dictionary`, `KeyMap` | `dictionary.c`, and the map it promises | a refinement that failing copies break |
| `IniFile`, `ParamStore` | `iniparser.c`, `param.c` | the file with its crashes |
| `IspSettings` | the setters of `isp.c` and their order | parameters against attributes, with writes that are refused |
| `Elog` | `elog_output` and the tag levels | two locked sections per line |
| `LogFile`, `RecoveryLog` | `elog_port.c`, `recovery_log` of the script | one action per system call |
| `MC*` | — | small values of the constants; `MCCapture` and `MCProgram` are sums of parts |
| `*_proofs` | — | inductive invariants and theorems: the queue, the endpoint, the route, the service, capture; `Logging_proofs` for `Elog`, `LogFile`, `RecoveryLog`, `Settings_proofs` for `ConfigNumber`, `Configuration`, `ParamStore` with `IniFile`, `Dictionary`, `IspSettings`; `Media_proofs` for `Canvas`, `AnnexB` |

### 2.1 Correspondence: the queue

`items`, `bytes`, `waitingKey`, `stopped`, `generation` are the fields of `Queue`.
`sleeping` is the sending thread inside `wake_.wait`; `packet` and `epoch` are the
out-parameters of `pop`. `popped` and `frames` are history. Ages replace clock
readings: an item's age grows with `Tick` and saturates above `MaxAge`, since the
code asks only whether it exceeds `max_age_`. A packet's payload is the number of
the frame it stems from; `sets` and `extra` say whether parameter sets are in the
payload and attached to it.

`push` has four outcomes, one disjunct each: refused, larger than the queue (drops
everything), not the key frame that is waited for (after a possible drop), stored
(after a possible drop) with a notification. `PushThrows` is `emplace_back`
throwing: by then the backlog may have been dropped, and the caller's `reset()`
comes later, as a step of its own (`FinishDiscard`).

`PopWait` covers the loop turn that finds the oldest packet expired: `reset_locked`
and the following `wait` happen without releasing the lock in between.

### 2.2 Correspondence: the endpoint

`pc` is where the sending thread is: `pop` (in or before `queue_.pop`), `check`
(line 581), `route` and `ready` (the two reads of `synchronize_network_route`),
`open`, `header`, `write` (FFmpeg calls), `reset` (line 594 or 597), `done` (loop
left), `gone` (joined and closed). `ready`, `queueEpoch`, `networkGeneration`,
`codecExtra`, `origin`, `retry` are the fields of `FfmpegConnection`; `extra` is
`extra_[id]`; `stopping` is `g_stopping`. `discarding` holds the capture threads
between a throwing push and the `reset` of the catch clause. `muxed`, `muxedKey`,
`connPath` and `setsFrame` are history.

IO is nondeterministic: every call may succeed or fail, at any moment, whether or
not it is cancelled, so deadlines need no clock. A write that succeeds may have been
buffered only. What a cancelled connection "writes" cannot reach the receiver, which
is why the stream is `Live` only while `interrupt()` would let IO through.

The abstraction drops: the contents of parameter sets (present or not), URLs, codec
parameters, the log lines and their throttling, the drop counter, `write_trailer`
(its IO is under the same callback). `path` is the route thread's view, its
`active_` and `active_address_`; the kernel may know better for up to a second.

### 2.3 Correspondence: the network route

`table`, `record` and `link` outlive the process: `/proc/net/route` as far as it is
about the receivers, `/run/gzh_ipc.route`, the interfaces. An entry is `owned` when it
would pass `owned_stream_route` for a matching record: metric 4270, no gateway, the
two flags. `host`, `active`, `activeAddress`, `policy`, `generation`, `ready`, `retry`
are the fields of the object and the local of `run`; `round` holds the locals of one
turn of the loop. `pc` walks through it: `probe`, `choose` (the two probes),
`inspect` (table read, decision of line 173), `withdraw`, `bump`, `delete`, `record`
and `add` (the two halves of `route(next, true)`), `restore` and `readd` (those of
`route(old, true)`), `recheck`, `judge` (lines 190-194), `announce`, `publish`,
`pause`. `announced` and `orphans` are history.

A turn of the loop is one tick: `HoldOff`, `RepairDelay` and `WarnDelay` stand for
10 s, 3 s and 30 s. What the constructor sees of the table decides between taking over
and refusing; stopping is asked for at any time but noticed only in `wait_for`.
What a probe does on the wire is reduced to its result and the source address.
A crash may come at any point, also between truncating the record and writing it.

`MaxEvents` bounds, together, changes of the links, routes that vanish or that others
add, calls that fail, unreadable tables, crashes and reboots.

### 2.4 Correspondence: the service

`pc` is where each caller is in the script, the user's shell (`user`) and the
monitors alike, since they run the same functions: `tick` and `gate`
(`monitor_tick` before and from line 183), `ensure` (`ensure_monitor`), `start`,
`spawn`, `wait` (the three parts of `start_service`), `stop`, `kill`, `stopping`
(of `stop_service`). `lock` and `watch` are the two lock files, which the kernel
frees when their holder dies; `desired` is the intent file; `local` holds the
variables of `monitor_loop`. `proc` is the stage of each media process: `loading`
(before `ServiceState` has the lock on its file), `starting`, `ready`, `stopping`
(the three states it writes), `exiting` (the record is empty, the process still
there). `used` and `byhand` are history.

Time has no clock here: a wait ends when its condition holds or, at any moment, by its
limit; a heartbeat goes stale by a step of its own. `FaultSets` says which faults may
come in one behaviour: crashes, hangs, stalls, failing initialisation, killed shells,
a missing environment, foreign processes, launches by hand.

### 2.5 Correspondence: capture and RockIva

`input` is the inference thread: `get` a frame, `push` it to RockIva, `wait` for the
release. `frame` says who owns the VI buffer, `inflight` whether RockIva reads it,
`signal` is the semaphore. `callback` and `osd` are the detection callback and the
overlay thread between their locked steps, `list` the results, newest first as in
the code. `age` counts the periods since each channel's last progress; a stalled
channel makes the main loop end (`LeaveLoop`). `main` then joins the threads.

### 2.6 Correspondence: objects, pictures, frames

`MediaLifecycle` has the list of calls that `main` and the constructors make for a
given set of INI switches (`Plan`), with the resource each call acquires and the
step at which its owner learns of it, and the lists in which the destructors and
`shutdown()` functions release (`*Undo`). `held` is the truth, `known` what flags and
handles say; a failing call runs the clean-ups from the inside out. `Canvas` has a
buffer with guard addresses before and behind the canvas. `AnnexB` follows the scan with
`pos`, over frames of whole units.

### 2.7 Correspondence: settings

A file is, for `Configuration`, a record of its keys; `Validate` is
`config::validate`, `Publisher`, `Route`, `Endpoints` and `Video` are the later readers.
`ConfigNumber` works on texts of characters; `ConfigurationHonoured` says what is
promised of both. `Dictionary` keeps the three parallel arrays;
`call` and `answer` are the last call and what it returned; `Failures` says which
allocations may fail: that of the growth, which `dictionary_set` answers, and those of
the copies of key and value, which it does not. In `IniFile` a text is a
sequence of the characters the grammar distinguishes. `ParamStore`: `disk` is what a
process would read, `safe` what a power cut leaves; a save goes through `write`,
`sync`, `rename`, `directory`; `before`, `after`, `kept` are history: the files a failed
save may leave, the one it makes, and the parameters that a start may find.

`IspSettings`: `isp.ini` are the parameters by scenario, which the getters return,
`isp.hw` the attributes of the processor. `gain_mode` has no attribute of its own: like
`exposure_mode` and `exposure_gain` it writes the switch of the manual gain (`gain_en`).
In each call the processor may refuse any of the writes that are `Refusable`
(`isp.failing`); all setters but `rk_isp_set_sharpness` store the parameter all the same,
and `isp.refused` remembers whose last write was refused.

### 2.8 Correspondence: logs

`Elog`: a thread in `elog_output` looks at its tag's level under the lock, leaves it,
and takes it again for the line (`job`, `step`); `buffer` names the thread whose text
is in `log_buf`. `LogFile` has one step per system call of `elog_port_output`, with
failures and kills; `RecoveryLog` the sizes of the script's file and its backup.

## 3. Checks

| run | question | instance | distinct states |
| --- | --- | --- | --- |
| `endpoint_queue` | do origin and parameter sets survive drops, and does publishing resume? | 2 packets, age limit 0, audio, 3 frames, throwing allocations, failing IO, no failover, then calm | 460 669 |
| `endpoint_route` | is the stream whole under drops and route changes, does every packet leave its thread, does shutdown end? | 2 packets, 3 frames, 2 route generations, 2 paths, one rejected audio packet, failing IO | 371 460 |
| `network_life` | does the route thread settle, does it show what the endpoints rely on? | 1 receiver, 2 addresses, hold-off 2, repair 1, warning 2 ticks, 3 events | 1 604 887 |
| `network_crash` | can a crash lock the program out, or leave two routes? | 2 receivers, delays of 1 tick, 4 events | 2 462 892 |
| `service` | can commands, monitors, processes and kills break the script's promises, does the service recover? | 2 processes, 2 monitors, budget 2, 2 commands; killed shells with hangs, launches by hand, and all other faults, each apart | 163 514 |
| `capture` | are frames lent safely, results shown and gone, stalls noticed, threads joined? Is the queue right on its own? | 2 encoders, list of 3, 4 results, stall after 2 periods; or 3 packets / 4 bytes, sizes 1, 4, 5, age limit 1 tick, audio lag 0 or 1, 4 frames | 228 420 |
| `program` | do settings mean and stay what was asked, do objects, pictures, frames and logs stay in order? | below | 446 396 |
| `idle_reference` | does the sending thread really hold nothing while idle? | as the endpoint | violated |
| `service_stall` | is recovery blocked only for the documented reasons? | a stall alone | violated |
| `param_round_trip` | does a dumped file load again? | values with quotes, comment signs, backslashes | violated |
| `dictionary_failures` | is the table the map that `dictionary.h` promises? | the table of `program`, all allocations may fail | violated |
| `failed_construction` | is everything rolled back, whichever call fails? | the objects of `program` | violated |

### 3.1 Properties

* Queue (in `capture`): `BacklogBounded`, `NoLostWakeup`, `GopWithoutHoles`, `QueuedIsServed`.
* Endpoint: `NothingBeforeOrigin`, `ParameterSetsSurviveDrops`, `PublishesAgain`,
  `ConnectionOnCurrentPath`, `InterruptIsFinal`, `ImplementsGopStream`,
  `StopCompletes`, `PacketCompletes`.
* Route: `Settles`, `ImplementsRouteSignal`, `AddressChangeIsAnnounced`,
  `OneRouteEach`, `RefusalJustified`.
* Service: `OneProcess`, `OneOwner`, `BudgetKept`, `SpawnOnlyWhenWanted`, `Recovers`,
  `LockReleased`.
* Capture: `FrameLentSafely`, `ResultsInReach`, `BoxesCleared`, `ShutdownCompletes`,
  `ProgressOrExit`.
* Settings (in `program`): `ConfigurationHonoured`, `LosesOnlyCopies`, `FileSafe`,
  `DumpLoads`, `StartsAsSaved`, `ParametersInForce`.
* Objects, pictures, frames, logs (in `program`): `RolledBackSaveLost`,
  `DrawsWhatIsAsked`, `FindsTheSets`, `LinesAsWanted`, `LogKept`, `WithinLimit`.
* What the repository says and the code does not keep, one per violated run:
  `IdleHoldsNothing`, `BlockedForAReason`, `DumpLoads` (of values that need quotes),
  `IsKeyMap`, `RolledBack`.

Each is stated in words above its definition. Those of `program` are
conjunctions of named parts (such as `ReplacedWhole /\ SavedIsSafe /\ NoLitter`),
their modules' type invariants among them. The type invariants of the queue, the endpoint,
the route and the service are theorems (section 4), which says more than a run could;
for the same reason `ImplementsGopStream` is checked in one endpoint run only.
For each property `PROJECT.json` names a mutation of the modelled code (operators
marked *Mutant* in the modules) that breaks it.

Two of them stand next to what the repository promises and the code does not keep.
`LosesOnlyCopies` is what is left of `IsKeyMap` when copies fail, and `RolledBackSaveLost`
what is left of `RolledBack`: exactly the two resources of `Lost` stay, in exactly the
failures it names. `StartsAsSaved` is about the whole life of the parameter file: the
parameters that a start or a reload finds are all of them as they were in memory when a
save began, those of the last save if it answered 0, or a file written by hand; never a
mixture, never an older version, never a file of the program's that cannot be parsed. Like
`DumpLoads` it is checked, and proved, for values that need no quotes: a value that ends in a
backslash is dumped as a continuation, which `param_round_trip` is about.

`MCCapture` and `MCProgram` put modules together that share no variable. The initial
state picks one (`part`); only that one moves, from its own initial states,
while the others rest in one initial state. The run is thus the union of the
modules' state graphs, not their product, and nothing is lost since no step of one
could enable or disable a step of another. `MCProgram` has eleven parts; `Parts` says which
of them a configuration checks: all, or the one that a violated run is about.

### 3.2 Bounds and why they are enough

*Queue and endpoint.* A size that fills the queue alone and one that
exceeds it, next to a size of one, take every branch of `push` by bytes and by
packets. On its own, four frames make two GOPs with a frame between and after them, so that a
hole can be followed by a frame that would hide it; in the endpoint a key frame, a lost
frame and one more are enough for that, and what may follow is the proofs' part. Two generations of the route
let readiness go and come back between any two reads, with the path changed or
not, and once more. Saturating ages and a back-off of one tick keep the clock
finite; `MaxGeneration` bounds the audio thread's failed allocations, the only
step that could otherwise recur for ever without consuming a frame. In
`endpoint_queue` three frames are enough to fail with the first two and to recover
with the last, which the calm encoder delivers when the endpoint is quiet: the last of
infinitely many key frames stands for the one that finds it so.

*Route.* Three events are enough to lose one link, fail the delete or the add, and fail the
restore; four, to write a record, crash, start for the other receiver and crash again
with one call failing. Failure counters run to their threshold without events: a link
that is down stays down. The delays matter by being zero, running or over, and by the
order of the two.

*Service.* Two processes are the one that is recorded and one more; two monitors are
what two starts in a row leave behind; a budget of two tells the first automatic start,
the last and one too many apart; two commands put one command after, or over, the
other's effects. Killed shells (with hangs) and launches by hand are taken apart from the
other faults, since they multiply with everything else; that the safety properties also
hold when all faults come in one behaviour, and beyond two processes and monitors, is
what their proofs add.

*Capture.* A list of three has a middle; four results overflow it once; a
stall age of two separates late from stalled. Two encoders: with one, an encoder without
progress could not be told from all of them.

*Settings.* All texts of up to four characters of `- 0 1 8 x y`, with a `long` that
ends at 127, so that signs, leading zeros, prefixes and overflow combine. Three keys,
two of which collide, in a table of two slots that grows to four: full, growing and
shrinking with a gap. Files with sections, comments, quotes, continuations, errors and
an overlong line; two losses, so that a crash can follow the recovery from another. URLs
and switches vary together, then codecs and sizes, then rates: the rules relate keys
within these groups only. Of the image settings
those that depend on each other vary together: HDR and highlights, white balance, noise,
dehazing with the backlight, exposure and gain; and the two whose setters treat a refused
write differently. Refused are the writes that others build on (`SomeRefused`).

*The rest of `program`.* All combinations of the INI switches with a failure at any call but
`create_rknn_list`, which reports none. A picture of 24 by 14 pixels has room for a
box with an inside and for boxes cut at each edge, at every alignment within a byte.
Frames of three units hold two sets of one kind, or a set between slices. A log of three bytes
takes lines that fit, fill and exceed it, after a log of five bytes that an older
version left; the recovery log has the sizes of the script. Two threads, two tags and two slots
make the tag table full.

*Deadlock* is checked in the capture run, where only a program that is down may stop
(`Ended`), and in the network runs. In the others the system may
really stop: the program ends, no command is left, the last frame was delivered, the
construction failed.

### 3.3 Fairness

The sending thread is weakly fair as a whole: it is a running thread,
and its blocking calls return because the interrupt callback fails them at the
deadline. A capture thread that has caught an exception reaches its `reset()`. The
main thread reaches the destructor after the interrupt, once the capture threads
have been joined. Nothing is assumed of frames, links, the route thread or the clock:
so `PacketCompletes` also says that no packet blocks its thread even when the network
never recovers.

`PublishesAgain` is about a camera whose troubles end (`Calm`), which no camera can
promise: from then on allocations and IO succeed, except for IO that the code itself
cancels, the encoder delivers key frames, and the sending thread keeps up with the
clock. What the state was at that moment is left open.

The route thread is weakly fair in `network_life`: a running thread whose calls do not
block or have time limits. Nothing is assumed of the outside; that it stops disturbing
is the bound `MaxEvents`, and `Settles` speaks of what follows.

In `Service` the processes go on unless they hang, shells go on, and the clock runs
(`Age`). The monitor loop is fair; a monitor's tick and a start compete for
`service.lock` with what others do, so taking part in it in the end needs strong
fairness (`Spawn`, `GateStarts`): others take the lock for a bounded time and
release it in between. `Recovers` excepts endless launches by hand.

In `Capture` the clock, the main thread, the overlay thread and the callbacks are
fair, the inference thread only where it has a frame or is asked to end; where
`MCCapture` moves the queue, the sending thread is. Nothing is assumed of
the camera or of RockIva: `ShutdownCompletes` states what it needs, that frames are
given back, as a condition, and `ProgressOrExit` is about everything that may stand still.

### 3.4 What the runs say beyond their properties

**The race worth knowing.** The state graph contains a packet taken after a hole that
*reaches the write call*: the sending thread reads the generation before the route
thread increments it, and `ready()` after the route thread has published readiness
again. The connection is of the old generation then, `interrupt()` sees that and
fails the IO; the next turn closes it. `InterruptIsFinal` is what makes this safe:
once cancelled, no later combination of the flags lets that connection continue.

**Routes given up.** `RefusalJustified` has an
exception that the code does have: after a crash, a start for *another* receiver
overwrites the record of the first, whose route stays in the table (`orphans`); a
later start for the first receiver is refused until the route is removed by hand or
the device reboots. And the first address the thread learns on a link it has taken
over is not a change: if the interface had none when readiness was published, its
first address is adopted without a new generation. Foreign routes are never deleted,
by construction: the only entries ever removed are the program's own.

**What a failed construction leaves.** Two resources (`Lost`):
`init_device` sets its flag only after binding the pipe (`video.cpp:193-195`), so a
failing bind leaves the VI device enabled; and a processor that cannot be prepared or
started leaves the camera's context (`isp.c:139-148`). Both end with the process, since
`main` ends it. Everything else is given back, in order and once.

**Newest first.** The result list is a stack: when the overlay thread is late it shows
a result and then an older one. A full list drops the newest.

**The manual gain.** `rk_isp_set_exposure_gain` means to refuse a gain while the gain is
automatic ("exposure mode is auto, not support set gain", `isp.c:574`), but its test
assigns (`isp.c:572`): it never refuses, and the attributes are written back with the
manual gain off. It runs after `gain_mode` in every restoration, so that a camera whose
file says `gain_mode = manual` has its gain chosen automatically after every start, scenario
switch and HDR restart, while the getter says "manual". `GainIsOff`, a part of
`ParametersInForce`, states what the code does; `gain_mode` is therefore not among the
`Getters` that tell the truth. The getters of the settings that others switch or share
(`blc_strength`, `white_blance_red`, `hdr_level` and the like) are not either: they are in
force after a restoration, under the conditions of `DependentsInForce`.

**Refused writes.** Nobody looks at the results of the setters that
`rk_isp_set_from_ini` runs. What the processor refused keeps its old attribute while the
parameter has the new value (only the sharpness keeps both); the next restoration tries
again.

**Scenario and HDR.** Switching the scenario restores everything but the HDR mode, which
stays the one of the last start.

### 3.5 Divergences found

* `idle_reference`: the comment of `ffmpeg_publisher.cpp:599` promises that no
  frame is referenced while idle, but the `continue` of line 581 bypasses the
  assignment.
* `service_stall`: a process that ends by itself after a stall empties its record before it
  is gone; a tick in between takes it for a foreign process and blocks the recovery that
  the README's table promises.
* `param_round_trip`: values that had to be quoted in the file are dumped without quotes.
* `dictionary_failures`: `dictionary_set` does not look at the result of `xstrdup`
  (`dictionary.c:270`, `293`, `294`) and returns 0 for a set that lost its value or its
  key, where `dictionary.h:116` and `:133` promise a value other than 0 on failure, and
  `:130` no key without value.
* `failed_construction`: the two resources of `Lost` above, where `include/media.hpp:11`
  and the README (`README.md:63`) promise the roll-back of everything acquired.

The gain above is a divergence between a log text and the code; `ParametersInForce` covers
it without a run of its own.

See `findings` in `PROJECT.json`.

## 4. Proofs

Assumed throughout: only the named assumptions on constants
(`QueueAssumption`, `RouteAssumption`, `EndpointAssumption`, `NetworkAssumption`,
`ServiceAssumption`, `CaptureAssumption`, `ElogAssumption`, `LogFileAssumption`,
`RecoveryLogAssumption`, `ConfigNumberAssumption`, `ConfigurationAssumption`,
`ParamAssumption`, `DictionaryAssumption`, `IspAssumption`, `CanvasAssumption`,
`AnnexBAssumption`), which TLC evaluates in the runs. Five theorems have a hypothesis of
their own, named below (`DrawsAsAsked`, `LogsWhatIsWanted`, `DumpsAreLoadable`,
`StartsWithWhatWasSaved`, `IsMapWhenCopiesSucceed`).

**Induction.** Numbers, files, groups of setters and frames are read by recursive
functions over sequences. The library's induction theorems cannot be used here, since
their parameter is an operator; `InductionOverSet` takes their place: a set that has 0
and with each number the next one has them all. It is proved from the pigeonhole principle for
finite sets: the numbers up to a missing one, without those in the set, could all move
down by one and lose their largest. A recursive function is first shown to exist
(`RunExists`, `FlatExists`, `ReadsExists`, `PiecesExist`), as a definition by recursion is
a choice, and then computed from left to right.

`PublisherQueue_proofs`. `TypeOK`, `NoLostWakeup` and `GopWithoutHoles` hold for all
limits, ages and packet sizes. `GopWithoutHoles` is a property of steps; what makes
it inductive (`QueueInv`) is that the backlog itself is in order: consecutive items
follow each other, the head follows what the current generation has handed out (or is
a key frame if it has handed out nothing), the last item is the latest frame offered
unless a key frame is being waited for, and epochs never exceed the generation.
`BacklogBounded` needs the running totals of the sizes (`BacklogInv`): a step extends
them by the stored item, shifts them by the taken one, or starts from nothing, so that
`bytes_` is their last value without a sum over the queue.

`PublisherEndpoint_proofs`. `EndpointInv` adds to it: the connection's counters never
run ahead of what they copy (`Counters`); what each position of the sending thread
implies (`Positions`, `PacketInHand`); that a connection of the current route
generation was made on the current path and that readiness stays withdrawn while the
route thread is at work (`RouteFresh`); that the origin is a frame already taken and
that a connection without frames is only met where its key frame is being written
(`OriginPast`); and that as long as the connection is live the muxer is level with
the queue (`StreamInOrder`). The last one is the heart: it holds because every way to
lose a packet either increments a counter the connection is compared with, or closes
the connection.

`ParameterSetsSurviveDrops` rests on an account of where sets that reached the manager
are by now (`SetsInv`): the manager holds the copy; every video packet offered since,
in the queue or in the sending thread's hand, carries it or has sets of its own; and the
connection has taken it over once that packet is past the synchronisation. `EndpointLimitsHold` says that the limits of the queue hold inside the
endpoint as well.

From `EndpointInv`: `EndpointTypeCorrect`, `StaysOnCurrentPath`,
`TimestampsNeverWrap`, `CancelledForGood`, and `DeliversWholeGops`, the refinement:
every step of an endpoint is a step of `GopStream` or a stutter. Its case analysis is
`StreamSteps`: a step after which the stream is live leaves it alone, or writes the
header, or writes a packet.

`NetworkRoute_proofs`. `KeepsOneRoute` and `NeverLockedOut` hold for any number of
receivers, events, failures and crashes. `NetworkInv` joins three accounts of the same
thing: the table, what the thread believes (`ActiveIsKnown`: its `active_` names the
only route of the program to the receiver, and between deleting and adding there is
none) and the record (`RecordPrecedes`, `Accounted`: every route of the program that is
in the table is named by the record, or was given up). A refused start contradicts
`Accounted`: routes that are all the program's own and all recorded are the one that
the record names, and that one is taken over.

Within one life of the process (`LifeSpec`), `ShowsRouteSignal` and `AnnouncesAddress`:
the thread's stores are those of `RouteSignal`, on which the endpoints rely.
`SignalInv` says that readiness is down from before the increment of the generation until
the round publishes, and that a round without an increment publishes what is known
already; the generation
grows without bound here, for which `RouteSignal` has the parameter `Changes`.

`Service_proofs`. `OneProcess`, `OneOwner`, `BudgetKept`, `SpawnOnlyWhenWanted` and
the type invariant, for any number of processes, monitors and commands and any budget.
`ServiceInv` joins: one caller at a time works, the holder of `service.lock`
(`LockInv`); a caller on its way to a spawn has seen or written the intent "run", and
nobody else can change it (`WantedInv`); one monitor at a time passes `watchdog.lock`
(`WatchInv`); the process that holds the PID file is the one it names (`OwnerInv`); where a
caller is past the test with `pidof`, no process of the service is there
(`AloneInv`, `UniqueInv`); a monitor's token is never ahead of the intent's and, while
they agree, its attempts count what was used (`TokenInv`, `CountInv`). The last is
what keeps the budget when a monitor dies and another takes over: a new one starts from
zero and renews the budget, which is why `BudgetKept` counts from there.

`Capture_proofs`. `FrameLentSafely` and `ResultsInReach` (with `CaptureTypeOK`) for every list
limit of at least two, any number of encoders and any delay. `CaptureInv`: a frame in
flight belongs to a waiting thread that was not yet signalled (`FrameInv`); the list
reaches its limit only inside the callback, and what is missing between the callback's
measure and its drop was taken by the overlay thread (`ListInv`).

`Logging_proofs`, files. `WithinLimit` and `LogKept` for all limits and line sizes, with
failures and kills anywhere. `LogInv` says what one step may rely on from those before:
the log is there while it is open, the middle file is out of the way before the log is
renamed, a line about to be written fits. That the newest lines are kept without a gap
needs more (`HistoryInv`): the history of all lines is divided by cuts into what was
given up, the two backups, and the log, each file being exactly the part between two
cuts (`Divided`); a step moves a cut or adds to the last part.

`Logging_proofs`, lines. `LinesAsWanted` for any number of threads. `LinesWhole` and
`LockHeldByOne` rest on `LockInv`: the thread inside is the one that holds the lock.
`FilterHonoured` and `LevelsAsWanted` rest on `FilterInv`: the first slot of a tag holds
the level last wanted for it, no tag has two slots, and the level by which a line was let
through is the one of the moment at which its thread looked. `LogsWhatIsWanted` has a
hypothesis, no more tags than slots: with more, `elog_set_filter_tag_lvl` drops a level
silently. That a free slot is then left is a pigeonhole argument over the table
(`SlotLeft`).

`Settings_proofs`, numbers and rules. `NumbersAgree` for any range, length of text and
width of a `long`: a text that validation accepts has no leading zero or prefix, so both
bases read the same run of digits (`ReadersAgree`); and a plainly written number of up to
three digits is never refused, since its run is the whole text and its value the number
(`WholeRun`, `PlainAccepted`). `RulesHonoured` for any set of files: `ConfigInv` says at
each stage that the rules of `Valid` still hold; from them the checks of the publisher and
the route follow one by one: the same receiver, a port for every URL that is used and at
most four of them (`ValidRoutes`, `FourAtMost`), and a rate that divides without a
remainder (`ExactDivision`). The two together are `ConfigurationHonoured`.

`Settings_proofs`, file and table. `FileSafe`: `SaveInv` follows a save through its four
calls; each says which of the temporary file, the file and the medium already hold the
new text.

`DumpLoads` (`DumpsAreLoadable`) holds under `PlainSettings`, and `param_round_trip` shows
that it needs such a hypothesis: the values of the files and of the callers need no quotes, comment signs or continuations, and every key is in a section.
Then a dictionary is `Lossless` from the first load on. A line, a section and a whole dump
are read as the entries they were written from (`LineRead`, `SectionYields`, `BlocksYield`);
what comes of two texts read one after the other is what comes of the second, read from
where the first has led (`YieldsJoined`). `DumpInv` says it of the file, of what a power cut
would leave and of what a save is about to put there. The run `program` evaluates the
hypothesis on its own files and values (`PlainAssumption`).

`StartsAsSaved` (`StartsWithWhatWasSaved`) joins the two, under the same hypothesis:
`StoredInv` says of the file and of what a power cut would leave that each gives
parameters in `kept`; `SavedIsFound` that what a save has written does, since it is
`Lossless`; and `SaveInv` that wherever a save is broken off, it is one or the other.

`LosesOnlyCopies` (`BehavesAsMap`): for any keys, values, hash function (collisions
included), growth and failing allocations, a step of the dictionary is a step of `KeyMap`,
a stutter, or a set that answered "ok" and lost the copy there was no memory for. From
the same steps `IsMapWhenCopiesSucceed`: where only the growth may fail the dictionary
implements `KeyMap` (`IsKeyMap`), so that the copies are the only way to break the promise.
`DictInv` says that a key occupies one slot, that its hash is stored with it, and that
`n` counts so that a search cannot pass a hole that would hide a key; from it the table
seen as a map (`Table`) changes as one entry changes, also when it moves to a larger
array (`Inserted`).

`Settings_proofs`, image. `ParametersInForce` for any values of the parameters in any
scenario and any choice of refused writes: the run varies one group of keys at a time, the
theorem all of them. A refused write leaves the attribute and is remembered
(`SdkWriteChanges`, `BothChanges`). Each setter changes its own parameter and what `Touched` names (`SetterChanges`), no setter
touches what the getter of another reports (`OwnAttribute`), so a group of setters leaves
the getters of the others right (`GroupFollows`, `GroupLeaves`); every getter belongs to a
group (`EveryGetterRestored`). The settings that depend on others are the hard part: within the
backlight group the order of the setters decides (`BacklightGroup`), and the later groups
must leave what it has set (`LaterGroupsLeave`). The exposure group ends with
`exposure_gain`, which turns the manual gain off (`ExposureGroup`), and no later group
touches it (`GainStaysOff`). Together `RestoreWorks`.

`Media_proofs`. `NeverLeavesCanvas`: for any size of the picture and any integers as
coordinates of an object, no byte beside the canvases is written. `DrawsAsAsked`: if no
object begins before the origin, which the range of RockIva's coordinates gives
(`video.cpp:575`), every pixel of the two overlays is as asked for. `CanvasInv` accounts
for each byte: the last box that covers it or, for the label, the ink of the last text.
The rest is arithmetic: an address is one row and one column (`RowAndColumn`,
`AddressOf`), a clipped box is made of whole bytes (`BoxInPicture`), so its bytes are
the pixels of the frame (`WrittenIsFrame`), and a dot never crosses a byte (`Halves`).
The hypothesis is needed for the second theorem only: `rectangle` clips the corner of a
box that begins before the origin and keeps its size.

`ParameterSetsAreFound` (`FindsTheSets`): for any payloads in which, as the encoder escapes
them, no start code begins, any number of units and both lengths of start code.
`BytesOfUnit` says what the bytes of a unit can look like to the scan; `RoundFindsUnit`
that a round of the loop which begins where a unit ends takes exactly the next one, with
the zero of a long start code left to the unit that it opens; `ScanInv` that what was collected
is the first unit of each kind among those that were passed.

**Only model-checked.** All liveness (`QueuedIsServed`, `PublishesAgain`,
`StopCompletes`, `PacketCompletes`, `Settles`, `Recovers`, `LockReleased`, `BoxesCleared`,
`ShutdownCompletes`, `ProgressOrExit`): fairness is out of the prover's reach.
`RolledBackSaveLost`: its only parameters are the switches and the calls that may fail, and the run
goes through all of them; there is nothing left whose every value a proof would add.

## 5. Not modelled

* **Durations.** 1 s in the queue against 5 s of IO time-out
  (`publisher_queue.hpp:31`): IO may fail at any moment and time passes freely, so
  whether a slow connection can ever be made is not a question these models can be
  asked. It is listed as a hazard without a property.
* **Several endpoints of one manager.** They share the copy of the parameter sets and
  `g_stopping`, both read-only for them; fan-out to a second queue is the same push.
* **What the SDKs do**: encoding, detection, the picture. They appear as calls that
  return or fail, and as callbacks.
* **ISP**: zoom, focus, several cameras, the fast-boot path, image quality that does not
  come from the INI file. **EasyLogger**: the asynchronous and buffered outputs, which
  the build disables, keyword filters, colours, hexdump.
* **Grammar of URLs and keys that have only a range**, frames cut in the middle of a
  NAL unit, the wire protocol of a probe, formatting and wording.

## 6. Plan

Done: the queue, the endpoint, the route, the service, capture, the media objects, the
overlays, the settings, the logs, with their runs, and the proofs of section 4. What is left:

1. Proofs for the refinement of the queue inside the endpoint, and for `DumpLoads` of
   quoted values, once the writer quotes them.
2. The manager with two endpoints, one blocked while the other publishes.
3. A clock for the IO time-outs, to decide the remaining hazard.
