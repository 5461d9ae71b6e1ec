# Verification of FloralDevice

`floral_device_service` is the guest half of a remote Android device: one native process that
streams video and audio to a host, takes the host's control requests, and gives the device's sensor,
GNSS and display HALs the state the host decides. `FloralInputService` is a second, Java process that
injects the host's touch events. This directory holds TLA+ models of the stateful parts of both,
the TLC configurations that check them on small instances, and proofs (TLAPS) about the modules
where a proof for every value of the parameters matters most.

Everything is run from this directory:

    tlc -workers 2 -config MCHostVideoSink.cfg MCHostVideoSink.tla     # one run
    tlapm VideoProofs.tla                                              # one proof module

`PROJECT.json` lists the runs, the mutants that each property catches, the source lines every
definition stands for, the hazards of the code and the findings.

## 1. Inventory

The system runs as a set of threads around a few mutexes. `service/main.cpp` builds the objects once,
wires them together, and joins the binder pool (4 threads).

    composer HAL --binder--> FrameConsumerService -> VideoFrameConsumerBackend
                                                        | VideoStreamSession
                             encoder (AVC/HEVC) <-------|  VideoOutputController
                                                        |  HostVideoSink --FSV2 socket--> host
    audio HAL ---binder----> AudioPcmSinkService -> AudioStreamSession (PCM FMQ, Opus)
                                                        |  HostAudioSink --FSA1 socket--> host
    host --FHC1 socket--> HostControlChannel -> DeviceControlHandler -> simulation, displays,
                                                        encoders, power, radio, Wi-Fi
    sensor, GNSS HALs <--binder, FMQ--> SimulationStateService (configuration, truth, external state)
    display HAL, broker <--binder--> DisplayTopologyStateService
    host --FDO1 socket--> OperationServer -> InputStateMachine -> Android input
                                                  ^ DisplayTargetResolver (display manager callbacks)

| Component | State it keeps | Operations | What makes it hard | What makes it correct |
|---|---|---|---|---|
| `HostVideoSink` | bounded queue, packet and byte counters, packet in flight, connected, stopped | submit a batch, discard, send (own thread), stop | producers, sender and stopper interleave; `send` blocks outside the mutex | limits and counters exact, no lost wake-up, `Stop` returns |
| `VideoOutputController`, `VideoStreamSession` | stream state, sequence, cached codec configuration, discontinuity | process config / key / delta / end of stream, recover | refused batches, a discard racing the sender, lost key frame requests | the host can decode all it gets, every hole is announced, recovery ends |
| `VideoFrameConsumerBackend` | generation, session, buffers, pacing, pending frames | register, submit, drain, maintain, reconfigure | polled maintenance, stale generations, two sources of frames, pacing on unsigned times | a frame of an old generation is refused, updates are in force, pacing keeps the rate, packets are taken, hosts accepted |
| Simulation (`SimulationStateService`, `SimulationController`, `SimulationStateClient`) | configuration and generation, listeners, snapshots, FMQs | mutate, register, notify, refresh, publish | either process dies and returns; callbacks outside the lock | clients end up with the current configuration; connected means registered |
| External state fan-out | one FMQ per reader, its pending-discontinuity flag | open, publish, drain | full queues, eviction, process death | losses are flagged; served through the queue opened last |
| `AudioStreamSession`, `HostAudioSink` | current FMQ, revision, generations; queue, forced discontinuity, socket | replace the input, read, encode, send, reconnect, stop | three threads, no common lock, a notification outside it | losses are flagged, a wire generation is one stream, the destructors return |
| `HostControlChannel`, `DeviceControlHandler` | authority, lease deadline, active socket | accept, read, handle, respond, expire, stop | disconnections, timed waits, a destructor | control ends with the lease, neither late nor early |
| Input broker (Java) | bindings, gestures, invalidation epochs | bind, unbind, touch, display change, reset | operation thread against main thread | exclusive leases, no orphaned pointers, the host knows |
| `DisplayTopologyStateService`, controller and handler | displays, listeners | replace, register, unregister, notify, expire | callbacks outside the lock, listeners that die | every registered listener is sent the displays in force |
| `UnixSocketServer` | listening descriptor, inode | probe, bind, accept, unlink | two servers on one path | never removes another's socket |
| Power, radio, Wi-Fi handlers | a proxy of the service | parse, forward over binder, answer, release | the service dies and returns, nothing links to its death | an internal error only while the service is down; an answer that always fits |
| FHC1 request and response formats | none | parse, serialize | sizes, counts and limits that must agree | no read past the payload, no response the channel refuses |
| Encoder sessions: `EncoderSession`, `MediaCodecSurfaceEncoder`, `FfmpegVaapiEncoderBackend`, `EglFrameCopier` | GPU and codec handles, buffers, packets moved aside, key frame request | create, register, submit, repeat, set bitrate, dequeue, destroy | each step of a creation or of a frame may fail; the GPU reads on after a call returned | frames come out once and in order, nothing leaks or is used after its owner, buffers are idle when handed back |
| Encoder control handlers | none | parse, apply, answer | | as the formats |
| Importers, other serializers, profile parser, security policies, process wiring | little or none | | | |

The hard behaviours line by line are the `hazards` of `PROJECT.json`, each with the properties aimed
at it or the reason why none is yet.

## 2. Modules

| Module | Models | Composes / extends |
|---|---|---|
| `HostVideoSink` | `transport/HostVideoSink.cpp` | |
| `VideoStreamContract` | abstract specification: what one stream generation promises its host | |
| `VideoOutput` | `session/VideoOutputController.cpp`, the drain loop of `VideoStreamSession.cpp`, encoder and host | instance of `HostVideoSink`; refines `VideoStreamContract` |
| `VideoOutputProofs` | it implements `VideoStreamContract` | extends it |
| `FramePacing` | `ShouldDropFrameLocked` of `service/VideoFrameConsumerBackend.cpp` | |
| `VideoBackend` | the rest of `service/VideoFrameConsumerBackend.cpp`, with encoder, host and composer | extends `FramePacing` |
| `VideoProofs` | theorems about the sink, the pacing and the backend, which implements the pacing | extends `HostVideoSink` and `VideoBackend` |
| `SimulationConfigSync` | configuration path of `simulation/SimulationStateService.cpp`, `SimulationController.cpp`, `SimulationStateClient.cpp` | |
| `ExternalStateFanout` | external-state path of the same service and client | |
| `SimulationProofs` | theorems about both | extends both |
| `AudioStream` | `audio/AudioStreamSession.cpp`, `transport/HostAudioSink.cpp` | |
| `AudioStreamProofs` | theorems about it | extends it |
| `ControlLease` | `control/HostControlChannel.cpp`, `control/DeviceControlHandler.cpp` and the lease hooks below it | |
| `ControlLeaseProofs` | theorems about it; it implements `AuthorityLease` | extends it |
| `AuthorityLease` | abstract specification: what FHC1 promises of the authority lease | implemented by `ControlLease` and by `DeviceControl` |
| `InputBroker` | `InputStateMachine.java`, `OperationServer.java`, `DisplayTargetResolver.java` | |
| `InputBrokerProofs` | theorems about it | extends it |
| `EglFrameCopier` | `codec/EglFrameCopier.cpp` | |
| `VaapiEncoder` | `codec/FfmpegVaapiEncoderBackend.cpp` | extends `EglFrameCopier` |
| `EncoderContract` | abstract specification: what an encoder promises its stream | |
| `EncoderSession` | `codec/EncoderSession.cpp`, `codec/MediaCodecSurfaceEncoder.cpp`, the constructors and destructors of the other two | extends `VaapiEncoder`; refines `EncoderContract` |
| `EncoderSessionProofs` | theorems about it; it implements `EncoderContract` | extends it |
| `ControlFormats` | the FHC1 header and the parsers and serializers of every control area | |
| `DisplayTopology` | `topology/DisplayTopologyStateService.cpp` | |
| `DeviceControl` | `control/DeviceControlHandler.cpp`, the handlers of all seven areas, `simulation/SimulationController.cpp` | extends `ControlFormats` and `DisplayTopology` |
| `DeviceControlProofs` | theorems about it and about `DisplayTopology` | extends it |
| `MC*` | constants of the runs | extend the modules above |

Two conventions hold everywhere. A critical section of a mutex (a `synchronized` method, in the
broker) is one action; a blocking call and every gap between two critical sections is a state of the
thread, kept in a program-counter variable, so that other threads run there. A handler's calls into
another component happen in the handler's action unless the code releases a lock around them.

### HostVideoSink

`SubmitBatch(batch, status)` is the mutex-protected body of the C++ function with its order of early
returns (invalid, stopped, disconnected, full). The sender is `SenderWait` (condition variable,
with `SpuriousWakeup`), `SenderTake`, then `SendSucceeds` or `SendFails` for the system call outside
the mutex and the bookkeeping after it. `Notified` turns "waiting" into "checking", which is what
`notify` does; a forgotten `notify` is then a forgotten `Notified`, and `NoLostWakeup` finds it.
`Stop` is three actions: `StopMark` (under the mutex), `StopShutdown` (of the socket), `StopJoin`.
Sizes come from the constant function `WireSize`.

### VideoOutput and VideoStreamContract

The sink above is an instance: the controller's `Submit` and `DiscardPending` are the sink's own
actions, and the sender runs between them. The encoder is external and may emit any legal
succession of configuration, key, delta and end-of-stream packets, and fail. `Process…` follow
`VideoOutputController::Process` kind by kind; `DiscardAndRecover` / `DiscardAndEnd` are the second
critical section after a refused batch. The host is the last packet read. `VideoStreamContract` says
packet by packet what the host may be handed; the refinement maps its variables to the host's record.
"disc" and the packet sequence are the header's; the contract demands that a key frame after a hole
carries both, that a key frame without a hole carries no mark, and that a delta frame follows its
reference with nothing missing in between.

### FramePacing and VideoBackend

`FramePacing` is `ShouldDropFrameLocked` on one frame (`DropFrame`, `AdmitFrame`) with its unsigned
arithmetic, and `admitted`, the history of the times it let through. `VideoBackend` keeps the session.
Every operation of the class holds one mutex from begin to end, so each is one action, or one per way
through it: `GetStreamState` is `DestroySession`, `AcceptFails` or `CreateSession`
(`MaintainSessionLocked`); `RegisterBuffer` and `SubmitFrame` with any generation, `RefuseRequest` for
a session that is lost; `ChangeStructure` and `ChangeBitrate` for `ApplyVideoEncoderConfig`, whose
configurations are reduced to a bitrate and everything else. The output worker holds the mutex from one
iteration to the next and gives it up where it waits: `worker` says which, and the other operations
need `MutexIsFree`. `mode` tells the encoder that the worker repeats static frames for (VA-API) from the
one that repeats them by itself (MediaCodec). Packets and what becomes of them are `VideoOutput`'s;
here the encoder is two numbers, frames in work and packets ready. What a rejected session's encoder
holds is forgotten with the rejection, since nothing looks at it again.

### SimulationConfigSync

The configuration is its generation and the set of external sources; targets matter only because
changing one makes a generation. `MutateConfig` returns unchanged at equality, as the code does.
`NotifyListener` sends the callbacks one at a time after the lock is released. The client's
`RefreshConnection` is `FetchConfig`, `InstallConfig`, `AddListener`, `FirstCallback`, with a failure
after each; `callbacks` holds the oneway calls under way to a client, first in first out. Service and
client lives are numbered so that a callback to, or from, a dead process is told apart.

### ExternalStateFanout

`OpenExternalStateStream` replaces the process's entry and evicts the oldest at the limit;
`PublishExternalState` writes every queue with room and sets `pending_discontinuity` for the others;
`DrainExternalStates` empties the reader's queue. The service's list of entries is a set here: queues are
numbered as they are opened, so their numbers are the list's order, and `Oldest` its first entry.
`holeSeen` is a history variable: a reader consumed a record after a hole that no record in between
announced. Its types, initial state and specification are `FanoutTypeOK`, `FanoutInit` and `FanoutSpec`,
so that one module of proofs can extend both halves of the service.

### AudioStream

`SetInputQueue` is three critical sections (`OpenOutput`, `ForgetGeneration`, `DiscardPending`). The
worker copies the queue pointer and revision, reads a record outside the lock, then checks the
revision, stamps, encodes, enqueues. The sender takes the force flag with the packet it pops. Records are
numbered by output and position so that losses can be told; the HAL's own generation is a separate
value because a restarted HAL, or the next output, may repeat it. The code tells outputs apart by that
number and by forgetting it when the input is replaced, and the worker runs between the sections of `SetInputQueue`.
`Owner` is the output that `input_stream_generation_` is about, and a stamped record keeps it (`owner`). It is another
than the record's own in two places: a record of the old output that passed the revision check before `SetInputQueue` began and is
stamped after it forgot, and one of the new output read after the queue was replaced and stamped before. If both outputs have
the same number, such a record goes out in the other output's wire generation, without a discontinuity from the stamp.
`GenerationIsOneOutput` says that nothing else does: all records of a wire generation have one HAL number and one owner, so
those stamped for their own output are of one output. The wait for an input is two steps, since the destructor
clears `running_` and notifies without `input_mutex_`: between the predicate (`FindNoInput`) and the
wait (`WaitForInput`) a notification is lost. `main` destroys the session when its start-up fails, where
the worker has no input yet. `life` follows the destructors: the session joins its worker, then its sink
joins the sender.

### ControlLease

Time is in ticks: `Lease`, `Reconnect` and `Poll` are the code's three durations, and
`lease_deadline_` is kept as the time left. The worker's program counter follows `Run`,
`ProcessConnection`, `PollSocket` and `WaitFor`. Requests are reduced to the domain they take or
release (`HandleMutation`, a success that refreshes the lease), to those that do not
(`HandleQuery`), and to failures. The destructor is marked, shut down, joined. `silence` is a history
variable: ticks since the first disconnection after the last successful mutation.

The constructor's initializer list starts the worker (line 52) before the members declared after it are initialised.
`Init` is the moment the thread starts; `ConstructSocket`, `ConstructAuthority` and `ConstructDeadline` are the rest of
the constructor, in the order of declaration, and the worker runs between them. Before its initialisation a
member holds whatever the memory held: `authority` and `deadline` are arbitrary, `active_socket_fd_` is written before it is
read. A worker that is quicker has its writes undone. The socket it has accepted becomes -1, and `~Impl` then shuts
nothing down: it joins a worker that sends to a host that does not read. Locking `socket_mutex_` before its
initialisation may hang for good (`AcceptsTooEarly`, "stuck"). An authority taken by a
request that was served whole in that time is lost, and not given back when the host goes; a deadline found in the memory
may expire. `Settled` (the constructor has returned, and the last mutation, if any, was handled since) and
`OutOfReach` (the worker is in a connection whose socket is not the active one, or is stuck) say where the properties do
not hold; `DestroyReturns` without `OutOfReach` is violated. The destructor begins after the constructor.

`AuthorityLease` is the same lease without its clock: held, running, or gone. `DeviceControl` knows no
more of it, and leaves its time to this module.

### InputBroker

Three actors: the operation thread (one connection after the other), the main thread (display
callbacks), the host. `ResolveBind` reads the geometry before the state machine's lock is taken;
`BindApplied`, `BindUnchanged`, `BindRefused` are the locked part; `WriteResponse` comes after it.
`HandleDisplayChange` is the locked part of a display event and `OnTargetInvalidated` the writes
after it. `android` is the framework's view: pointers down on each display, and whether a failed
CANCEL left them behind. `hostBound` and `hostDead` are what the host has been told.

### EglFrameCopier, VaapiEncoder, EncoderSession and EncoderContract

`VideoFrameConsumerBackend` serialises all calls, so an operation is one action, with one disjunct per
way out of it. `EncoderSession` is the life of a session: `Candidates` is the order in which `Create`
tries the backends, `MediaCodecPlan` and `VaapiPlan` the resources in the order they are taken, and
`MediaCodecRelease` and `VaapiRelease` the order of the destructors, one step per resource in both
directions. A creation may stop at any step. `Owners` names what a raw handle is made from: EGL and VA handles count no
references. In between the session forwards to `VaapiEncoder` (registration and surfaces, source
wait, conversion, `avcodec_send_frame` with its EAGAIN, `pending_packets`, the bitrate change that
drains the codec, frees it and makes another, end of stream) or to a MediaCodec fed by `EglFrameCopier`.
`current` is the thread on which the EGL context is current: an unbinding that fails leaves it there,
and later calls from other threads are refused. `reading` is what the GPU still reads, `lent` what was
handed back without a fence. Frames are numbered; a packet carries the number of its
frame and that of the picture it shows, so that a repetition can be told. `EncoderContract` is a queue: what is
accepted comes out once, in order, a key frame where one was asked for; the refinement maps the queue
to what was moved aside followed by what the codec holds.

A MediaCodec whose buffers are all in use has none for its window, and `eglSwapBuffers` then waits inside `SubmitFrame`, while
`VideoFrameConsumerBackend::SubmitFrame` holds `mutex_`. A wait that the codec ends by itself is part of
`MediaSubmit`. For a codec that can only go on once its output is taken, `SubmitWaits` is the call that does not return: no
operation can begin while `waiting` is not empty, the output worker's `DequeueOutput` included, since `DrainOutputLoop` needs
the same mutex. Nothing in this repository ends that wait; `WaitingSubmitFails` is a codec that abandons its window.

### ControlFormats, DisplayTopology and DeviceControl

`ControlFormats` keeps of a payload what its parser looks at: its size, the version and size it
declares, whether reserved fields are zero, how many records of which key, whether the field values are
legal. A parser returns whether it accepts and how far it has read. A serializer returns the size,
the size it declares, and whether the answer renews the lease. The topology's records have variable
sizes: `ScanRecord` is one turn of the parser's loop, on what the turns before it left, and `TopologyScan`
the recursive function that takes the turns in order; `Total` adds up variable sizes in the same way.

`DisplayTopology` is the state service: `ReplaceExternalDisplays` under the mutex, then
`TellListener` once per listener copied there; `RegisterListener` copies a snapshot and
`RegistrationCallback` sends it later. `told` is a history variable: who was sent the displays in
force. A oneway call to a dead process fails, one to a live process may; either removes the listener.

`DeviceControl` takes one request at a time from header to answer: `ReceiveRequest`, one `Handle…` per
area, `CallRemote` for what runs in another process, `TellTopology`, `SendAnswer`, and the expiry in
the order `OnAuthorityLeaseExpired` calls the handlers. The three remote handlers share one body as
they do one shape: a proxy, fetched when there is none, called, forgotten when the call fails, and
called again where the code retries. None of them links to the service's death (`linkToDeath` is not
called anywhere in `power/`, `radio/`, `wifi/`), so `proxy` may be of a life that is over. `answered` is a
history variable: the state that the answers given, and the leases run out, amount to.

## 3. Runs

Bounds are listed with what they must be large enough for. Each is a named constant.

| Run | Checks | Bounds |
|---|---|---|
| `host_video_sink` | `PacketAccounting`, `ByteAccounting`, `NoLostWakeup`; `StopReturns`, `PendingIsTaken` | 5 packets, 7 bytes, packets of 1, 2 and 3 bytes in batches of up to two: each limit refuses a batch the other admits. No other bound: the sink's state is finite by its own limits. |
| `video_output` | `HostGetsDecodableStream` (refinement of the contract), `RecoveryCompletes` | 6 frames, 2 configurations; 3 packets, 4 bytes, key frames of 2: a hole, a key frame that is refused in its turn, and its successor. Recovery is owed only while the model has frames left. Deadlock off: the stream ends. |
| `video_backend` | `RateIsKept`, `OnlyCrowdedFramesAreDropped`, `ConfigIsCurrent`, `BuffersAreCurrent`, `PendingIsExact`, `RepeatedFrameIsRetained`; `OutputIsTaken`, `HostIsAccepted` | 3 ticks of half a second, 2 sessions, 1 buffer, 3 configurations, an encoder of 2 frames; frames may carry a time one tick old. A source frame, its repetition, a reconnection and an update in any order; a second repetition does not fit. The last tick never ends, so `HostIsAccepted` does not depend on the clock. `MaxPending` bounds only MediaCodec's count, which may exceed what it holds. Deadlock off: the composer need not call. |
| `simulation_config_sync` | `ConnectedIsRegistered`, `EveryChangeIsSeen` | 3 generations, 2 lives of the service and of the HAL: one change before, during and after a reconnection. `MaxCalls` bounds only the calls a reconnecting client leaves unread. |
| `external_state_fanout` | `NoSilentLoss`, `ServedThroughCurrentQueue` | 2 readers in 2 places, 4 openings: evictions and re-openings; 4 records into queues of 2: overflow and what follows it. |
| `audio_stream` | `SinkLossIsFlagged`, `GenerationIsOneOutput`, `DestructorReturns` | 2 outputs of 2 records each, queue of 2: overflow (records of both outputs count as one generation until `ForgetGeneration`), an output replaced, by one that repeats its number or not, in every state of the worker; the destructor begins in any state of both threads. Deadlock off: the destructor ends it. |
| `control_lease` | `NoOrphanedControl`, `NeverSleepsOverdue`, `ExpiryIsNotEarly`, `DestroyReturns` | Lease 5 > Reconnect 3 > Poll 2, the order of production's values; 2 domains in the process, 1 behind binder; the worker may overtake the constructor at every member, with any lease in the memory. Deadlock is checked: time always passes. |
| `input_broker` | `ExclusiveLeases`, `PointersAreOwned`, `HostKnowsItsBindings` | 2 slots, streams, displays, geometries, 3 pointers of which a gesture takes 2; 2 bindings, 2 display changes. Symmetric; no liveness is checked with symmetry. |
| `encoder_session` | `OwnersOutlive`, `NothingIsLeft`, `CodecIsThere`, `UnfencedBuffersAreIdle`; `KeepsContract` (refinement), `OutputIsGivenOut` | 1 session, 1 buffer, 2 threads, 1 fault anywhere (`MaxFaults`), 3 frames, a codec of 1 frame, a surface pool of 3, 2 bitrates, both builds with their fallbacks: every creation step fails once, a frame meets a full codec (of VA-API: it is moved aside; of MediaCodec: the submit waits, and fails or never returns), and a bitrate change drains behind it. A second session starts from what the first left, which `NothingIsLeft` says is nothing. Deadlock off: frames run out. |
| `device_control` | `ListenersHear`, `AnswersAreTrue`, `InternalMeansDown`, `RequestsAreSound`, `ResponsesFit` | The areas of one behaviour are a set with at most one remote service, since the areas share only the worker and the lease; 2 lives of a service, 2 listeners, per command a few payloads and, while nothing was asked for yet (parsers keep nothing), every odd one: wrong sizes, counts, versions, records. List contents reach both sides of each limit of 16 bits and of the protocol. An expiry comes between requests, with a host connected again or not; one that falls due while an answer is written is owed at the next idle moment. Deadlock is checked. |

No run checks a type invariant by itself; the modules state theirs, and the proofs' inductive
invariants contain them.

What the runs show: on these instances the properties hold for every interleaving. Each property is paired
in `PROJECT.json` with a mutant of a mapped definition, a plausible bug, under which the same run
finds it violated.

Two runs check a statement of the repository's own documents that the code does not keep:

| Run | Statement | What happens |
|---|---|---|
| `simulation_overtaken` | external sources return to autonomous mode when the lease expires (FHC1) | `registerListener` calls back outside the lock; a callback with the older configuration arrives after the expiry's, and the client stores what arrives last |
| `input_stale_bind` | a geometry change sends `TARGET_INVALIDATED` (FDO1) | the change falls between reading the geometry and binding |

### Fairness

- Sink: the sender thread and the stopper run (weak fairness). A `send` is sure to return only once
  the socket is shut down: a host need not read. `PendingIsTaken` is therefore about being taken
  from the queue or being behind a send under way, and `StopReturns` does not depend on the host.
- Video recovery: the drain loop, the sender, and a host that keeps reading; the encoder answers a key
  frame request that stays up infinitely often (strong fairness), which is what `RequestKeyFrame` asks
  of a codec. Without a host that reads, the queue may stay full for ever and recovery is not owed.
- Video backend: the output worker runs and its waits end, the encoder finishes frames, time passes. The
  composer's `GetStreamState` poll gets the mutex again and again (strong fairness: the worker frees
  it only where it waits). Every operation returns: a submit that waits for a full codec is `EncoderSession`'s. No fairness on frames, registrations, updates, hosts or failures.
- Simulation: a notification round that has begun goes on; each client's refresh goes on (it polls);
  a oneway call is delivered. No fairness on mutations or deaths.
- Audio: the worker, the sender and the destructor run; a read of the queue times out, and a connected host reads or
  hangs up, because nothing else ends a `send` there. No fairness on the HAL or on the destructor's beginning.
- Control: the worker, the handler and the destructor run, time passes, a `send` on a shut-down socket
  fails. The host is owed nothing and owes nothing, and the rest of the constructor is not owed either: `DestroyReturns`
  is about a destructor that has begun, with a worker it can reach.
- Encoder: the output worker calls `DequeueOutput` again and again, and of its calls infinitely many find no change of
  format to report (strong fairness: a drain pass makes up to `max_output_packets_per_drain`, 32,
  calls, so a single change does not use it up); a session marked for reset is closed. A submit that waits holds the
  mutex and disables both, and there is no fairness on its end: `OutputIsGivenOut` owes nothing while one waits. Where none does, the
  weak fairness takes it that `std::mutex` lets the output worker in between two calls of the composer. No fairness on
  frames, bitrates or faults.
- Fan-out, broker and device control are checked for safety only.

## 4. Proofs

TLAPS proves, for every value of the constants that satisfies the modules' named assumptions:

| Theorem | Statement |
|---|---|
| `SinkInvariant` | `SinkSpec => []SinkInv` |
| `SinkPacketAccounting` | `SinkSpec => []PacketAccounting` |
| `SinkWakeup` | `SinkSpec => []NoLostWakeup` |
| `SinkByteAccounting` | `SinkSpec => []ByteAccounting` |
| `SinkStopIsBounded` | the safety part of `StopReturns` |
| `StreamInvariant`, `HostStreamIsDecodable` | `Spec => []StreamInv`; `Spec => HostGetsDecodableStream`: the output controller over the sink implements `VideoStreamContract` |
| `OutputUsesTheSink` | the steps of `VideoOutput` are steps of `HostVideoSink`, or leave the sink alone |
| `RecoveryAsksForKey` | the safety part of `RecoveryCompletes` |
| `RateTheorem`, `DropTheorem` | `PacingSpec => []RateIsKept`, `PacingSpec => []OnlyCrowdedFramesAreDropped` |
| `BackendPaces`, `BackendKeepsRate` | `Spec => PacingSpec` for the backend, and so `Spec => []RateIsKept` |
| `ConfigTheorem`, `BufferTheorem`, `PendingTheorem`, `RetainTheorem` | the invariants `ConfigIsCurrent`, `BuffersAreCurrent`, `PendingIsExact`, `RepeatedFrameIsRetained` |
| `LentBuffersAreIdle`, `UsableSessionsHaveCodec` | `Spec => []UnfencedBuffersAreIdle`, `Spec => []CodecIsThere` for the encoder session |
| `SessionOwnersOutlive`, `SessionLeavesNothing` | `Spec => []OwnersOutlive`, `Spec => []NothingIsLeft` for the encoder session |
| `EncoderKeepsContract` | `Spec => KeepsContract`: the encoder session implements `EncoderContract` |
| `AudioLossIsFlagged`, `AudioGenerations` | the action properties `SinkLossIsFlagged` and `GenerationIsOneOutput` |
| `AudioJoinsNoSleeper`, `AudioStopIsBounded` | the safety part of `DestructorReturns` |
| `SyncConnectedIsRegistered` | `Spec => []ConnectedIsRegistered` |
| `SyncSettledIsCurrent` | `Spec => []SettledIsCurrent`: the safety half of `EveryChangeIsSeen` |
| `ReadersAreServed`, `LossesAreFlagged` | `FanoutSpec => []ServedThroughCurrentQueue`, `FanoutSpec => []NoSilentLoss` |
| `BrokerLeasesAreExclusive`, `BrokerPointersAreOwned`, `BrokerHostKnows` | the invariants `ExclusiveLeases`, `PointersAreOwned`, `HostKnowsItsBindings` |
| `LeaseInvariant` | `Spec => []Inv` |
| `LeaseNoOrphanedControl`, `LeaseNeverSleepsOverdue` | the two invariants of the same name |
| `LeaseExpiryIsNotEarly` | the action property of the same name |
| `LeaseDestroyIsBounded` | the safety part of `DestroyReturns`; only the constructor takes the socket away from the destructor |
| `ClockKeepsLease`, `RequestsKeepLease` | `Spec => HostLease!Spec` for `DeviceControl`, `Spec /\ []~early => HostLease!Spec` for `ControlLease`: both implement `AuthorityLease` |
| `EveryListenerHears` | `TopologySpec => []ListenersHear` |
| `HostsDisplaysAreHeardOf`, `InternalErrorsAreExcused` | `Spec => []ListenersHear`, `Spec => []InternalMeansDown` for the control channel |
| `UpdatesAreInForce` | `Spec => []AnswersAreTrue` |
| `AnswersFit` | `Spec => []ResponsesFit` |
| `EveryByteIsAccountedFor` | `Spec => []RequestsAreSound` |
| `NothingIsReadBeyond` | `Spec => []ParsersReadInside`, the half of `RequestsAreSound` that needs no assumption on a payload's records |
| `AcceptedIsWritten`, `WrittenIsRead` | for every payload and list of displays: the topology's parser takes exactly what its serializer writes, and reads back the list |

**The sink.** Assumptions: `SinkLimits` (both limits positive) and `SinkPackets` (packets have
positive sizes, batches are sequences of packets). `PacketAccounting` is not inductive: a failed send sets the counter to zero, which
accounts for what is held only because the same step empties the queue, and a successful send
subtracts one, which is sound only if a packet is in flight. `SinkInv` adds: `SenderHoldsPacket`
("sending" and a packet in flight are the same thing), `StopEmptiesQueue` (after `Stop` nothing is
enqueued), `DisconnectedExits` (a lost connection ends the sender), `NothingStranded` and the
types. One lemma per action; the theorem joins them. Bytes are a sum over the queue, and `WireBytes`
a recursive function, of which TLAPS knows nothing but its definition as a `CHOOSE`. That a function
with that recursion exists, that it is determined, and what an append or a tail does to it is shown
by the least counterexample: the least place where two such functions differ, or where a sum is not
what it should be, follows one where it is. The library's theorems for this take an operator
as a parameter; the well-foundedness of the naturals does not. The other sums and scans are
proved about in the same way.

**The video output.** Assumption: positive limits, and `None` is no packet. The contract speaks of what the
host has read, the controller decides on what it has queued, and between the two lies the queue. `StreamInv`
therefore has a *view* for each packet in the queue and in flight: what the host will know once it has
read that far. Each packet is one the contract lets the view before it take, and the last view is
what the controller's state describes: a controller that streams has a host that can decode the
next delta frame; one that waits for a key frame has a mark to put on it if anything is missing. A
discard, a failed `send` and `Stop` cut the views short at the place the sender has reached, and what
holds of every view is what recovery starts from. Appending extends the list of views by one and taking
drops one, so each action of the controller, of the sink and of the host is one lemma. `OutputUsesTheSink` is the
other direction of the composition: each batch the controller submits is one of packets (the sequence numbers stay within
their bound), and every step is one `HostVideoSink` has, so the theorems about the sink hold of the one under the controller.

**The simulation.** Assumption: the bounds are positive. A client that is registering with the service that lives, or
believes itself connected to it (`Listening`), is in that service's list, and has either held the configuration in force or has something coming:
a call under way, its own place in the round of notifications, or the callback of its registration. That is
`SyncInv`. It needs that a client never forgets the newest configuration it was sent (`NewestGrows`),
not that it applies them in order: it does not, which is what `simulation_overtaken` shows. `SettledIsCurrent`
follows: where nothing is on its way, the newest configuration a client was sent is the one in force. What is left to the run
is that the way is travelled.

**The fan-out.** Assumptions: positive limits (`FanoutLimits`), finitely many readers (`FanoutReaders`). `ServedThroughCurrentQueue` is
inductive with the types: an opening replaces the process's own entry and evicts the oldest of others only. `FanoutInv`
says of each reader's queue, after what the reader read last, that it has no hole
without a flag (`Unflagged`), and that it either ends with the state published last (`Newest`) or its entry is
pending. The second half is what the next record needs: written, it is flagged, or it has no hole before it. Queues are one reader's
each, and those not opened yet are empty.

**The broker.** Assumptions: positive bounds, and `None` is neither a geometry nor a target. `ExclusiveLeases` needs
`EpochsAreUsedUp`: the epoch of a binding is below the next one, so a new binding collides with none. `PointersAreOwned` is about the framework and the state machine at once: a pointer that is down on a
display belongs to the gesture of a target bound there, or a CANCEL failed and lost it. `HostInv` follows the two threads
through the gap between the state machine's lock and the socket: each invalidated binding is in the host's
record, or its report is in the hands of the thread that has still to write it, and a connection that ends leaves no binding
and no report behind.

**The lease.** Assumption: the three durations are positive and the two kinds of domains disjoint.
Nothing is assumed of their order, so the theorems hold for a lease shorter than a poll too. `Inv` says what the worker has undone by the constructor: nothing, as long as no
mutation was handled early (`NothingUndone`). Once a mutation is `Settled` it adds `LeaseInv`:
`LeaseClock` (silence is counted exactly while a deadline stands, it is the part of the lease already
used, and at least the whole lease once none is left), `OnALease` (control inside the process implies
authority, and authority without a connection implies a deadline), and `WaitFitsLease` (silence plus
what is left of a timed wait fits the lease, plus one poll for a poll). The sleep bound is inductive
only together with the clock: the wait is computed from the deadline, the property is about silence.
`ExpiryIsNotEarly` is a step property and follows from `LeaseClock` at the expiring step.

**One lease in two models.** `ControlLease` has the lease's time and abstracts the requests; `DeviceControl` has the requests and
lets the lease run out at any idle moment. That they speak of the same lease is a theorem about each: both implement
`AuthorityLease`, under refinement mappings that make a lease without a deadline one that is held. On the side of the clock
it is about the behaviours in which no mutation is handled before the constructor has returned (`[]~early`), since one that is may be
undone, and it rests on `Inv`: a deadline that has passed belongs to a host that has gone and changed nothing since. A worker that exits
leaves its lease uncounted, which the mapping calls running. On the side of the requests it rests on the worker being the one
that would notice the host's leaving, so the request it works on has a host (`RequestHasAHost`); an answer that finds the
host gone has renewed the lease all the same.

**The pacing.** Assumption: the interval is positive and a presentation time plus an interval does not
wrap; 63-bit times and intervals of at most a second satisfy it. `RateIsKept` compares any two frames
let through, and is inductive only with `SlotsAreKept`: the next slot lies beyond every frame let
through by as many intervals as frames followed it. `SlotAfterBounds` computes the end of a slot and shows
that the branch for a sum that does not fit is never taken. `OnlyCrowdedFramesAreDropped` needs
`SlotIsNear`, the other side of the bound.

**The backend.** Assumption: positive intervals and limits, configurations that are records. Every
step of the backend is a step of `FramePacing` or leaves its variables alone, so the pacing's theorems
carry over. The three books have an inductive invariant each (`ConfigInv`, `BufferInv`, `PendingInv`),
which adds to the property the types and what holds without a session: no buffers, an empty encoder. `RepeatedFrameIsRetained` is inductive
as it stands, because each operation that ends a session forgets the frame in the same critical section.

**The displays.** No assumption but that the lists asked for are lists of displays. `ListenersHear`
says that a registered listener was sent the displays in force, or that a call with them is still to
come: from the round of the worker, or from a registration whose snapshot is still current. With the
types it is inductive (`HearingInv`). The step that matters is the replacement, which makes every
snapshot copied by a registration stale and forgets who was told: it is harmless because the same
critical section puts all registered listeners into the round, those still registering included. The
property is about what is sent: as with the simulation's listeners, a stale snapshot may be sent after
the one in force. `EveryListenerHears` is about `TopologySpec`, the service under any caller;
`HostsDisplaysAreHeardOf` carries it to `DeviceControl`, whose worker and listeners make the same steps
and whose other areas leave the topology alone.

**The updates.** `AnswersAreTrue` compares what the answers amount to with what is in force between two
requests. `AnswersInv` says it of every state of the worker: at the expiry of a lease the displays go
first, so that after them, and only there, the configuration is still to follow. That no lease left over
takes an update back from a connected host rests on `mine`, the updates answered to that host: a lease
can only run out while there are none, since the answer of an update renews the authority, and that is
decided in the serializers (`Renews`, one fact per answer). Lists of displays are compared by length and
element in the code; `ListsAreEqual` makes that the equality of the state, which is why `DisplaysAreListed` is assumed.

**The answers.** `ResponsesFit` is a statement about each serializer. Assumption: `ContentsAreKept`, what the owners of
the states queried keep to. Part of it is this repository's (an encoder's configuration is complete once
made), part is on services of other repositories: no more cells, calls and access points than the capabilities FHC1
announces (32, 8 and 64), well-formed addresses, and texts below 1 KiB. It does not
bound the SMS events, nor what the HALs publish: the code cuts the former to the newest that fit (`SmsFit`)
and checks the latter. Every other size is a sum of bounded terms (`TotalIsBounded`) or a constant,
and so below the protocol's 64 KiB and 16 bits of length.

**The requests.** `RequestsAreSound` says that no parser looks past the payload, and that a payload it accepts is whole:
its bytes are those of a header and of the records it counts. Assumptions: `PayloadsAreSized` (a payload has a size and a
count), `AreasAreKnown`, and two that say what it is for abstract records to be those of bytes. `RecordsAreListed`: a list of
records of one size, one behind the other, has as many as its bytes have room for. `DisplaysAreListed`: a display has
the rates and the name bytes its record counts, records stand one behind the other, and there is none behind one that ends where
the payload does. Nothing is assumed of versions, declared sizes, or of a count agreeing with what follows it: that is
what parsers are to find out.

A parser that looks at nothing before it has compared the size reads inside by arithmetic, one lemma per
area, and the size it compares with fixes the number of records (`HasLayout`, from the sizes FHC1 gives each command). The displays'
parser reads record by record, and each record says where the next begins: `ScanReadsInside` is an induction over
the records, in which the turn that stops has read no further than the turn before, or than the header of the
record it refuses. A scan that ends well took every record, one behind the other (`ScanTakes`), never one that is
not there (`NoRecordIsTaken`), and it ends where the payload ends only if it took the last: fewer records than there are end before it
(`FirstRecordsEnd`). `AcceptedIsWritten` adds that what was taken is what the serializer would write, and `WrittenIsRead` the converse:
records that fill the payload leave each turn the room it needs (`ScanFollows`), because a running sum never falls.

**The services.** No assumption. That an internal error means the service was down (`InternalMeansDown`)
is about an answer; what it rests on is the proxy. `ExcuseInv` says that a service that is down and a
proxy of a service that is gone both account for a failure to come, that a call is made over some proxy,
and that an internal error, once answered, has its excuse and has cost the proxy. The last part is what
carries the invariant over `SendAnswer`, which uses the excuse up: had the answer left a stale proxy
behind, the next request would fail without one. `RepliesAreNoErrors` goes through the serializers: no
answer of a service that was reached is an internal error.

**The encoders.** Assumptions: the composer submits a buffer only when the fence of its last use has
signalled (`Submittable`), and a caller makes no call but the destructor's after a failure
(`InService`, which also asks for the last call's return); both are guards of the model. `UnfencedBuffersAreIdle` and `CodecIsThere` are then
inductive: a copy that ends without a fence has waited, and the one way to lose a codec reports a failure.
The refinement maps the queue of `EncoderContract` to the pending packets followed by the packets of the frames
in the codec. `ReceiveKeepsOrder` is its heart: packets moved from the codec to the pending queue, as a
full codec, a change of bitrate and the end of the input do it, leave that concatenation as it is, so
what is added comes behind all of it. Each operation is then a step of the contract or none: one lemma
each, over lemmas about what an accepted, failed, repeated or given-out frame does to the contract's state.
Besides the types the invariant needs that only the VA-API encoder sets packets aside: MediaCodec's
output would otherwise overtake them.
`OwnersOutlive` and `NothingIsLeft` are about lists of resources, so `ResourceInv` follows the position in
them. While a backend is built (`Building`) it holds what its plan took so far less what a later step
freed; while it is destroyed (`Dismantling`) all it holds is still ahead in the destructor's order, and what
the copier and the encoder import goes before what it depends on. That each owner stands before
its dependants in a plan, and after them in the order of release, is then a fact about each pair of positions, and it is
used where a creation stops half-way. An import that outlives its entry, and a context left bound on another thread, are excused
by the fault that caused them (`CopierInv`), as they are in the code.

**The audio path.** Assumption: positive limits, HAL generations from 1 on. Both theorems are about the
step that delivers a packet; what they rest on is what the sink still owes. `LossInv` says that the queue
holds the packets enqueued last, numbered without a hole, and that whatever lies between them and the
packet delivered last is accounted for: by the force flag, or by the discontinuity of the packet in the
sender's hand. It is inductive because the flag is cleared only where a packet takes it over, and set
wherever one is dropped; a sink that is being destroyed clears its queue without the flag, which is harmless as no packet
is taken any more. `StreamInv` collects every generation the sink still answers for, with its HAL
generation and its owner: one that the worker still feeds has the HAL generation it knows of and the output that is about, and
while it holds a stamped record, that record's. The second half carries the proof over a `SetInputQueue` that resets the known generation
between the stamp and the enqueueing. That the queue holds one generation at a time makes them ascend.

**The safety part of liveness.** A liveness property says that something is possible, that it comes nearer, and that
the scheduler lets it. The last part needs fairness and `ENABLED`, which the prover does not have; the others are theorems,
with no assumption beyond the modules' own. For the three destructors: no thread is joined that only somebody else could wake or
unblock, and a function of the program counters falls with every turn the joined threads still take. `LeaseDestroyIsBounded`
needs `SocketIsActive`: a worker that is past its check of `stopping_` uses a socket that was shut down, unless the constructor
had taken that socket away; one accepted after the destructor looked is never used. Its third conjunct says that nobody else takes it away, and the
constructor only before it has initialised that member. `SinkStopIsBounded` follows from `SinkInv`. `AudioJoinsNoSleeper` shows why the race that
`DestructorReturns` leaves out ends with the first input: `SetInputQueue` replaces the queue under the mutex of the wait,
notifies in its last section, and no destructor begins in between. `RecoveryAsksForKey` says that the request for a key
frame is never lost while a stream recovers, and that the key frame then finds an empty queue. `NoLostWakeup` is that part of `PendingIsTaken`,
`SettledIsCurrent` that of `EveryChangeIsSeen`, and `KeepsContract` says which packet `OutputIsGivenOut` owes.

**Only model-checked.** Every safety property of the passing runs is proved. Liveness under
fairness and everything that needs `ENABLED` is out of the prover's reach: `StopReturns`, `PendingIsTaken`,
`RecoveryCompletes`, `OutputIsTaken`, `HostIsAccepted`, `EveryChangeIsSeen`, `DestructorReturns`,
`DestroyReturns` and `OutputIsGivenOut` stay with TLC. `KeepsContract` and the other refinements are proved without
fairness, as the abstract specifications have none.

## 5. What is left out

Not modelled, and why: what VA-API, MediaCodec, EGL, FFmpeg and libopus do inside a call (external:
here each call succeeds or fails); `OpusEncoder` and `GrallocDmaBufExporter` (one call each);
`HardwareBufferImporter`, `FrameConsumerService` (parcel checks and imports without state); the
FSV2 and FSA1 packet headers, the FDO1 operations, external-state and PCM records (stateless, field by field,
round-trip tested); `UnixSocketServer` (its state is the file system's, at start and stop); `DeviceProfile` (a parser) and
`RandomProcess` (floating point); SELinux and peer checks (one-shot configuration); the power, radio and
Wi-Fi services (other repositories; here they answer anything, fail, die and return);
statistics and logging, everywhere.

Inside modelled components: the encoder's timestamp table (`VideoOutput`), the
destructor, the wrap of generations after 2^31 - 1 sessions, how long an operation holds the mutex (an
acquire fence may take five seconds; a submit to a full MediaCodec may take for ever, which `EncoderSession` has) and the change of format an encoder reports (`VideoBackend`), catalog and snapshot publishing
(`SimulationConfigSync`; `DeviceControl` queries any published state), key frames of the codec's own GOP, colour conversion, shaders (`VaapiEncoder`, `EglFrameCopier`), bitrate updates (`AudioStream`), packet parsing
and the server socket (`InputBroker`).

## 6. Plan

Order of work; 1 to 10 are done.

1. `HostVideoSink` with its proofs.
2. `VideoOutput` over it, refining `VideoStreamContract`.
3. `SimulationConfigSync`, then `ExternalStateFanout`.
4. `AudioStream`.
5. `ControlLease` with its proofs.
6. `InputBroker`.
7. `FramePacing` and `VideoBackend` with their proofs.
8. `DisplayTopology` with its proof, `ControlFormats` and `DeviceControl` over both.
9. `EglFrameCopier`, `VaapiEncoder` and `EncoderSession`, refining `EncoderContract`.
10. Proofs of the safety properties of the runs, and of the safety part of the liveness properties.
11. Snapshot publishing of the simulation service; two
    `UnixSocketServer`s on one path.
