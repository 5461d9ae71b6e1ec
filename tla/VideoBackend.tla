---------------------------- MODULE VideoBackend ----------------------------
(***************************************************************************)
(* The video stream's session keeper, service/VideoFrameConsumerBackend.cpp: *)
(* called by the composer (GetStreamState, RegisterBuffer, SubmitFrame) on *)
(* binder threads and by the control worker (ApplyVideoEncoderConfig),     *)
(* with an output worker of its own.  One mutex guards it all, so an       *)
(* operation is one action; the output worker keeps the mutex from one     *)
(* iteration to the next, and releases it where it waits.                  *)
(*                                                                         *)
(* Below it are the encoder, as far as the backend sees it (frames go in,  *)
(* packets come out later; one kind repeats a static frame by itself), and *)
(* the sink's connected flag.  Packets, recovery and the sink's queue are  *)
(* the module VideoOutput's.  Time is counted in ticks.                    *)
(***************************************************************************)
EXTENDS FramePacing, FiniteSets

CONSTANTS
  Buffer,             \* the composer's buffer ids
  Config,             \* encoder configurations: [structure, bitrate], see ChangeStructure
  FirstConfig,        \* the configuration the service starts with
  InitialDelay,       \* kStaticFrameInitialDelay
  RepeatInterval,     \* kStaticFrameRepeatInterval
  ReconnectInterval,  \* config_.reconnect_interval
  DrainLimit,         \* config_.max_output_packets_per_drain
  LastTimestamp,      \* the largest int64_t
  Offsets,            \* what the composer's presentation times differ from now by
  MaxTime,            \* model bound: ticks
  MaxGeneration,      \* model bound: sessions
  MaxOutputs          \* model bound: frames and packets inside the encoder

ASSUME BackendAssumption ==
  /\ { InitialDelay, RepeatInterval, ReconnectInterval, DrainLimit, MaxTime, MaxGeneration,
       MaxOutputs } \subseteq Nat \ {0}
  /\ LastTimestamp \in Nat /\ Offsets \subseteq Int
  /\ Config \subseteq [ structure : Nat \ {0}, bitrate : Nat \ {0} ] /\ FirstConfig \in Config

Off == -1             \* time_point{}

\* Model bound: frames counted as pending.  MediaCodec's count may exceed what it holds.
MaxPending == MaxOutputs + 1

VARIABLES
  now,
  generation,
  session,            \* session_ != nullptr
  reset,              \* reset_required_
  connected,          \* session_->transport_connected()
  mode,               \* who repeats static frames: the "backend" or the "codec"
  desired,            \* desired_session_config_
  applied,            \* session_->encoder_config()
  buffers,            \* buffers_
  imported,           \* the encoder's buffer table: imports made for each buffer id
  registeredIn,       \* history: the generation each buffer was last registered for
  pending,            \* pending_output_frames_
  inCodec, ready,     \* frames the encoder works on, packets it has ready
  hasFrame,           \* the encoder retains a frame
  lastSource,         \* last_source_frame_at_
  lastRepeat,         \* last_static_repeat_at_
  lastPresentation,   \* last_presentation_time_nanos_
  nextReconnect,
  hostWaiting,        \* a host is in the listening socket's backlog
  worker              \* the output worker, see Phases

sessionVars == << generation, session, reset, connected, mode, applied, nextReconnect >>
bufferVars == << buffers, imported, registeredIn >>
encoderVars == << inCodec, ready, hasFrame >>
staticVars == << lastSource, lastRepeat, lastPresentation >>
vars == << pacingVars, now, sessionVars, desired, bufferVars, pending, encoderVars, staticVars,
           hostWaiting, worker >>

\* waiting: for a session   timed: in a wait_for   ready: woken, without the mutex
\* looping: at the top of the loop, with the mutex   draining: past the static repetition
Phases == { "waiting", "timed", "ready", "looping", "draining" }
MutexIsFree == worker \in { "waiting", "timed", "ready" }

NoConfig == [ structure |-> 0, bitrate |-> 0 ]

TypeOK ==
  /\ PacingTypeOK
  /\ now \in 1 .. MaxTime
  /\ generation \in 0 .. MaxGeneration
  /\ session \in BOOLEAN /\ reset \in BOOLEAN /\ connected \in BOOLEAN
  /\ reset \/ connected => session
  /\ mode \in { "backend", "codec" }
  /\ desired \in Config /\ applied \in Config \cup {NoConfig}
  /\ buffers \subseteq Buffer
  /\ imported \in [Buffer -> Nat]
  /\ registeredIn \in [Buffer -> 0 .. MaxGeneration]
  /\ pending \in 0 .. MaxPending
  /\ { inCodec, ready } \subseteq 0 .. MaxOutputs
  /\ hasFrame \in BOOLEAN
  /\ { lastSource, lastRepeat } \subseteq { Off } \cup 1 .. MaxTime
  /\ lastPresentation \in 0 .. LastTimestamp
  /\ nextReconnect \in 1 .. MaxTime
  /\ hostWaiting \in BOOLEAN
  /\ worker \in Phases

Init ==
  /\ PacingInit
  /\ now = 1
  /\ generation = 0
  /\ session = FALSE /\ reset = FALSE /\ connected = FALSE
  /\ mode = "backend"
  /\ desired = FirstConfig /\ applied = NoConfig
  /\ buffers = {} /\ imported = [ b \in Buffer |-> 0 ] /\ registeredIn = [ b \in Buffer |-> 0 ]
  /\ pending = 0 /\ inCodec = 0 /\ ready = 0
  /\ hasFrame = FALSE
  /\ lastSource = Off /\ lastRepeat = Off /\ lastPresentation = 0
  /\ nextReconnect = 1
  /\ hostWaiting = FALSE
  /\ worker = "ready"

-----------------------------------------------------------------------------
(* Shared by the operations *)

\* A time later than the clock of the model goes is its last tick, which never ends.
Later(interval) == IF now + interval < MaxTime THEN now + interval ELSE MaxTime

\* output_condition_.notify_one()
NotifyWorker == worker' = IF worker \in { "waiting", "timed" } THEN "ready" ELSE worker

Active == session /\ ~reset /\ connected

\* MarkSessionForResetLocked, as an operation ends with it; without a session, or with
\* a reset already required, it does nothing.  What the encoder holds is not looked at
\* again, and the model forgets it here.
MarkSessionForReset ==
  /\ session /\ ~reset
  /\ reset' = TRUE
  /\ pending' = 0 /\ inCodec' = 0 /\ ready' = 0
  /\ UNCHANGED << generation, session, connected, mode, applied, nextReconnect, hasFrame >>

\* ResetStaticFrameStateLocked
ResetStaticFrameState_KeepsSource == lastSource' = lastSource /\ lastRepeat' = Off /\ lastPresentation' = 0

ResetStaticFrameState == lastSource' = Off /\ lastRepeat' = Off /\ lastPresentation' = 0

\* ValidateRequestLocked accepts a request made for a generation.
Valid_AnyGeneration(g) == Active

Valid(g) == g = generation /\ Active

\* A request for the generation of a session that is lost, from ValidateRequestLocked.
RefuseRequest ==
  /\ MutexIsFree
  /\ ~Active
  /\ MarkSessionForReset
  /\ NotifyWorker
  /\ UNCHANGED << pacingVars, now, desired, bufferVars, staticVars, hostWaiting >>

-----------------------------------------------------------------------------
(* GetStreamState: MaintainSessionLocked *)

\* A lost or rejected session goes, and the next one has to wait.
SessionIsOver_WhenLost == session /\ ~connected

SessionIsOver == session /\ (reset \/ ~connected)

DestroySession ==
  /\ MutexIsFree
  /\ SessionIsOver
  /\ session' = FALSE /\ reset' = FALSE /\ connected' = FALSE
  /\ buffers' = {} /\ imported' = [ b \in Buffer |-> 0 ]
  /\ pending' = IF reset THEN pending ELSE 0
  /\ inCodec' = 0 /\ ready' = 0 /\ hasFrame' = FALSE
  /\ ResetStaticFrameState
  /\ nextReconnect' = Later(ReconnectInterval)
  /\ IF reset THEN UNCHANGED worker ELSE NotifyWorker
  /\ mode' = "backend" /\ applied' = NoConfig
  /\ UNCHANGED << pacingVars, now, generation, desired, registeredIn, hostWaiting >>

MayAccept == MutexIsFree /\ ~session /\ now >= nextReconnect

\* Nobody waits, or the sink or the encoder cannot be created.
AcceptFails ==
  /\ MayAccept
  /\ nextReconnect' = Later(ReconnectInterval)
  /\ hostWaiting' = FALSE
  /\ UNCHANGED << pacingVars, now, generation, session, reset, connected, mode, applied, desired,
                  bufferVars, pending, encoderVars, staticVars, worker >>

SessionConfig_Initial == FirstConfig

SessionConfig == desired

CreateSession ==
  /\ MayAccept
  /\ hostWaiting
  /\ generation < MaxGeneration
  /\ hostWaiting' = FALSE
  /\ generation' = generation + 1
  /\ session' = TRUE /\ connected' = TRUE
  /\ mode' \in { "backend", "codec" }
  /\ applied' = SessionConfig
  /\ buffers' = {}
  /\ pending' = 0
  /\ RestartPacing
  /\ ResetStaticFrameState
  /\ nextReconnect' = Later(ReconnectInterval)
  /\ NotifyWorker
  /\ UNCHANGED << now, reset, desired, imported, registeredIn, encoderVars >>

GetStreamState == DestroySession \/ AcceptFails \/ CreateSession

-----------------------------------------------------------------------------
(* RegisterBuffer and SubmitFrame *)

\* A buffer id that is registered again is forgotten first, also when the encoder then
\* rejects the new buffer.
ForgetBuffer(b) == [ imported EXCEPT ![b] = IF b \in buffers THEN @ - 1 ELSE @ ]

RegisterBuffer(b, g) ==
  /\ MutexIsFree
  /\ Valid(g)
  /\ \/ /\ buffers' = buffers \cup {b}
        /\ imported' = [ ForgetBuffer(b) EXCEPT ![b] = @ + 1 ]
        /\ registeredIn' = [ registeredIn EXCEPT ![b] = g ]
     \/ /\ buffers' = buffers \ {b}
        /\ imported' = ForgetBuffer(b)
        /\ UNCHANGED registeredIn
  /\ IF b \in buffers THEN ResetStaticFrameState ELSE UNCHANGED staticVars
  /\ UNCHANGED << pacingVars, now, sessionVars, desired, pending, encoderVars, hostWaiting, worker >>

SubmitFrame(b, g, ts) ==
  /\ MutexIsFree
  /\ Valid(g)
  /\ b \in buffers
  /\ \/ /\ DropFrame(ts)
        /\ UNCHANGED << pending, encoderVars, staticVars, worker >>
     \/ /\ AdmitFrame(ts)
        /\ inCodec + ready < MaxOutputs /\ pending < MaxPending
        /\ pending' = pending + 1
        /\ inCodec' = inCodec + 1
        /\ hasFrame' = TRUE
        /\ lastSource' = now /\ lastRepeat' = Off /\ lastPresentation' = ts
        /\ NotifyWorker
        /\ UNCHANGED ready
     \* The copy fails.
     \/ /\ AdmitFrame(ts)
        /\ UNCHANGED << pending, encoderVars, staticVars, worker >>
  /\ UNCHANGED << now, sessionVars, desired, bufferVars, hostWaiting >>

-----------------------------------------------------------------------------
(* ApplyVideoEncoderConfig *)

\* A frame rate, resolution, key frame interval or backend that differs, maybe with
\* a bitrate: the session is replaced.
ChangeStructure ==
  /\ MutexIsFree
  /\ desired' \in { c \in Config : c.structure # desired.structure }
  /\ IF session /\ ~reset
     THEN MarkSessionForReset /\ NotifyWorker
     ELSE UNCHANGED << sessionVars, pending, encoderVars, worker >>
  /\ UNCHANGED << pacingVars, now, bufferVars, staticVars, hostWaiting >>

\* A bitrate alone is applied to the running encoder, which may first be drained into
\* its queue of packets.
ApplyBitrate ==
  \/ /\ applied' = [ applied EXCEPT !.bitrate = desired'.bitrate ]
     /\ \/ UNCHANGED << inCodec, ready >>
        \/ ready' = ready + inCodec /\ inCodec' = 0
     /\ UNCHANGED << generation, session, reset, connected, mode, nextReconnect, pending, hasFrame,
                     worker >>

ChangeBitrate ==
  /\ MutexIsFree
  /\ \E candidate \in { c \in Config \ {desired} : c.structure = desired.structure } :
       \/ /\ ~Active
          /\ desired' = candidate
          /\ UNCHANGED << sessionVars, pending, encoderVars, worker >>
       \/ /\ Active
          /\ desired' = candidate
          /\ ApplyBitrate
       \* The encoder refuses, and may have to be replaced.
       \/ /\ Active
          /\ desired' = desired
          /\ MarkSessionForReset
          /\ NotifyWorker
  /\ UNCHANGED << pacingVars, now, bufferVars, staticVars, hostWaiting >>

-----------------------------------------------------------------------------
(* The output worker: DrainOutputLoop *)

\* A notification may be spurious, a wait_for time out.
WorkerWakes ==
  /\ worker \in { "waiting", "timed" }
  /\ worker' = "ready"
  /\ UNCHANGED << pacingVars, now, sessionVars, desired, bufferVars, pending, encoderVars,
                  staticVars, hostWaiting >>

Iterates == worker \in { "ready", "looping" }

LoopWaits ==
  /\ Iterates
  /\ ~session \/ reset
  /\ worker' = "waiting"
  /\ UNCHANGED << pacingVars, now, sessionVars, desired, bufferVars, pending, encoderVars,
                  staticVars, hostWaiting >>

LoopFindsHostLost ==
  /\ Iterates
  /\ session /\ ~connected
  /\ MarkSessionForReset
  /\ worker' = "looping"
  /\ UNCHANGED << pacingVars, now, desired, bufferVars, staticVars, hostWaiting >>

\* MaybeRepeatStaticFrameLocked's conditions.
RepeatIsDue ==
  /\ mode = "backend"
  /\ lastSource # Off
  /\ pending = 0
  /\ now - lastSource >= InitialDelay
  /\ lastRepeat = Off \/ now - lastRepeat >= RepeatInterval

RepeatTime == IF lastPresentation + RepeatInterval > now THEN lastPresentation + RepeatInterval ELSE now

RepeatStaticFrame ==
  /\ Iterates
  /\ Active
  /\ RepeatIsDue
  /\ \/ /\ lastPresentation <= LastTimestamp - RepeatInterval
        /\ hasFrame
        /\ inCodec + ready < MaxOutputs
        /\ pending' = pending + 1
        /\ inCodec' = inCodec + 1
        /\ lastRepeat' = now /\ lastPresentation' = RepeatTime
        /\ worker' = "draining"
        /\ UNCHANGED << sessionVars, ready, hasFrame, lastSource >>
     \* The timestamp would overflow, or the encoder refuses.
     \/ /\ MarkSessionForReset
        /\ worker' = "looping"
        /\ UNCHANGED staticVars
  /\ UNCHANGED << pacingVars, now, desired, bufferVars, hostWaiting >>

\* Nothing to wait for: only a codec that repeats frames itself is polled all the same.
NothingToDrain_AnyMode == pending = 0

NothingToDrain == pending = 0 /\ mode = "backend"

LoopSkipsRepeat ==
  /\ Iterates
  /\ Active
  /\ ~RepeatIsDue
  /\ worker' = IF NothingToDrain THEN "timed" ELSE "draining"
  /\ UNCHANGED << pacingVars, now, sessionVars, desired, bufferVars, pending, encoderVars,
                  staticVars, hostWaiting >>

PendingAfter_OnePerPass(completed) ==
  IF completed = 0 \/ pending = 0 THEN pending ELSE pending - 1

PendingAfter(completed) == IF completed >= pending THEN 0 ELSE pending - completed

Taken == IF ready < DrainLimit THEN ready ELSE DrainLimit

\* DrainOutputLocked, when every packet is passed on.  Packets that carry a decoder
\* configuration are not counted as completed frames; the VA-API encoder emits none.
\* The one change of format an encoder reports is left out.
DrainOutput ==
  /\ worker = "draining"
  /\ \E uncounted \in IF mode = "codec" THEN 0 .. Taken ELSE { 0 } :
       pending' = PendingAfter(Taken - uncounted)
  /\ ready' = ready - Taken
  /\ worker' = IF Taken = 0 THEN "timed" ELSE "looping"
  /\ UNCHANGED << pacingVars, now, sessionVars, desired, bufferVars, inCodec, hasFrame,
                  staticVars, hostWaiting >>

\* The encoder or the sink fails.
DrainFails ==
  /\ worker = "draining"
  /\ MarkSessionForReset
  /\ worker' = "looping"
  /\ UNCHANGED << pacingVars, now, desired, bufferVars, staticVars, hostWaiting >>

Loop ==
  \/ LoopWaits \/ LoopFindsHostLost
  \/ RepeatStaticFrame \/ LoopSkipsRepeat
  \/ DrainOutput \/ DrainFails

-----------------------------------------------------------------------------
(* The encoder, the host and time *)

EncodeFrame ==
  /\ inCodec > 0
  /\ inCodec' = inCodec - 1
  /\ ready' = ready + 1
  /\ UNCHANGED << pacingVars, now, sessionVars, desired, bufferVars, pending, hasFrame,
                  staticVars, hostWaiting, worker >>

HostConnects ==
  /\ ~hostWaiting
  /\ hostWaiting' = TRUE
  /\ UNCHANGED << pacingVars, now, sessionVars, desired, bufferVars, pending, encoderVars,
                  staticVars, worker >>

HostIsLost ==
  /\ connected
  /\ connected' = FALSE
  /\ UNCHANGED << pacingVars, now, generation, session, reset, mode, applied, nextReconnect, desired,
                  bufferVars, pending, encoderVars, staticVars, hostWaiting, worker >>

\* MediaCodec repeats the frame it retains when no other arrived for an interval.
Tick ==
  /\ now < MaxTime
  /\ now' = now + 1
  /\ \/ UNCHANGED ready
     \/ /\ mode = "codec" /\ hasFrame /\ ~reset /\ inCodec + ready < MaxOutputs
        /\ ready' = ready + 1
  /\ UNCHANGED << pacingVars, sessionVars, desired, bufferVars, pending, inCodec, hasFrame,
                  staticVars, hostWaiting, worker >>

Composer ==
  \/ GetStreamState
  \/ RefuseRequest
  \/ \E b \in Buffer, g \in 0 .. generation : RegisterBuffer(b, g)
  \/ \E b \in Buffer, g \in 0 .. generation, o \in Offsets :
       now + o \in Times /\ SubmitFrame(b, g, now + o)

Next ==
  \/ Composer
  \/ ChangeStructure \/ ChangeBitrate
  \/ WorkerWakes \/ Loop
  \/ EncodeFrame \/ HostConnects \/ HostIsLost \/ Tick

\* The worker runs, its waits end, frames get encoded and time passes.  The composer
\* polls GetStreamState, and gets the mutex.
Fairness ==
  /\ WF_vars(WorkerWakes)
  /\ WF_vars(Loop)
  /\ WF_vars(EncodeFrame)
  /\ WF_vars(Tick)
  /\ SF_vars(DestroySession)
  /\ SF_vars(AcceptFails \/ CreateSession)

Spec == Init /\ [][Next]_vars /\ Fairness

-----------------------------------------------------------------------------
(* Properties *)

\* The session that takes frames runs the configuration last asked for: an update is
\* never answered and then lost, whenever it meets a reset (ApplyVideoEncoderConfig).
ConfigIsCurrent == Active => applied = desired

\* The composer's buffers are the encoder's, imported once, and of this generation: a
\* frame never shows a buffer of another session (ValidateRequestLocked, RegisterBuffer).
BuffersAreCurrent ==
  session =>
    /\ \A b \in Buffer : imported[b] = IF b \in buffers THEN 1 ELSE 0
    /\ \A b \in buffers : registeredIn[b] = generation

\* The backend counts what the VA-API encoder holds: were the count short, the worker
\* would leave packets in the encoder; were it long, static frames would no longer be
\* repeated (DrainOutputLocked against SubmitFrame and MaybeRepeatStaticFrameLocked).
PendingIsExact == session /\ ~reset /\ mode = "backend" => pending = inCodec + ready

\* Static repetition only ever asks for a frame the encoder retains.
RepeatedFrameIsRetained == lastSource # Off => session /\ hasFrame

\* A packet that is ready is taken, or the session is given up.
OutputIsTaken ==
  session /\ ~reset /\ ready > 0 ~>
    ready = 0 \/ worker = "looping" \/ ~session \/ reset

\* A host that waits while no session takes frames is accepted, sooner or later: a
\* session that failed, or whose host went away unnoticed, makes room.
HostIsAccepted == hostWaiting /\ ~Active ~> ~hostWaiting \/ Active

=============================================================================
