---------------------------- MODULE VideoOutput ----------------------------
(***************************************************************************)
(* One generation of the video stream: the encoder, the recovery policy of *)
(* session/VideoOutputController.cpp, driven by                            *)
(* VideoStreamSession::DrainOutput, and the HostVideoSink it feeds.        *)
(*                                                                         *)
(* The stream worker dequeues one encoder output at a time and processes   *)
(* it.  SubmitBatch and DiscardPending are separate critical sections of   *)
(* the sink, so the sender runs between them: that is the worker state     *)
(* "discarding".  When DrainOutput fails the backend abandons the session  *)
(* ("failed") and eventually destroys it, which stops the sink.            *)
(*                                                                         *)
(* The encoder is external: it numbers its frames, a delta frame depends   *)
(* on the frame before it, and a new decoder configuration is followed by  *)
(* a key frame; before its first standalone one, key frames carry their    *)
(* own.  The frame-submission timestamps and the counters of               *)
(* VideoOutputStats do not influence the stream and are left out.          *)
(***************************************************************************)
EXTENDS Integers, Sequences

CONSTANTS
  MaxPackets, MaxBytes,   \* the sink's limits
  None,
  SizeOf,                 \* wire size of each kind of packet
  MaxFrames,              \* model bound: frames the encoder emits
  MaxConfigs              \* model bound: standalone configurations it emits

Kinds == { "config", "key", "delta", "eos" }

ASSUME VideoAssumption ==
  /\ MaxFrames \in Nat \ {0}
  /\ MaxConfigs \in Nat \ {0}
  /\ SizeOf \in [Kinds -> Nat \ {0}]

MaxSequence == 2 * MaxFrames + MaxConfigs + 1

Packet == [ kind : Kinds, frame : 0 .. MaxFrames, config : 0 .. MaxConfigs,
            seq : 0 .. MaxSequence, disc : BOOLEAN, valid : BOOLEAN ]

ASSUME NoneAssumption == None \notin Packet

PacketSize(p) == SizeOf[p.kind]

VARIABLES
  queue, inFlight, bufferedPackets, bufferedBytes, isConnected, stopped, stopper, sender,
  worker,         \* the stream worker between two critical sections
  state,          \* VideoOutputController::state_
  nextSequence,   \* next_sequence_
  codecConfig,    \* codec_config_, 0 when it has no value
  initialDiscontinuity,  \* VideoOutputConfig::initial_discontinuity
  frame,          \* encoder: the last frame it emitted
  config,         \* encoder: the last configuration it emitted
  mustKey,        \* encoder: the next frame has to be a key frame
  keyRequested,   \* encoder: a key frame was requested and not yet emitted
  host            \* what the host has read: last packet, frame and configuration

sinkVars == << queue, inFlight, bufferedPackets, bufferedBytes, isConnected, stopped, stopper, sender >>
controllerVars == << worker, state, nextSequence, codecConfig, initialDiscontinuity >>
encoderVars == << frame, config, mustKey, keyRequested >>
vars == << sinkVars, controllerVars, encoderVars, host >>

Sink == INSTANCE HostVideoSink
          WITH Malformed <- { p \in Packet : ~p.valid }, WireSize <- PacketSize,
               Batches <- { << p >> : p \in Packet } \cup { << p, q >> : p \in Packet, q \in Packet }

States == { "Starting", "Streaming", "Recovering", "Disconnected", "EndOfStream", "Error" }

TypeOK ==
  /\ Sink!SinkTypeOK
  /\ worker \in { "idle", "discarding", "discardingEos", "failed", "closed" }
  /\ state \in States
  /\ nextSequence \in 0 .. MaxSequence + 1
  /\ codecConfig \in 0 .. MaxConfigs
  /\ initialDiscontinuity \in BOOLEAN
  /\ frame \in 0 .. MaxFrames
  /\ config \in 0 .. MaxConfigs
  /\ mustKey \in BOOLEAN /\ keyRequested \in BOOLEAN
  /\ host \in [ last : Packet \cup {None}, frame : 0 .. MaxFrames,
             skipped : BOOLEAN, config : 0 .. MaxConfigs ]

Init ==
  /\ Sink!SinkInit
  /\ worker = "idle"
  /\ state = "Starting"
  /\ nextSequence = 0
  /\ codecConfig = 0
  /\ initialDiscontinuity \in BOOLEAN
  /\ frame = 0
  /\ config = 0
  /\ mustKey = TRUE
  /\ keyRequested = FALSE
  /\ host = [ last |-> None, frame |-> 0, skipped |-> FALSE, config |-> 0 ]

-----------------------------------------------------------------------------
(* VideoOutputController *)

\* valid: SerializeVideoPacketHeader accepts the encoder's timestamp.
MakePacket(kind, f, c, seq, disc, valid) ==
  [ kind |-> kind, frame |-> f, config |-> c, seq |-> seq, disc |-> disc, valid |-> valid ]

\* The flag SendAccessPoint adds to a key frame.
AccessPointDiscontinuity ==
  state = "Recovering" \/ (state = "Starting" /\ initialDiscontinuity)

\* The access point: the cached configuration, if any, queued with its key frame.
AccessPoint_KeyAlone(valid) ==
  << MakePacket("key", frame + 1, config, nextSequence, AccessPointDiscontinuity, valid) >>

AccessPoint(valid) ==
  LET key(seq) == MakePacket("key", frame + 1, config, seq, AccessPointDiscontinuity, valid)
  IN  IF codecConfig = 0
      THEN << key(nextSequence) >>
      ELSE << MakePacket("config", 0, codecConfig, nextSequence, FALSE, TRUE), key(nextSequence + 1) >>

\* HandleEnqueueResult, up to the discard that a full queue calls for.
HandleEnqueueResult(status, acceptedState) ==
  \/ /\ status = "Accepted"
     /\ state' = acceptedState
     /\ worker' = "idle"
  \/ /\ status = "QueueFull"
     /\ state' = state
     /\ worker' = "discarding"
  \/ /\ status \in { "Disconnected", "Stopped" }
     /\ state' = "Disconnected"
     /\ worker' = "failed"
  \/ /\ status = "InvalidPacket"
     /\ state' = "Error"
     /\ worker' = "failed"

Submit(batch, acceptedState) ==
  \E status \in Sink!Status :
    /\ Sink!SubmitBatch(batch, status)
    /\ HandleEnqueueResult(status, acceptedState)
    /\ nextSequence' = nextSequence + Len(batch)

\* Process, one action per kind of encoder output.  The end of stream is the
\* encoder's last one.
Dequeue == worker = "idle" /\ state # "EndOfStream"

\* Standalone codec data is only cached.
ProcessConfig ==
  /\ Dequeue
  /\ config < MaxConfigs
  /\ config' = config + 1
  /\ mustKey' = TRUE
  /\ codecConfig' = config'
  /\ UNCHANGED << sinkVars, worker, state, nextSequence, initialDiscontinuity, frame,
                  keyRequested, host >>

ProcessKey ==
  /\ Dequeue
  /\ frame < MaxFrames
  /\ frame' = frame + 1
  /\ mustKey' = FALSE
  /\ keyRequested' = FALSE
  /\ \E valid \in BOOLEAN : Submit(AccessPoint(valid), "Streaming")
  /\ UNCHANGED << codecConfig, initialDiscontinuity, config, host >>

\* While there is nothing to depend on, a delta frame is dropped.
NothingToDependOn == state \in { "Starting", "Recovering" }

ProcessDelta ==
  /\ Dequeue
  /\ frame < MaxFrames
  /\ ~mustKey
  /\ frame' = frame + 1
  /\ IF NothingToDependOn
     THEN UNCHANGED << sinkVars, worker, state, nextSequence >>
     ELSE \E valid \in BOOLEAN :
            Submit(<< MakePacket("delta", frame + 1, 0, nextSequence, FALSE, valid) >>, state)
  /\ UNCHANGED << codecConfig, initialDiscontinuity, config, mustKey, keyRequested, host >>

\* A full queue loses the end of stream, and what was queued before it.
ProcessEndOfStream ==
  /\ Dequeue
  /\ nextSequence' = nextSequence + 1
  /\ \E status \in Sink!Status, valid \in BOOLEAN :
       /\ Sink!SubmitBatch(<< MakePacket("eos", 0, 0, nextSequence, FALSE, valid) >>, status)
       /\ \/ /\ status = "Accepted"
             /\ state' = "EndOfStream"
             /\ worker' = "idle"
          \/ /\ status = "QueueFull"
             /\ state' = state
             /\ worker' = "discardingEos"
          \/ /\ status \in { "Disconnected", "Stopped" }
             /\ state' = "Disconnected"
             /\ worker' = "failed"
          \/ /\ status = "InvalidPacket"
             /\ state' = "Error"
             /\ worker' = "failed"
  /\ UNCHANGED << codecConfig, initialDiscontinuity, encoderVars, host >>

EncoderFails ==
  /\ Dequeue
  /\ state' = "Error"
  /\ worker' = "failed"
  /\ UNCHANGED << sinkVars, nextSequence, codecConfig, initialDiscontinuity, encoderVars, host >>

\* The rest of HandleEnqueueResult after a full queue, and the key frame request
\* DrainOutput passes on.  An encoder that refuses it fails the session.
DiscardAndRecover_AsksOnce ==
  /\ worker = "discarding"
  /\ Sink!DiscardPending
  /\ state' = "Recovering"
  /\ \/ keyRequested' = (keyRequested \/ state # "Recovering") /\ worker' = "idle"
     \/ keyRequested' = keyRequested /\ worker' = "failed"
  /\ UNCHANGED << nextSequence, codecConfig, initialDiscontinuity, frame, config, mustKey, host >>

DiscardAndRecover ==
  /\ worker = "discarding"
  /\ Sink!DiscardPending
  /\ state' = "Recovering"
  /\ \/ keyRequested' = TRUE /\ worker' = "idle"
     \/ keyRequested' = keyRequested /\ worker' = "failed"
  /\ UNCHANGED << nextSequence, codecConfig, initialDiscontinuity, frame, config, mustKey, host >>

DiscardAndEnd ==
  /\ worker = "discardingEos"
  /\ Sink!DiscardPending
  /\ state' = "EndOfStream"
  /\ worker' = "idle"
  /\ UNCHANGED << nextSequence, codecConfig, initialDiscontinuity, encoderVars, host >>

Worker ==
  \/ ProcessConfig
  \/ ProcessKey
  \/ ProcessDelta
  \/ ProcessEndOfStream
  \/ EncoderFails
  \/ DiscardAndRecover
  \/ DiscardAndEnd

-----------------------------------------------------------------------------
(* The sink's sender, the host, and the end of the session *)

SequenceRead == IF host.last = None THEN -1 ELSE host.last.seq

\* A completed send puts the packet on the wire, in order.
HostReads ==
  /\ Sink!SendSucceeds
  /\ host' = [ last   |-> inFlight,
               frame  |-> IF inFlight.frame = 0 THEN host.frame ELSE inFlight.frame,
               skipped |-> inFlight.frame = 0 /\ (host.skipped \/ inFlight.seq > SequenceRead + 1),
               config |-> IF inFlight.kind = "config" THEN inFlight.config ELSE host.config ]
  /\ UNCHANGED << controllerVars, encoderVars >>

Sender ==
  /\ \/ Sink!SenderWait
     \/ Sink!SpuriousWakeup
     \/ Sink!SenderExit
     \/ Sink!SenderTake
     \/ Sink!SendFails
  /\ UNCHANGED << controllerVars, encoderVars, host >>

\* The backend destroys an abandoned session, and a healthy one whose
\* configuration changes; the sink's destructor stops it.
DestroySession ==
  /\ worker \in { "idle", "failed" }
  /\ worker' = "closed"
  /\ Sink!StopMark
  /\ UNCHANGED << state, nextSequence, codecConfig, initialDiscontinuity, encoderVars, host >>

FinishStop ==
  /\ Sink!StopShutdown \/ Sink!StopJoin
  /\ UNCHANGED << controllerVars, encoderVars, host >>

Next ==
  \/ Worker
  \/ HostReads
  \/ Sender
  \/ DestroySession
  \/ FinishStop

\* The worker drains as long as the session lives, the sender runs, the host
\* reads, and an encoder asked for a key frame emits one sooner or later.
Fairness ==
  /\ WF_vars(DiscardAndRecover)
  /\ SF_vars(keyRequested /\ ProcessKey)
  /\ WF_vars(Sender)
  /\ WF_vars(HostReads)

Spec == Init /\ [][Next]_vars /\ Fairness

-----------------------------------------------------------------------------
(* Properties *)

Contract == INSTANCE VideoStreamContract
              WITH Nothing <- None, last <- host.last, frame <- host.frame,
                   skipped <- host.skipped, config <- host.config

\* Whatever the queue drops, at whatever moment the sender runs, the host is only
\* ever handed frames it can decode, and every hole is flagged and numbered
\* (VideoOutputController's recovery over SubmitBatch and DiscardPending).
HostGetsDecodableStream == Contract!ContractSpec

\* A stream that lost packets does not wait for a key frame for ever: the request
\* is repeated when the answer itself is lost (while the model has frames left).
RecoveryCompletes ==
  state = "Recovering" ~> (\/ state # "Recovering"
                          \/ worker \in { "failed", "closed" }
                          \/ frame = MaxFrames)

=============================================================================
