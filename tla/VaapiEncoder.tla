---------------------------- MODULE VaapiEncoder ----------------------------
(***************************************************************************)
(* The VA-API encoder, src/codec/FfmpegVaapiEncoderBackend.cpp: buffer     *)
(* registration, the conversion of a display frame into a pooled surface,  *)
(* the codec behind avcodec_send_frame and avcodec_receive_packet, and the *)
(* change of bitrate, which drains the codec, frees it and opens another.  *)
(*                                                                         *)
(* VideoFrameConsumerBackend calls every operation under its mutex and the *)
(* codec works inside the calls, so an operation is one step; where it may *)
(* fail, each way out is a disjunct with what it has done until then.  The *)
(* GLES rotation goes through an EglFrameCopier.  The codec is external:   *)
(* it gives one packet per frame, in order (async_depth 1, no B frames),   *)
(* and its first frame and those asked for are key frames; the key frames  *)
(* of its GOP are left out.                                                *)
(***************************************************************************)
EXTENDS EglFrameCopier, FiniteSets, Sequences

CONSTANTS
    Bitrates,   \* the bitrates a configuration may ask for
    MaxFrames,  \* bound: frames accepted in one behaviour
    Capacity,   \* frames the codec takes before it answers EAGAIN (external)
    PoolSize    \* kVaapiFramePoolSize

ASSUME EncoderAssumption ==
    MaxFrames \in Nat /\ Capacity \in Nat \ {0} /\ PoolSize \in Nat /\ Bitrates # {}

VARIABLES
    gles,       \* use_gles_rotation
    buffers,    \* the keys of buffers; each holds a reference to its AHardwareBuffer
    surfaces,   \* the buffers imported as a VA surface of their own
    codec,      \* codec_context: "none", "open" without a frame yet, "coding", or "flushed"
                \* once it was sent the null frame
    encoding,   \* frames the codec holds
    pending,    \* pending_packets
    latest,     \* the surface latest_frame refers to, 0 if there is none
    force,      \* force_key_frame; for MediaCodec the sync frame asked of the codec
    draining,   \* drain_submitted
    eos,        \* end_of_stream
    format,     \* format_change_pending
    bitrate,    \* config.bitrate_bps
    frames,     \* frames accepted so far: the number of the newest one
    out,        \* the last packet DequeueOutput returned
    broken      \* the caller has marked the session for reset

registerVars == <<gles, buffers, surfaces>>
codecVars == <<codec, encoding, pending, draining, eos, format, bitrate, frames>>
encoderVars == <<registerVars, codecVars, latest, force, out, broken>>

MarkSessionForReset_Ignored(ok) == broken' = FALSE

(* MarkSessionForResetLocked, where the caller of a failed operation gets to. *)
MarkSessionForReset(ok) == broken' = ~ok

Packet(e) == [frame |-> e.frame, picture |-> e.surface, key |-> e.key]
Packets(s) == [i \in DOMAIN s |-> Packet(s[i])]
NoPacket == [frame |-> 0, picture |-> 0, key |-> FALSE]

----------------------------------------------------------------------------
(* The DMA-BUF description the exporter gives out and the surface the driver
   makes of it, each of which may be refused. *)
Export == BOOLEAN
CreateImportedSurface == BOOLEAN

(* RegisterBuffer.  A buffer known is accepted; on the GLES path the copier
   registers it first, on the direct path it is exported as a DMA-BUF and
   imported as a surface; the reference is taken last. *)
RegisterBuffer(t, b, ok) ==
    /\ \/ b \in buffers /\ ok /\ UNCHANGED <<copierVars, buffers, surfaces, faults>>
       \/ /\ b \notin buffers
          /\ IF gles THEN ImportBuffer(t, b, ok) /\ UNCHANGED surfaces
                     ELSE /\ \E exported \in Export, made \in CreateImportedSurface :
                                ok = (exported /\ made)
                          /\ surfaces' = IF ok THEN surfaces \cup {b} ELSE surfaces
                          /\ UNCHANGED <<copierVars, faults>>
          /\ buffers' = IF ok THEN buffers \cup {b} ELSE buffers
    /\ UNCHANGED <<gles, codecVars, latest, force, out, broken>>

(* UnregisterBuffer and ReleaseRegisteredBuffer. *)
UnregisterBuffer(t, b) ==
    /\ \/ b \notin buffers /\ UNCHANGED <<copierVars, faults>>
       \/ b \in buffers /\ gles /\ ForgetBuffer(t, b)
       \/ b \in buffers /\ ~gles /\ UNCHANGED <<copierVars, faults>>
    /\ buffers' = buffers \ {b}
    /\ surfaces' = surfaces \ {b}
    /\ UNCHANGED <<gles, codecVars, latest, force, out, broken>>

----------------------------------------------------------------------------
(* The surfaces of the frame pool in use: those the codec has not let go of
   and the one retained for repetition. *)
InUse == ({e.surface : e \in {encoding[i] : i \in DOMAIN encoding}} \cup {latest}) \ {0}

(* ReceivePacket, n times: packets leave the codec for the pending queue. *)
Receive(n, added) ==
    /\ n <= Len(encoding)
    /\ pending' = pending \o Packets(SubSeq(encoding, 1, n))
    /\ encoding' = SubSeq(encoding, n + 1, Len(encoding)) \o added

(* The packet taken to make room is dropped instead of queued. *)
QueuePacketsUntilInputAccepted_Drops(added, accepted) ==
    \E n \in 0 .. (IF Len(encoding) < Capacity THEN 0 ELSE 1) :
        /\ accepted => Len(encoding) - n < Capacity
        /\ pending' = pending
        /\ encoding' = SubSeq(encoding, n + 1, Len(encoding))
                           \o (IF accepted THEN added ELSE <<>>)

(* QueuePacketsUntilInputAccepted.  A full codec answers EAGAIN until a packet
   was taken out of it; an error or the deadline may come before or after. *)
QueuePacketsUntilInputAccepted(added, accepted) ==
    \E n \in 0 .. (IF Len(encoding) < Capacity THEN 0 ELSE 1) :
        /\ accepted => Len(encoding) - n < Capacity
        /\ Receive(n, IF accepted THEN added ELSE <<>>)

(* The frame sent to the codec: numbered as the next one, key if asked for or
   if the codec is new, in the pool's surface s. *)
Entry(s) == [frame |-> frames + 1, surface |-> s, key |-> force \/ codec = "open"]

(* What happens to the request for a key frame once the frame is made. *)
Consumed == FALSE

(* What is kept for RepeatLastFrame when the codec has taken the frame. *)
Retained(s, accepted) == IF accepted THEN s ELSE latest

(* Send an entry; codec "open" has seen no frame yet, "coding" has. *)
Send(s, accepted) ==
    /\ QueuePacketsUntilInputAccepted(<<Entry(s)>>, accepted)
    /\ frames' = IF accepted THEN frames + 1 ELSE frames
    /\ codec' = IF accepted THEN "coding" ELSE codec
    /\ UNCHANGED <<draining, eos, format, bitrate>>

(* The source picture becomes readable: the GLES copy, or the acquire fence.
   Ready says whether it did; the rotation must be complete when it returns. *)
SourceReady(t, b, ready) ==
    IF gles THEN \E copied \in CopyResult :
                     /\ CopyFrame(t, b, copied)
                     /\ ready = (copied.success /\ copied.synchronous /\ ~copied.fence)
            ELSE ready \in BOOLEAN /\ UNCHANGED <<copierVars, faults>>

(* A surface is taken from the pool and the video processor converts the
   picture into it; vaSyncSurface waits for it. *)
ProcessFrame == IF Cardinality(InUse) < PoolSize THEN BOOLEAN ELSE {FALSE}

(* SubmitFrame.  The request for a key frame is consumed before the frame is
   cloned and sent, either of which may fail. *)
SubmitFrame(t, b, ok) ==
    /\ \/ /\ draining \/ b \notin buffers
          /\ ~ok
          /\ UNCHANGED <<copierVars, faults, codecVars, latest, force>>
       \/ /\ ~draining /\ b \in buffers /\ ~ok
          /\ SourceReady(t, b, FALSE)
          /\ UNCHANGED <<codecVars, latest, force>>
       \/ /\ ~draining /\ b \in buffers
          /\ SourceReady(t, b, TRUE)
          /\ \E converted \in ProcessFrame :
               \/ ~converted /\ ~ok /\ UNCHANGED <<codecVars, latest, force>>
               \/ converted /\ ~ok /\ force' = Consumed /\ UNCHANGED <<codecVars, latest>>
               \/ /\ converted
                  /\ Send(frames + 1, ok)
                  /\ latest' = Retained(frames + 1, ok)
                  /\ force' = Consumed
    /\ UNCHANGED <<registerVars, out, broken>>

(* RepeatLastFrame: the retained surface is sent again, whatever happened to
   the buffer it was converted from. *)
RepeatLastFrame(ok) ==
    /\ \/ /\ draining \/ latest = 0
          /\ ~ok
          /\ UNCHANGED <<codecVars, force>>
       \/ /\ ~draining /\ latest # 0
          /\ \/ ~ok /\ UNCHANGED <<codecVars, force>>
             \/ Send(latest, ok) /\ force' = Consumed
    /\ MarkSessionForReset(ok)
    /\ UNCHANGED <<copierVars, faults, registerVars, latest, out>>

----------------------------------------------------------------------------
(* DrainCodecToQueue, which has n packets out when it ends. *)
Drained(n) == n = Len(encoding)

(* CreateCodec: the new codec is announced by a change of format. *)
CreateCodec(rate) ==
    /\ codec' = "open"
    /\ bitrate' = rate
    /\ format' = TRUE
    /\ draining' = FALSE
    /\ eos' = FALSE

(* SetBitrate.  The null frame may be refused; the drain may fail half way,
   the codec then stays in its draining state; a codec that cannot be opened
   again leaves none.  The caller marks the session for reset in all three. *)
SetBitrate(rate, ok) ==
    /\ \/ /\ draining \/ rate = bitrate
          /\ ok = ~draining
          /\ UNCHANGED <<codecVars, force>>
       \/ /\ ~draining /\ rate # bitrate /\ ~ok
          /\ QueuePacketsUntilInputAccepted(<<>>, FALSE)
          /\ UNCHANGED <<codec, draining, eos, format, bitrate, frames, force>>
       \/ /\ ~draining /\ rate # bitrate /\ ~ok
          /\ \E n \in 0 .. Len(encoding) : Receive(n, <<>>)
          /\ codec' = "flushed" /\ draining' = TRUE
          /\ UNCHANGED <<eos, format, bitrate, frames, force>>
       \/ /\ ~draining /\ rate # bitrate
          /\ \E n \in 0 .. Len(encoding) : Drained(n) /\ Receive(n, <<>>)
          /\ \/ ~ok /\ codec' = "none" /\ bitrate' = rate /\ draining' = TRUE
                    /\ UNCHANGED <<eos, format, force>>
             \/ ok /\ CreateCodec(rate) /\ force' = TRUE
          /\ UNCHANGED frames
    /\ MarkSessionForReset(ok)
    /\ UNCHANGED <<copierVars, faults, registerVars, latest, out>>

(* RequestKeyFrame. *)
RequestKeyFrame(ok) ==
    /\ ok = ~draining
    /\ force' = (force \/ ok)
    /\ MarkSessionForReset(ok)
    /\ UNCHANGED <<copierVars, faults, registerVars, codecVars, latest, out>>

(* SignalEndOfInputStream; no caller in the service uses it, the tests do. *)
SignalEndOfInputStream(ok) ==
    /\ \/ draining /\ ok /\ UNCHANGED <<encoding, pending, codec, draining>>
       \/ /\ ~draining
          /\ QueuePacketsUntilInputAccepted(<<>>, ok)
          /\ codec' = IF ok THEN "flushed" ELSE codec
          /\ draining' = ok
    /\ UNCHANGED <<copierVars, faults, registerVars, eos, format, bitrate, frames, latest, force,
                   out, broken>>

FormatReported_Again == TRUE

(* A change of format is reported once. *)
FormatReported == FALSE

TakePending ==
    /\ ~format /\ pending # <<>>
    /\ out' = Head(pending)
    /\ pending' = Tail(pending)
    /\ UNCHANGED <<encoding, eos, format, broken>>

TakeFromCodec ==
    /\ ~format /\ pending = <<>> /\ ~eos /\ encoding # <<>>
    /\ out' = Packet(Head(encoding))
    /\ encoding' = Tail(encoding)
    /\ UNCHANGED <<pending, eos, format, broken>>

(* DequeueOutput: the change of format, then what was moved aside, then the
   codec; an error resets the session. *)
DequeueOutput ==
    /\ \/ format /\ format' = FormatReported /\ UNCHANGED <<pending, encoding, eos, out, broken>>
       \/ TakePending
       \/ TakeFromCodec
       \/ /\ ~format /\ pending = <<>> /\ ~eos /\ encoding = <<>> /\ codec = "flushed"
          /\ eos' = TRUE
          /\ UNCHANGED <<pending, encoding, format, out, broken>>
       \/ /\ ~format /\ pending = <<>> /\ ~eos
          /\ broken' = TRUE
          /\ UNCHANGED <<pending, encoding, eos, format, out>>
    /\ UNCHANGED <<copierVars, faults, registerVars, codec, draining, bitrate, frames, latest, force>>
=============================================================================
