--------------------------- MODULE EncoderSession ---------------------------
(***************************************************************************)
(* An encoder session from its creation to its destruction                 *)
(* (src/codec/EncoderSession.cpp, MediaCodecSurfaceEncoder.cpp and the     *)
(* constructors and destructors of the two other codec files).  Creation   *)
(* tries one backend after another; each takes its resources one by one,   *)
(* and whichever step fails, its destructors give back what was taken.     *)
(* Between the two the session forwards to a VA-API encoder or to a        *)
(* MediaCodec encoder that an EglFrameCopier feeds.                        *)
(*                                                                         *)
(* The caller is VideoFrameConsumerBackend: it serialises the calls under  *)
(* its mutex and, after a failure of anything but SubmitFrame, makes no    *)
(* other call than to destroy the session.                                 *)
(***************************************************************************)
EXTENDS VaapiEncoder

CONSTANTS
    Platforms,   \* the builds: a subset of {"x86_64", "arm", "other"}
    Requests,    \* the backends a configuration asks for
    Devices,     \* numbers of VA-API render nodes
    InitialBitrate, \* that of the first configuration
    MaxSessions  \* bound: sessions created in one behaviour

ASSUME SessionAssumption ==
    /\ Platforms \subseteq {"x86_64", "arm", "other"}
    /\ Requests \subseteq {"auto", "software", "venus", "vaapi"}
    /\ Devices \subseteq Nat /\ MaxSessions \in Nat /\ InitialBitrate \in Bitrates

VARIABLES
    phase,      \* "idle", "creating", "open" or "closing"
    candidates, \* the backends still to be tried
    kind,       \* the backend being created, used or destroyed
    step,       \* how many of its resources were taken, or which is given back next
    held,       \* the resources held
    waiting,    \* the call of SubmitFrame, a thread and a buffer, that the codec's window holds up
    sessions    \* sessions created so far

lifeVars == <<phase, candidates, kind, step, held, waiting, sessions>>
vars == <<copierVars, faults, encoderVars, lifeVars>>

----------------------------------------------------------------------------
(* EncoderSession::Create with GetVaapiDevicePaths and CreateVaapiBackend. *)
Vaapi(devices) == [i \in 1 .. devices |-> "vaapi"]

Candidates(platform, request, devices) ==
    CASE request = "auto" /\ platform = "x86_64" -> Vaapi(devices) \o <<"software">>
      [] request = "auto" /\ platform = "arm"    -> <<"venus", "software">>
      [] request = "venus" /\ platform = "arm"   -> <<"venus">>
      [] request = "vaapi" /\ platform = "x86_64" -> Vaapi(devices)
      [] request = "software" \/ (request = "auto" /\ platform = "other") -> <<"software">>
      [] OTHER -> <<>>

(* The resources in the order Initialize and Create take them. *)
CopierPlan(window) ==
    <<"target_ref", "display", "context", "egl_surface">>
        \o (IF window THEN <<>> ELSE <<"image", "renderbuffer", "framebuffer">>)
        \o <<"vertex_shader", "fragment_shader", "program">>

MediaCodecPlan == <<"codec", "format", "input_surface", "started">> \o CopierPlan(TRUE)

VaapiPlan ==
    <<"device", "frames", "vpp_config", "vpp_context">>
        \o (IF gles THEN <<"rotation_buffer">> \o CopierPlan(FALSE) \o <<"rotation_surface">>
                    ELSE <<>>)
        \o <<"candidate", "codec", "packet">>

Plan == IF kind = "vaapi" THEN VaapiPlan ELSE MediaCodecPlan

CopierRelease_KeepsTarget == <<"gl", "egl_surface", "context", "display">>

(* The order the destructors give them back; "gl" stands for what ~Impl of the
   copier deletes while the context is bound, "buffers" for the registered ones. *)
CopierRelease == <<"gl", "egl_surface", "context", "display", "target_ref">>

MediaCodecRelease_EncoderFirst == <<"started", "input_surface", "codec">> \o CopierRelease

MediaCodecRelease == CopierRelease \o <<"started", "input_surface", "codec">>

VaapiRelease ==
    <<"codec", "packet", "frames", "buffers">> \o CopierRelease
        \o <<"rotation_surface", "rotation_buffer", "vpp_context", "vpp_config", "device">>

Release == IF kind = "vaapi" THEN VaapiRelease ELSE MediaCodecRelease

GlObjects == {"image", "renderbuffer", "framebuffer", "program"}

(* What a function frees itself: shaders once the program is linked, the format
   once the codec is configured, and all of them on its own ways out. *)
Shaders == {"vertex_shader", "fragment_shader"}
Transient == Shaders \cup {"format", "candidate"}

FreedBy(r) ==
    CASE r = "program" -> Shaders
      [] r = "input_surface" -> {"format"}
      [] r = "codec" -> {"candidate"}
      [] OTHER -> {}

LocalCleanup == held \ Transient

(* What goes with r: an EGL context and display take their objects along. *)
Released(r) ==
    CASE r = "context" -> {"context", "renderbuffer", "framebuffer", "program"}
      [] r = "display" -> {"display", "image"}
      [] OTHER -> {r}

(* What must be there while r is: the raw handles that count no references. *)
Owners(r) ==
    CASE r \in {"started", "input_surface"} /\ kind # "vaapi" -> {"codec"}
      [] r = "egl_surface" -> {"display"} \cup (IF kind = "vaapi" THEN {} ELSE {"input_surface"})
      [] r \in {"context", "image"} -> {"display"}
      [] r \in {"renderbuffer", "framebuffer", "program"} \cup Shaders -> {"context"}
      [] r \in {"vpp_config", "rotation_surface"} -> {"device"}
      [] r = "vpp_context" -> {"device", "vpp_config"}
      [] OTHER -> {}

----------------------------------------------------------------------------
Idle ==
    /\ phase = "idle" /\ candidates = <<>> /\ kind = "none" /\ step = 0 /\ held = {}
    /\ waiting = {} /\ sessions = 0

Init ==
    /\ target = "none" /\ cpuUpload \in BOOLEAN /\ fences \in BOOLEAN /\ current = NoThread
    /\ cpuUpload => ~fences   \* with the software gralloc nothing reads native_fences
    /\ imported = {} /\ copierRefs = {} /\ reading = {} /\ lent = {} /\ faults = 0
    /\ gles = FALSE /\ buffers = {} /\ surfaces = {}
    /\ codec = "none" /\ encoding = <<>> /\ pending = <<>> /\ draining = FALSE /\ eos = FALSE
    /\ format = FALSE /\ bitrate = InitialBitrate /\ frames = 0
    /\ latest = 0 /\ force = FALSE /\ out = NoPacket /\ broken = FALSE
    /\ Idle

streamVars == <<codecVars, latest, force, out, broken>>

(* The next candidate is tried; whether it rotates through GLES depends on
   what the device's video processor can do. *)
TryNext ==
    /\ candidates' = Tail(candidates)
    /\ kind' = Head(candidates)
    /\ gles' \in (IF Head(candidates) = "vaapi" THEN BOOLEAN ELSE {FALSE})
    /\ phase' = "creating"
    /\ step' = 0

(* MaintainSessionLocked creates a session. *)
Create ==
    /\ phase = "idle" /\ sessions < MaxSessions
    /\ \E platform \in Platforms, request \in Requests, n \in Devices :
         LET list == Candidates(platform, request, n) IN
           /\ list # <<>>
           /\ kind' = Head(list) /\ candidates' = Tail(list)
           /\ gles' \in (IF Head(list) = "vaapi" THEN BOOLEAN ELSE {FALSE})
    /\ phase' = "creating" /\ step' = 0 /\ sessions' = sessions + 1
    /\ UNCHANGED <<copierVars, faults, buffers, surfaces, streamVars, held, waiting>>

TakeResource ==
    /\ phase = "creating" /\ step < Len(Plan)
    /\ step' = step + 1
    /\ held' = (held \cup {Plan[step + 1]}) \ FreedBy(Plan[step + 1])
    /\ UNCHANGED <<copierVars, faults, encoderVars, phase, candidates, kind, waiting, sessions>>

(* A call fails, or one of the checks between two of them: the partly built
   backend is destroyed. *)
CreationFails ==
    /\ phase = "creating" /\ step < Len(Plan)
    /\ phase' = "closing" /\ step' = 1
    /\ held' = LocalCleanup
    /\ UNCHANGED <<copierVars, faults, encoderVars, candidates, kind, waiting, sessions>>

CreationSucceeds ==
    /\ phase = "creating" /\ step = Len(Plan)
    /\ phase' = "open"
    /\ candidates' = <<>>
    /\ target' = IF kind # "vaapi" THEN "window" ELSE IF gles THEN "buffer" ELSE "none"
    /\ codec' = "open" /\ format' = TRUE /\ draining' = FALSE /\ eos' = FALSE
    /\ UNCHANGED <<cpuUpload, fences, current, imported, copierRefs, reading, lent, faults>>
    /\ UNCHANGED <<registerVars, encoding, pending, bitrate, frames, latest, force, out, broken>>
    /\ UNCHANGED <<kind, step, held, waiting, sessions>>

(* session_.reset(): a failed session at the composer's next poll, a working
   one when its host disconnects or the structure of the stream changes. *)
Close ==
    /\ phase = "open" /\ waiting = {}
    /\ phase' = "closing" /\ step' = 1
    /\ codec' = "none" /\ encoding' = <<>> /\ pending' = <<>>
    /\ latest' = 0 /\ force' = FALSE /\ broken' = FALSE
    /\ UNCHANGED <<copierVars, faults, registerVars, draining, eos, format, bitrate, frames, out>>
    /\ UNCHANGED <<candidates, kind, held, waiting, sessions>>

CopierBuilt == {"display", "context", "egl_surface"} \subseteq held

(* One resource is given back; the copier binds its context for its objects,
   the VA-API backend unregisters its buffers one by one. *)
GiveBack ==
    /\ phase = "closing" /\ step \in DOMAIN Release
    /\ LET r == Release[step] IN
         CASE r = "buffers" /\ buffers # {} ->
                /\ \E t \in Threads, b \in buffers : UnregisterBuffer(t, b)
                /\ UNCHANGED <<step, held>>
           [] r = "gl" /\ CopierBuilt ->
                /\ \E t \in Threads, bound \in BOOLEAN :
                     /\ DestroyCopier(t, bound)
                     /\ held' = IF bound THEN held \ GlObjects ELSE held
                /\ step' = step + 1
                /\ UNCHANGED encoderVars
           [] OTHER ->
                /\ held' = held \ Released(r)
                /\ step' = step + 1
                /\ UNCHANGED <<copierVars, faults, encoderVars>>
    /\ UNCHANGED <<phase, candidates, kind, waiting, sessions>>

Destroyed ==
    /\ phase = "closing" /\ step > Len(Release)
    /\ IF candidates # <<>>
         THEN TryNext
         ELSE phase' = "idle" /\ kind' = "none" /\ step' = 0 /\ UNCHANGED <<candidates, gles>>
    /\ UNCHANGED <<copierVars, faults, buffers, surfaces, streamVars, held, waiting, sessions>>

----------------------------------------------------------------------------
(* MediaCodecEncoderBackend: the copier draws into the codec's window and the
   codec, which runs by itself, encodes what was presented. *)
MediaRegister(t, b, ok) == ImportBuffer(t, b, ok) /\ UNCHANGED encoderVars

MediaUnregister(t, b) == ForgetBuffer(t, b) /\ UNCHANGED encoderVars

(* A wait for the window that the codec ends by itself is part of the step, for
   one that it does not see SubmitWaits; after the end of the stream the codec
   ignores what is presented. *)
MediaSubmit(t, b, ok) ==
    /\ \E copied \in CopyResult : CopyFrame(t, b, copied) /\ ok = copied.success
    /\ IF ok /\ codec # "flushed"
         THEN /\ Len(encoding) < Capacity
              /\ encoding' = Append(encoding, Entry(frames + 1))
              /\ frames' = frames + 1 /\ codec' = "coding"
              /\ latest' = frames + 1 /\ force' = FALSE
         ELSE UNCHANGED <<encoding, frames, codec, latest, force>>
    /\ UNCHANGED <<registerVars, pending, draining, eos, format, bitrate, out, broken>>

(* REPEAT_PREVIOUS_FRAME_AFTER: the codec encodes its last picture again. *)
MediaRepeats ==
    /\ codec = "coding" /\ encoding = <<>> /\ latest # 0
    /\ encoding' = <<Entry(latest)>>
    /\ frames' = frames + 1 /\ force' = FALSE
    /\ UNCHANGED <<copierVars, faults, registerVars, codec, pending, draining, eos, format, bitrate>>
    /\ UNCHANGED <<latest, out, broken>>

(* SetBitrate and RequestKeyFrame are parameters of the running codec. *)
MediaParameters(rate, key, ok) ==
    /\ bitrate' = IF ok THEN rate ELSE bitrate
    /\ force' = (force \/ (key /\ ok))
    /\ MarkSessionForReset(ok)
    /\ UNCHANGED <<copierVars, faults, registerVars, codec, encoding, pending, draining, eos, format>>
    /\ UNCHANGED <<frames, latest, out>>

MediaEndOfInput(ok) ==
    /\ codec' = IF ok THEN "flushed" ELSE codec
    /\ UNCHANGED <<copierVars, faults, registerVars, encoding, pending, draining, eos, format>>
    /\ UNCHANGED <<bitrate, frames, latest, force, out, broken>>

(* DequeueOutput: a buffer that is malformed or cannot be released is lost. *)
MediaDequeue ==
    /\ \/ format /\ format' = FormatReported /\ UNCHANGED <<encoding, eos, out, broken>>
       \/ /\ encoding # <<>> /\ encoding' = Tail(encoding)
          /\ \/ out' = Packet(Head(encoding)) /\ UNCHANGED broken
             \/ broken' = TRUE /\ UNCHANGED out
          /\ UNCHANGED <<eos, format>>
       \/ /\ codec = "flushed" /\ encoding = <<>> /\ ~eos /\ eos' = TRUE
          /\ UNCHANGED <<encoding, format, out, broken>>
       \/ broken' = TRUE /\ UNCHANGED <<encoding, eos, format, out>>
    /\ UNCHANGED <<copierVars, faults, registerVars, codec, pending, draining, bitrate, frames>>
    /\ UNCHANGED <<latest, force>>

----------------------------------------------------------------------------
Usable == phase = "open" /\ ~broken

(* A call can be made: the last one has returned, and the mutex with it. *)
InService == Usable /\ waiting = {}

(* The composer submits a buffer when its last release fence has signalled. *)
Submittable(b) == b \notin reading

RegisterABuffer ==
    /\ InService
    /\ \E t \in Threads, b \in Buffers, ok \in BOOLEAN :
          IF kind = "vaapi" THEN RegisterBuffer(t, b, ok) ELSE MediaRegister(t, b, ok)
    /\ UNCHANGED lifeVars

UnregisterABuffer ==
    /\ InService
    /\ \E t \in Threads, b \in Buffers :
          IF kind = "vaapi" THEN UnregisterBuffer(t, b) ELSE MediaUnregister(t, b)
    /\ UNCHANGED lifeVars

SubmitAFrame ==
    /\ InService /\ frames < MaxFrames
    /\ \E t \in Threads, b \in Buffers, ok \in BOOLEAN :
         /\ Submittable(b)
         /\ IF kind = "vaapi" THEN SubmitFrame(t, b, ok) ELSE MediaSubmit(t, b, ok)
    /\ UNCHANGED lifeVars

(* A codec that holds all it can has no buffer for its window: eglSwapBuffers waits,
   under the mutex without which nothing that the codec holds is drained. *)
SubmitWaits ==
    /\ InService /\ frames < MaxFrames
    /\ kind # "vaapi" /\ codec # "flushed" /\ Len(encoding) = Capacity
    /\ \E t \in Threads, b \in imported :
         /\ CanBind(t) /\ Submittable(b)
         /\ waiting' = {<<t, b>>}
    /\ UNCHANGED <<copierVars, faults, encoderVars, phase, candidates, kind, step, held, sessions>>

(* Nothing in this code ends that wait; a codec that fails abandons its window. *)
WaitingSubmitFails ==
    /\ \E t \in Threads, b \in Buffers :
          <<t, b>> \in waiting /\ CopyFrame(t, b, Failed) /\ DrawOnWindow(b, Failed)
    /\ waiting' = {}
    /\ UNCHANGED <<encoderVars, phase, candidates, kind, step, held, sessions>>

RepeatAFrame ==
    /\ InService /\ frames < MaxFrames
    /\ IF kind = "vaapi" THEN \E ok \in BOOLEAN : RepeatLastFrame(ok) ELSE MediaRepeats
    /\ UNCHANGED lifeVars

ChangeBitrate ==
    /\ InService
    /\ \E rate \in Bitrates, ok \in BOOLEAN :
          IF kind = "vaapi" THEN SetBitrate(rate, ok) ELSE MediaParameters(rate, FALSE, ok)
    /\ UNCHANGED lifeVars

AskForKeyFrame ==
    /\ InService
    /\ \E ok \in BOOLEAN :
          IF kind = "vaapi" THEN RequestKeyFrame(ok) ELSE MediaParameters(bitrate, TRUE, ok)
    /\ UNCHANGED lifeVars

EndInput ==
    /\ InService
    /\ \E ok \in BOOLEAN :
          IF kind = "vaapi" THEN SignalEndOfInputStream(ok) ELSE MediaEndOfInput(ok)
    /\ UNCHANGED lifeVars

DrainOutput ==
    /\ InService
    /\ IF kind = "vaapi" THEN DequeueOutput ELSE MediaDequeue
    /\ UNCHANGED lifeVars

GpuWorks == GpuFinishes /\ UNCHANGED <<encoderVars, lifeVars>>

Next ==
    \/ Create \/ TakeResource \/ CreationFails \/ CreationSucceeds
    \/ Close \/ GiveBack \/ Destroyed
    \/ RegisterABuffer \/ UnregisterABuffer \/ SubmitAFrame \/ SubmitWaits \/ WaitingSubmitFails
    \/ RepeatAFrame \/ ChangeBitrate \/ AskForKeyFrame \/ EndInput \/ DrainOutput \/ GpuWorks

(* The output worker drains while a frame is out.  DrainOutputLocked takes
   several outputs in one hold of the mutex (max_output_packets_per_drain), so
   changes of bitrate cannot for ever put a change of format before each packet.
   The composer's poll replaces a failed session.  A submit that waits disables
   both, and need never return. *)
Fairness ==
    WF_vars(DrainOutput) /\ SF_vars(DrainOutput /\ ~format) /\ WF_vars(broken /\ Close)

Spec == Init /\ [][Next]_vars /\ Fairness

----------------------------------------------------------------------------
(* The types of the state. *)
TypeOK ==
    /\ target \in {"none", "window", "buffer"} /\ {cpuUpload, fences, gles} \subseteq BOOLEAN
    /\ current \in Threads \cup {NoThread} /\ faults \in 0 .. MaxFaults
    /\ \A set \in {imported, copierRefs, reading, lent, buffers, surfaces} : set \subseteq Buffers
    /\ codec \in {"none", "open", "coding", "flushed"} /\ bitrate \in Bitrates
    /\ {draining, eos, format, force, broken} \subseteq BOOLEAN
    /\ Len(encoding) <= Capacity /\ frames \in 0 .. MaxFrames /\ latest \in 0 .. frames
    /\ phase \in {"idle", "creating", "open", "closing"}
    /\ kind \in {"none", "vaapi", "venus", "software"}
    /\ waiting \subseteq Threads \X imported

(* Whatever a raw handle was made from is there as long as the handle is, at
   every step of every partial creation and of the destructors (~Impl of both
   codec files, and the declaration order of MediaCodecEncoderBackend). *)
OwnersOutlive ==
    /\ \A r \in held : Owners(r) \subseteq held
    /\ surfaces # {} => "device" \in held

(* A session that is gone, or was never completed, holds nothing; the buffers
   of a copier whose context could not be bound are the one exception. *)
NothingIsLeft ==
    phase = "idle" =>
        /\ held = {} /\ buffers = {} /\ surfaces = {} /\ imported = {}
        /\ copierRefs # {} => faults > 0

(* A session whose caller may still use it has a codec: a change of bitrate
   that loses the codec is always reported (SetBitrate, ApplyVideoEncoderConfig). *)
CodecIsThere == Usable => codec # "none"

(* Every frame the encoder takes comes out once, in order, with the picture it
   was sent with, through changes of bitrate, repetitions and full codecs;
   requests for key frames are kept until a frame or a failure answers them. *)
Contract == INSTANCE EncoderContract WITH
    queue <- pending \o Packets(encoding), asked <- force, picture <- latest,
    accepted <- frames, failed <- broken
KeepsContract == Contract!Spec

(* What was accepted is given out, or the session is replaced, or a submit waits for
   room that only draining would make: eglSwapBuffers holds the mutex that the output
   worker drains under, and with it everything the codec has (SubmitFrame against
   DrainOutputLoop). *)
OutputIsGivenOut ==
    (pending \o encoding # <<>>) ~> (pending \o encoding = <<>> \/ waiting # {})
=============================================================================
