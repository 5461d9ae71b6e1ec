--------------------------- MODULE EglFrameCopier ---------------------------
(***************************************************************************)
(* The GL copy of a display buffer into an encoder's input, as             *)
(* src/codec/EglFrameCopier.cpp makes it once it is initialised.           *)
(*                                                                         *)
(* Every operation runs under impl_->mutex, so it is one step here, made   *)
(* by the binder thread that calls it.  What the steps share is the EGL    *)
(* context, which is current on one thread at a time: an operation binds   *)
(* it, and the destructor of ScopedEglContextBinding lets go of it, which  *)
(* may itself fail.  The GPU reads a source buffer after the operation     *)
(* that submitted the draw has returned.                                   *)
(***************************************************************************)
EXTENDS Naturals

CONSTANTS
    Buffers,    \* the AHardwareBuffers the composer registers
    Threads,    \* the binder threads and the output worker
    NoThread,   \* the context is current nowhere
    MaxFaults   \* bound: EGL, GL, codec and allocation failures in one behaviour

ASSUME CopierAssumption == NoThread \notin Threads /\ MaxFaults \in Nat

VARIABLES
    target,     \* "none" while there is no copier, else what it draws on: "window" or "buffer"
    cpuUpload,  \* impl_->cpu_upload: the software gralloc backend
    fences,     \* impl_->native_fences
    current,    \* the thread on which the context is current
    imported,   \* the keys of impl_->buffers
    copierRefs, \* buffers this copier holds a reference to
    reading,    \* source buffers a submitted draw has yet to read
    lent,       \* source buffers handed back to the composer without a fence
    faults      \* failures so far

copierVars == <<target, cpuUpload, fences, current, imported, copierRefs, reading, lent>>

CopyResult == [success : BOOLEAN, fence : BOOLEAN, synchronous : BOOLEAN]
Failed == [success |-> FALSE, fence |-> FALSE, synchronous |-> FALSE]

----------------------------------------------------------------------------
(* n operations outside this code fail in the step. *)
Faults(n) == faults' = faults + n /\ faults' <= MaxFaults

(* eglMakeCurrent: refused while the context is current on another thread. *)
CanBind(t) == current \in {NoThread, t}

BindFails(t) ==
    /\ Faults(IF CanBind(t) THEN 1 ELSE 0)
    /\ UNCHANGED current

(* ~ScopedEglContextBinding after an operation in which n calls failed.  A
   release that fails is logged and the context stays where it is. *)
Unbind(t, n) ==
    \E left \in {NoThread, t} :
        /\ current' = left
        /\ Faults(n + (IF left = t THEN 1 ELSE 0))

(* The texture, the image and the reference go together. *)
ReleaseImportedBuffer(refs, b) == refs \ {b}

(* RegisterBuffer.  The reference is taken before the texture is made, and
   each way out of a failed import gives it back. *)
ImportBuffer(t, b, ok) ==
    /\ \/ ~ok /\ BindFails(t) /\ UNCHANGED <<imported, copierRefs>>
       \/ /\ CanBind(t)
          /\ b \in imported => ok
          /\ imported' = IF ok THEN imported \cup {b} ELSE imported
          /\ copierRefs' = IF ok THEN copierRefs \cup {b}
                                 ELSE ReleaseImportedBuffer(copierRefs \cup {b}, b)
          /\ Unbind(t, IF ok THEN 0 ELSE 1)
    /\ UNCHANGED <<target, cpuUpload, fences, reading, lent>>

(* UnregisterBuffer.  Without a context the entry and its reference stay. *)
ForgetBuffer(t, b) ==
    /\ \/ b \notin imported /\ UNCHANGED <<imported, copierRefs, current, faults>>
       \/ b \in imported /\ BindFails(t) /\ UNCHANGED <<imported, copierRefs>>
       \/ /\ b \in imported
          /\ CanBind(t)
          /\ imported' = imported \ {b}
          /\ copierRefs' = ReleaseImportedBuffer(copierRefs, b)
          /\ Unbind(t, 0)
    /\ UNCHANGED <<target, cpuUpload, fences, reading, lent>>

(* What UploadCpuBuffer, or CreateReleaseFence after the draw, leaves for the
   composer to wait on: a fence, or nothing and then the copy is complete. *)
ReleaseFences == IF cpuUpload \/ fences THEN BOOLEAN ELSE {FALSE}

Lend(b, result) == lent' = IF result.fence THEN lent \ {b} ELSE lent \cup {b}

(* The GPU's share of a copy: the draw reads b unless the pixels were uploaded;
   glFinish waits for every draw of this context. *)
AfterDraw(b) == IF cpuUpload THEN reading ELSE reading \cup {b}
Finished == {}

(* The draw's target is a buffer: glFinish, then the unlock fence is waited for. *)
DrawOnBuffer(b, result) ==
    /\ target = "buffer"
    /\ reading' = Finished
    /\ result \in {Failed, [success |-> TRUE, fence |-> FALSE, synchronous |-> TRUE]}

DrawOnWindow_UnfinishedOnFailure(b, result) ==
    /\ target = "window"
    /\ \/ \E fence \in ReleaseFences :
            /\ result = [success |-> TRUE, fence |-> fence, synchronous |-> ~fence]
            /\ reading' = IF fence \/ cpuUpload THEN AfterDraw(b) ELSE Finished
       \/ result = Failed /\ reading' = AfterDraw(b)

(* The draw's target is the codec's window: the release fence is made before
   the frame is presented; a frame that cannot be presented is waited for. *)
DrawOnWindow(b, result) ==
    /\ target = "window"
    /\ \/ \E fence \in ReleaseFences :
            /\ result = [success |-> TRUE, fence |-> fence, synchronous |-> ~fence]
            /\ reading' = IF fence \/ cpuUpload THEN AfterDraw(b) ELSE Finished
       \/ result = Failed /\ reading' = Finished

(* The stages before the frame is presented, each of which may fail: the
   acquire fence is waited for on the CPU or handed to EGL, the software
   gralloc's pixels are uploaded under a CPU lock, the draw is submitted. *)
WaitAcquireFence == BOOLEAN
UploadCpuBuffer == IF cpuUpload THEN BOOLEAN ELSE {TRUE}
Blit == BOOLEAN

(* CopyFrame.  An unknown buffer, a context that cannot be bound or a stage
   that fails leave the GPU nothing to read: GL ignores a command it refuses. *)
CopyFrame(t, b, result) ==
    /\ \/ b \notin imported /\ result = Failed /\ UNCHANGED <<current, reading, faults>>
       \/ b \in imported /\ result = Failed /\ BindFails(t) /\ UNCHANGED reading
       \/ /\ b \in imported
          /\ CanBind(t)
          /\ \E acquired \in WaitAcquireFence, uploaded \in UploadCpuBuffer, drawn \in Blit :
                IF acquired /\ uploaded /\ drawn
                  THEN DrawOnBuffer(b, result) \/ DrawOnWindow(b, result)
                  ELSE result = Failed /\ UNCHANGED reading
          /\ Unbind(t, IF result.success THEN 0 ELSE 1)
    /\ Lend(b, result)
    /\ UNCHANGED <<target, cpuUpload, fences, imported, copierRefs>>

(* The GPU gets to a draw, and the fence made for it signals. *)
GpuFinishes ==
    /\ \E b \in reading : reading' = reading \ {b}
    /\ UNCHANGED <<target, cpuUpload, fences, current, imported, copierRefs, lent, faults>>

(* ~Impl: only with the context bound are the imported buffers released. *)
DestroyCopier(t, bound) ==
    /\ IF bound THEN /\ CanBind(t)
                     /\ copierRefs' = {b \in copierRefs : b \notin imported}
                     /\ reading' = Finished
                     /\ Unbind(t, 0)
                ELSE BindFails(t) /\ UNCHANGED <<copierRefs, reading>>
    /\ imported' = {}
    /\ target' = "none"
    /\ UNCHANGED <<cpuUpload, fences, lent>>

----------------------------------------------------------------------------
(* A buffer handed back without a fence is not read any more: its producer
   writes the next frame into it at once (EglFrameCopier.h: "an invalid fence
   means completion was synchronous"). *)
UnfencedBuffersAreIdle == lent \cap reading = {}
=============================================================================
