------------------------ MODULE EncoderSessionProofs ------------------------
(***************************************************************************)
(* Proofs about EncoderSession: the buffers lent without a fence, the      *)
(* codec of a session in service, the contract with the stream, and the    *)
(* resources of every partial creation and of the destructors, for any     *)
(* buffers, threads, bitrates, capacity, pool and number of sessions.      *)
(***************************************************************************)
EXTENDS EncoderSession, SequenceTheorems, TLAPS

-----------------------------------------------------------------------------
(* Buffers lent without a fence                                            *)

(* A copy into the window lends its source with a fence, or reads nothing  *)
(* of it once it returns (EglFrameCopier::CopyFrame).                      *)
LEMMA CopyLendsIdleBuffers ==
  ASSUME NEW t, NEW b, NEW result, CopyFrame(t, b, result),
         b \notin reading, UnfencedBuffersAreIdle
  PROVE  UnfencedBuffersAreIdle'
<1> USE DEF UnfencedBuffersAreIdle, Lend
<1>1. lent' = IF result.fence THEN lent \ {b} ELSE lent \cup {b}
  BY DEF CopyFrame
<1>2. CASE UNCHANGED reading
  BY <1>1, <1>2
<1>3. CASE reading' = Finished
  BY <1>3 DEF Finished
<1>4. CASE DrawOnWindow(b, result)
  <2>1. CASE result = Failed
    BY <1>3, <2>1, <1>4 DEF DrawOnWindow, Failed
  <2>2. CASE \E fence \in ReleaseFences :
               /\ result = [success |-> TRUE, fence |-> fence, synchronous |-> ~fence]
               /\ reading' = IF fence \/ cpuUpload THEN AfterDraw(b) ELSE Finished
    BY <1>1, <2>2 DEF AfterDraw, Finished
  <2> QED
    BY <1>4, <2>1, <2>2 DEF DrawOnWindow
<1>5. CASE DrawOnBuffer(b, result)
  BY <1>3, <1>5 DEF DrawOnBuffer
<1> QED
  BY <1>2, <1>4, <1>5 DEF CopyFrame

(* The operations on registrations draw nothing and lend nothing.          *)
LEMMA RegistrationsLendNothing ==
  ASSUME NEW t, NEW b, NEW ok,
         \/ RegisterBuffer(t, b, ok) \/ UnregisterBuffer(t, b)
         \/ MediaRegister(t, b, ok) \/ MediaUnregister(t, b)
  PROVE  UNCHANGED <<reading, lent>>
BY DEF RegisterBuffer, UnregisterBuffer, MediaRegister, MediaUnregister, ImportBuffer,
       ForgetBuffer, copierVars

(* Whatever is lent without a fence is not read any more: the composer may *)
(* let its producer write into it (EglFrameCopier.h).                      *)
THEOREM LentBuffersAreIdle == Spec => []UnfencedBuffersAreIdle
<1>1. Init => UnfencedBuffersAreIdle
  BY DEF Init, UnfencedBuffersAreIdle
<1>2. UnfencedBuffersAreIdle /\ [Next]_vars => UnfencedBuffersAreIdle'
  <2> SUFFICES ASSUME UnfencedBuffersAreIdle, [Next]_vars PROVE UnfencedBuffersAreIdle'
    OBVIOUS
  <2>1. CASE UNCHANGED <<reading, lent>>
    BY <2>1 DEF UnfencedBuffersAreIdle
  <2>2. CASE SubmitAFrame
    <3> PICK t \in Threads, b \in Buffers, ok \in BOOLEAN :
          /\ Submittable(b)
          /\ IF kind = "vaapi" THEN SubmitFrame(t, b, ok) ELSE MediaSubmit(t, b, ok)
      BY <2>2 DEF SubmitAFrame
    <3>1. UNCHANGED <<reading, lent>> \/ \E result : CopyFrame(t, b, result)
      BY DEF SubmitFrame, SourceReady, MediaSubmit, copierVars
    <3> QED
      BY <3>1, <2>1, CopyLendsIdleBuffers DEF Submittable
  <2>3. CASE RegisterABuffer \/ UnregisterABuffer
    BY <2>1, <2>3, RegistrationsLendNothing DEF RegisterABuffer, UnregisterABuffer
  <2>4. CASE GiveBack
    <3>1. \/ UNCHANGED <<reading, lent>>
          \/ \E t \in Threads, b \in buffers : UnregisterBuffer(t, b)
          \/ \E t \in Threads, bound \in BOOLEAN : DestroyCopier(t, bound)
      BY <2>4 DEF GiveBack, copierVars
    <3>2. ASSUME NEW t, NEW bound, DestroyCopier(t, bound)
          PROVE  UNCHANGED lent /\ reading' \in {reading, {}}
      BY <3>2 DEF DestroyCopier, Finished
    <3> QED
      BY <3>1, <3>2, <2>1, RegistrationsLendNothing DEF UnfencedBuffersAreIdle
  <2>5. CASE GpuWorks
    BY <2>5 DEF GpuWorks, GpuFinishes, UnfencedBuffersAreIdle
  <2>9. CASE WaitingSubmitFails
    <3>1. PICK b : DrawOnWindow(b, Failed)
      BY <2>9 DEF WaitingSubmitFails
    <3>2. reading' = {}
      BY <3>1 DEF DrawOnWindow, Failed, Finished
    <3> QED
      BY <3>2 DEF UnfencedBuffersAreIdle
  <2>6. CASE \/ Create \/ TakeResource \/ CreationFails \/ CreationSucceeds \/ Close \/ Destroyed
             \/ SubmitWaits
    BY <2>1, <2>6 DEF Create, TakeResource, CreationFails, CreationSucceeds, Close, Destroyed,
                      SubmitWaits, copierVars
  <2>7. CASE RepeatAFrame \/ ChangeBitrate \/ AskForKeyFrame \/ EndInput \/ DrainOutput
    BY <2>1, <2>7
       DEF RepeatAFrame, RepeatLastFrame, MediaRepeats, ChangeBitrate, SetBitrate,
           AskForKeyFrame, RequestKeyFrame, MediaParameters, EndInput, SignalEndOfInputStream,
           MediaEndOfInput, DrainOutput, DequeueOutput, MediaDequeue, copierVars
  <2>8. CASE UNCHANGED vars
    BY <2>1, <2>8 DEF vars, copierVars
  <2> QED
    BY <2>2, <2>3, <2>4, <2>5, <2>6, <2>7, <2>8, <2>9 DEF Next
<1> QED
  BY <1>1, <1>2, PTL DEF Spec

-----------------------------------------------------------------------------
(* The codec of a session in service                                       *)

(* A change of bitrate that ends without a codec is answered with a        *)
(* failure, and the caller marks the session (SetBitrate).                 *)
LEMMA BitrateKeepsCodec ==
  ASSUME NEW rate, NEW ok \in BOOLEAN, SetBitrate(rate, ok), codec # "none", ~broken'
  PROVE  codec' # "none"
BY DEF SetBitrate, MarkSessionForReset, CreateCodec, codecVars

(* The other operations of either backend leave a codec there.             *)
LEMMA OperationsKeepCodec ==
  ASSUME NEW t, NEW b, NEW ok \in BOOLEAN, NEW rate, NEW key, codec # "none",
         \/ SubmitFrame(t, b, ok) \/ MediaSubmit(t, b, ok)
         \/ RepeatLastFrame(ok) \/ MediaRepeats
         \/ RequestKeyFrame(ok) \/ MediaParameters(rate, key, ok)
         \/ SignalEndOfInputStream(ok) \/ MediaEndOfInput(ok)
         \/ DequeueOutput \/ MediaDequeue
  PROVE  codec' # "none"
<1>1. CASE SubmitFrame(t, b, ok) \/ RepeatLastFrame(ok)
  BY <1>1 DEF SubmitFrame, RepeatLastFrame, Send, codecVars
<1>2. CASE MediaSubmit(t, b, ok) \/ MediaRepeats
  BY <1>2 DEF MediaSubmit, MediaRepeats
<1>3. CASE \/ RequestKeyFrame(ok) \/ MediaParameters(rate, key, ok)
           \/ SignalEndOfInputStream(ok) \/ MediaEndOfInput(ok)
  BY <1>3 DEF RequestKeyFrame, MediaParameters, SignalEndOfInputStream, MediaEndOfInput, codecVars
<1>4. CASE DequeueOutput \/ MediaDequeue
  BY <1>4 DEF DequeueOutput, MediaDequeue
<1> QED
  BY <1>1, <1>2, <1>3, <1>4

(* A session its caller may still use has a codec, whatever its bitrate    *)
(* was changed to and however often (FfmpegVaapiEncoderBackend,            *)
(* VideoFrameConsumerBackend::ApplyVideoEncoderConfig).                    *)
THEOREM UsableSessionsHaveCodec == Spec => []CodecIsThere
<1> USE DEF CodecIsThere, Usable, InService
<1>1. Init => CodecIsThere
  BY DEF Init, Idle
<1>2. CodecIsThere /\ [Next]_vars => CodecIsThere'
  <2> SUFFICES ASSUME CodecIsThere, [Next]_vars, phase' = "open", ~broken'
               PROVE  codec' # "none"
    OBVIOUS
  <2>1. CASE UNCHANGED <<phase, codec, broken>>
    BY <2>1
  <2>2. CASE CreationSucceeds
    BY <2>2 DEF CreationSucceeds
  <2>3. CASE Create \/ TakeResource \/ CreationFails \/ Close \/ Destroyed
    <3>1. ASSUME TryNext PROVE phase' = "creating"
      BY <3>1 DEF TryNext
    <3> QED
      BY <2>3, <3>1, <2>1 DEF Create, TakeResource, CreationFails, Close, Destroyed
  <2>4. CASE GiveBack
    BY <2>4 DEF GiveBack
  <2>5. CASE RegisterABuffer \/ UnregisterABuffer
    <3>1. ASSUME NEW t, NEW b, NEW ok,
                 \/ RegisterBuffer(t, b, ok) \/ UnregisterBuffer(t, b)
                 \/ MediaRegister(t, b, ok) \/ MediaUnregister(t, b)
          PROVE  UNCHANGED <<codec, broken>>
      BY <3>1 DEF RegisterBuffer, UnregisterBuffer, MediaRegister, MediaUnregister, codecVars,
                  encoderVars
    <3> QED
      BY <2>1, <2>5, <3>1 DEF RegisterABuffer, UnregisterABuffer, lifeVars
  <2>6. CASE ChangeBitrate
    BY <2>6, BitrateKeepsCodec, OperationsKeepCodec DEF ChangeBitrate
  <2>7. CASE \/ SubmitAFrame \/ RepeatAFrame \/ AskForKeyFrame \/ EndInput \/ DrainOutput
    BY <2>7, OperationsKeepCodec
       DEF SubmitAFrame, RepeatAFrame, AskForKeyFrame, EndInput, DrainOutput
  <2>8. CASE GpuWorks \/ SubmitWaits \/ WaitingSubmitFails \/ UNCHANGED vars
    BY <2>1, <2>8 DEF GpuWorks, SubmitWaits, WaitingSubmitFails, vars, encoderVars, codecVars,
                      lifeVars
  <2> QED
    BY <2>2, <2>3, <2>4, <2>5, <2>6, <2>7, <2>8 DEF Next
<1> QED
  BY <1>1, <1>2, PTL DEF Spec

-----------------------------------------------------------------------------
(* The contract                                                            *)

Entries == [frame : Nat, surface : Nat, key : BOOLEAN]
Outputs == [frame : Nat, picture : Nat, key : BOOLEAN]

(* What the contract's state is made of.                                   *)
QueueInv ==
  /\ encoding \in Seq(Entries)
  /\ pending \in Seq(Outputs)
  /\ frames \in Nat /\ latest \in Nat
  /\ force \in BOOLEAN /\ broken \in BOOLEAN

(* Only the VA-API encoder in use sets packets aside: MediaCodec's output  *)
(* never overtakes any.                                                    *)
OnlyVaapiSetsAside == pending # <<>> => phase = "open" /\ kind = "vaapi"

(* The frames on their way, as the contract sees them.                     *)
Queue == pending \o Packets(encoding)

(* A packet is made of each frame, in order.                               *)
LEMMA PacketsOfFrames ==
  ASSUME NEW s \in Seq(Entries)
  PROVE  /\ Packets(s) \in Seq(Outputs)
         /\ Len(Packets(s)) = Len(s)
         /\ \A i \in 1 .. Len(s) : Packets(s)[i] = Packet(s[i])
<1>1. Len(s) \in Nat /\ DOMAIN s = 1 .. Len(s) /\ \A i \in 1 .. Len(s) : s[i] \in Entries
  BY LenProperties, ElementOfSeq
<1>2. \A e \in Entries : Packet(e) \in Outputs
  BY DEF Packet, Entries, Outputs
<1>3. Packets(s) = [i \in 1 .. Len(s) |-> Packet(s[i])]
  BY <1>1 DEF Packets
<1>4. Packets(s) \in [1 .. Len(s) -> Outputs]
  BY <1>1, <1>2, <1>3
<1>5. Packets(s) \in Seq(Outputs)
  BY <1>1, <1>4, SeqDef
<1>6. Len(Packets(s)) = Len(s)
  BY <1>1, <1>4, <1>5, LenProperties
<1> QED
  BY <1>3, <1>5, <1>6

(* The packets of frames in a row are in a row.                             *)
LEMMA PacketsOfConcat ==
  ASSUME NEW s \in Seq(Entries), NEW t \in Seq(Entries)
  PROVE  Packets(s \o t) = Packets(s) \o Packets(t)
<1>1. /\ s \o t \in Seq(Entries)
      /\ Len(s \o t) = Len(s) + Len(t)
      /\ \A i \in 1 .. Len(s) + Len(t) :
            (s \o t)[i] = IF i <= Len(s) THEN s[i] ELSE t[i - Len(s)]
  BY ConcatProperties
<1>2. Len(s) \in Nat /\ Len(t) \in Nat
  BY LenProperties
<1>3. /\ Packets(s) \o Packets(t) \in Seq(Outputs)
      /\ Len(Packets(s) \o Packets(t)) = Len(s) + Len(t)
      /\ \A i \in 1 .. Len(s) + Len(t) :
            (Packets(s) \o Packets(t))[i] =
                IF i <= Len(s) THEN Packets(s)[i] ELSE Packets(t)[i - Len(s)]
  <2>1. /\ Packets(s) \in Seq(Outputs) /\ Len(Packets(s)) = Len(s)
        /\ Packets(t) \in Seq(Outputs) /\ Len(Packets(t)) = Len(t)
    BY PacketsOfFrames
  <2>2. ASSUME NEW p \in Seq(Outputs), NEW q \in Seq(Outputs)
        PROVE  /\ p \o q \in Seq(Outputs)
               /\ Len(p \o q) = Len(p) + Len(q)
               /\ \A i \in 1 .. Len(p) + Len(q) :
                     (p \o q)[i] = IF i <= Len(p) THEN p[i] ELSE q[i - Len(p)]
    BY ConcatProperties
  <2> DEFINE p == Packets(s)
             q == Packets(t)
  <2> HIDE DEF p, q
  <2>3. /\ p \o q \in Seq(Outputs)
        /\ Len(p \o q) = Len(p) + Len(q)
        /\ \A i \in 1 .. Len(p) + Len(q) :
              (p \o q)[i] = IF i <= Len(p) THEN p[i] ELSE q[i - Len(p)]
    BY <2>1, <2>2 DEF p, q
  <2> QED
    BY <2>1, <2>3 DEF p, q
<1>4. /\ Packets(s \o t) \in Seq(Outputs)
      /\ Len(Packets(s \o t)) = Len(s) + Len(t)
      /\ \A i \in 1 .. Len(s) + Len(t) : Packets(s \o t)[i] = Packet((s \o t)[i])
  BY <1>1, PacketsOfFrames
<1>5. ASSUME NEW i \in 1 .. Len(s) + Len(t)
      PROVE  Packets(s \o t)[i] = (Packets(s) \o Packets(t))[i]
  <2>1. CASE i <= Len(s)
    <3>1. i \in 1 .. Len(s)
      BY <2>1, <1>2
    <3> QED
      BY <3>1, <2>1, <1>1, <1>3, <1>4, PacketsOfFrames
  <2>2. CASE ~(i <= Len(s))
    <3>1. i - Len(s) \in 1 .. Len(t)
      BY <2>2, <1>2
    <3> QED
      BY <3>1, <2>2, <1>1, <1>3, <1>4, PacketsOfFrames
  <2> QED
    BY <2>1, <2>2
<1> QED
  BY <1>3, <1>4, <1>5, SeqEqual

(* Concatenation is associative, for outputs.                               *)
LEMMA OutputsAssociate ==
  ASSUME NEW s \in Seq(Outputs), NEW t \in Seq(Outputs), NEW u \in Seq(Outputs)
  PROVE  (s \o t) \o u = s \o (t \o u)
BY ConcatAssociative, SMT

(* A sequence is its first n elements and the rest.                         *)
LEMMA SplitFrames ==
  ASSUME NEW s \in Seq(Entries), NEW n \in 0 .. Len(s)
  PROVE  SubSeq(s, 1, n) \o SubSeq(s, n + 1, Len(s)) = s
<1>1. Len(s) \in Nat
  BY LenProperties
<1>2. 1 \in 1 .. Len(s) + 1 /\ n \in 1 - 1 .. Len(s) /\ Len(s) \in n .. Len(s)
  BY <1>1
<1>3. SubSeq(s, 1, n) \o SubSeq(s, n + 1, Len(s)) = SubSeq(s, 1, Len(s))
  BY <1>2, ConcatAdjacentSubSeq, Zenon
<1> QED
  BY <1>3, SubSeqFull, Zenon

(* The contract's queue is a sequence of outputs.                           *)
LEMMA QueueType ==
  ASSUME QueueInv
  PROVE  /\ Packets(encoding) \in Seq(Outputs)
         /\ Queue \in Seq(Outputs)
BY PacketsOfFrames, ConcatProperties DEF QueueInv, Queue

(* Packets moved from the codec to the pending queue stay where they are   *)
(* in the contract's, and what is added comes behind them (ReceivePacket). *)
LEMMA ReceiveKeepsOrder ==
  ASSUME QueueInv, NEW n \in Nat, NEW added \in Seq(Entries), Receive(n, added)
  PROVE  /\ encoding' \in Seq(Entries) /\ pending' \in Seq(Outputs)
         /\ Queue' = Queue \o Packets(added)
<1> DEFINE taken == SubSeq(encoding, 1, n)
           left == SubSeq(encoding, n + 1, Len(encoding))
<1>1. encoding \in Seq(Entries) /\ pending \in Seq(Outputs)
  BY DEF QueueInv
<1>2. Len(encoding) \in Nat /\ n <= Len(encoding)
  BY <1>1, LenProperties DEF Receive
<1>3. taken \in Seq(Entries) /\ left \in Seq(Entries)
  <2>1. \A i \in 1 .. n : encoding[i] \in Entries
    BY <1>1, <1>2, ElementOfSeq
  <2>2. \A i \in n + 1 .. Len(encoding) : encoding[i] \in Entries
    BY <1>1, <1>2, ElementOfSeq
  <2>3. taken \in Seq(Entries)
    BY <1>2, <2>1, SubSeqProperties
  <2>4. left \in Seq(Entries)
    BY <1>2, <2>2, SubSeqProperties
  <2> QED
    BY <2>3, <2>4
<1>4. taken \o left = encoding
  <2>1. n \in 0 .. Len(encoding)
    BY <1>2
  <2> QED
    BY <1>1, <2>1, SplitFrames, Zenon
<1>5. encoding' = left \o added /\ pending' = pending \o Packets(taken)
  BY DEF Receive
<1>6. /\ Packets(taken) \in Seq(Outputs) /\ Packets(left) \in Seq(Outputs)
      /\ Packets(added) \in Seq(Outputs)
  BY <1>3, PacketsOfFrames
<1>7. encoding' \in Seq(Entries) /\ pending' \in Seq(Outputs)
  BY <1>1, <1>3, <1>5, <1>6, ConcatProperties
<1>8. Packets(encoding') = Packets(left) \o Packets(added)
  BY <1>3, <1>5, PacketsOfConcat
<1>9. Packets(encoding) = Packets(taken) \o Packets(left)
  BY <1>3, <1>4, PacketsOfConcat
<1>10. Queue = (pending \o Packets(taken)) \o Packets(left)
  <2> DEFINE p == Packets(taken)
             q == Packets(left)
  <2>1. p \in Seq(Outputs) /\ q \in Seq(Outputs) /\ Queue = pending \o (p \o q)
    BY <1>6, <1>9 DEF Queue
  <2> HIDE DEF p, q
  <2>2. Queue = (pending \o p) \o q
    BY <1>1, <2>1, OutputsAssociate
  <2> QED
    BY <2>2 DEF p, q
<1>11. Queue' = (pending \o Packets(taken)) \o (Packets(left) \o Packets(added))
  BY <1>5, <1>8 DEF Queue
<1>12. pending \o Packets(taken) \in Seq(Outputs)
  BY <1>1, <1>6, ConcatProperties
<1> QED
  BY <1>6, <1>7, <1>10, <1>11, <1>12, OutputsAssociate, Zenon

(* The packets of one frame: one.                                           *)
LEMMA PacketsOfOne ==
  ASSUME NEW e \in Entries
  PROVE  /\ <<e>> \in Seq(Entries)
         /\ Packets(<<e>>) = <<Packet(e)>>
         /\ Packet(e) \in Outputs
<1>1. <<e>> \in Seq(Entries) /\ Len(<<e>>) = 1 /\ <<e>>[1] = e
  OBVIOUS
<1>2. Packet(e) \in Outputs
  BY DEF Packet, Entries, Outputs
<1>3. <<Packet(e)>> \in Seq(Outputs) /\ Len(<<Packet(e)>>) = 1
  BY <1>2
<1>4. Packets(<<e>>) \in Seq(Outputs) /\ Len(Packets(<<e>>)) = 1 /\ Packets(<<e>>)[1] = Packet(e)
  <2> DEFINE s == <<e>>
  <2>1. s \in Seq(Entries) /\ Len(s) = 1 /\ s[1] = e
    BY <1>1
  <2> HIDE DEF s
  <2>2. Packets(s) \in Seq(Outputs) /\ Len(Packets(s)) = 1 /\ Packets(s)[1] = Packet(s[1])
    BY <2>1, PacketsOfFrames
  <2> QED
    BY <2>1, <2>2 DEF s
<1>5. \A i \in 1 .. 1 : Packets(<<e>>)[i] = <<Packet(e)>>[i]
  BY <1>4
<1>6. Packets(<<e>>) = <<Packet(e)>>
  <2> DEFINE p == Packets(<<e>>)
             q == <<Packet(e)>>
  <2>1. /\ p \in Seq(Outputs) /\ q \in Seq(Outputs) /\ Len(p) = Len(q)
        /\ \A i \in 1 .. Len(p) : p[i] = q[i]
    BY <1>3, <1>4, <1>5
  <2> HIDE DEF p, q
  <2>2. p = q
    BY <2>1, SeqEqual
  <2> QED
    BY <2>2 DEF p, q
<1> QED
  BY <1>1, <1>2, <1>6

(* The packets of no frame: none.                                           *)
LEMMA PacketsOfNone ==
  /\ <<>> \in Seq(Entries)
  /\ Packets(<<>>) = <<>>
<1>1. <<>> \in Seq(Entries) /\ Len(<<>>) = 0
  BY EmptySeq
<1>2. Packets(<<>>) \in Seq(Outputs) /\ Len(Packets(<<>>)) = 0
  BY <1>1, PacketsOfFrames
<1> QED
  BY <1>1, <1>2, EmptySeq

(* What is taken from the front of the codec is the front of its packets.  *)
LEMMA PacketsOfTail ==
  ASSUME NEW s \in Seq(Entries), s # <<>>
  PROVE  /\ Tail(s) \in Seq(Entries)
         /\ Packets(s) # <<>>
         /\ Head(Packets(s)) = Packet(Head(s))
         /\ Tail(Packets(s)) = Packets(Tail(s))
<1> DEFINE p == Packets(s)
           q == Packets(Tail(s))
<1>1. /\ p \in Seq(Outputs) /\ Len(p) = Len(s)
      /\ \A i \in 1 .. Len(s) : p[i] = Packet(s[i])
  BY PacketsOfFrames
<1>2. /\ Tail(s) \in Seq(Entries) /\ Len(Tail(s)) = Len(s) - 1 /\ Len(s) \in Nat \ {0}
      /\ \A i \in 1 .. Len(Tail(s)) : Tail(s)[i] = s[i + 1]
  BY HeadTailProperties, EmptySeq
<1>3. /\ q \in Seq(Outputs) /\ Len(q) = Len(s) - 1
      /\ \A i \in 1 .. Len(s) - 1 : q[i] = Packet(Tail(s)[i])
  BY <1>2, PacketsOfFrames
<1> HIDE DEF p, q
<1>4. p # <<>>
  BY <1>1, <1>2, EmptySeq
<1>5. Head(p) = Packet(Head(s))
  BY <1>1, <1>2
<1>6. /\ Tail(p) \in Seq(Outputs) /\ Len(Tail(p)) = Len(s) - 1
      /\ \A i \in 1 .. Len(s) - 1 : Tail(p)[i] = p[i + 1]
  BY <1>1, <1>4, HeadTailProperties
<1>7. \A i \in 1 .. Len(s) - 1 : Tail(p)[i] = q[i]
  <2> SUFFICES ASSUME NEW i \in 1 .. Len(s) - 1 PROVE Tail(p)[i] = q[i]
    OBVIOUS
  <2>1. i + 1 \in 1 .. Len(s) /\ i \in 1 .. Len(Tail(s))
    BY <1>2
  <2>2. Tail(p)[i] = Packet(s[i + 1])
    BY <1>1, <1>6, <2>1
  <2>3. q[i] = Packet(s[i + 1])
    BY <1>2, <1>3, <2>1
  <2> QED
    BY <2>2, <2>3
<1>8. Tail(p) = q
  BY <1>3, <1>6, <1>7, SeqEqual
<1> QED
  BY <1>2, <1>4, <1>5, <1>8 DEF p, q

(* The front of what is set aside is the front of the queue.               *)
LEMMA FrontOfConcat ==
  ASSUME NEW s \in Seq(Outputs), NEW t \in Seq(Outputs), s # <<>>
  PROVE  /\ s \o t # <<>>
         /\ Head(s \o t) = Head(s)
         /\ Tail(s \o t) = Tail(s) \o t
<1>1. /\ s \o t \in Seq(Outputs) /\ Len(s \o t) = Len(s) + Len(t)
      /\ \A i \in 1 .. Len(s) + Len(t) :
            (s \o t)[i] = IF i <= Len(s) THEN s[i] ELSE t[i - Len(s)]
  BY ConcatProperties
<1>2. Len(s) \in Nat \ {0} /\ Len(t) \in Nat
  BY EmptySeq, LenProperties
<1>3. s \o t # <<>>
  BY <1>1, <1>2, EmptySeq
<1>4. 1 \in 1 .. Len(s) + Len(t) /\ 1 <= Len(s)
  BY <1>2
<1>5. (s \o t)[1] = s[1]
  BY <1>1, <1>4
<1>6. Head(s \o t) = Head(s)
  <2> DEFINE c == s \o t
  <2>1. c \in Seq(Outputs) /\ c # <<>> /\ c[1] = s[1]
    BY <1>1, <1>3, <1>5
  <2> HIDE DEF c
  <2>2. Head(c) = Head(s)
    BY <2>1
  <2> QED
    BY <2>2 DEF c
<1>7. /\ Tail(s \o t) \in Seq(Outputs) /\ Len(Tail(s \o t)) = Len(s) + Len(t) - 1
      /\ \A i \in 1 .. Len(s) + Len(t) - 1 : Tail(s \o t)[i] = (s \o t)[i + 1]
  <2> DEFINE c == s \o t
  <2>1. c \in Seq(Outputs) /\ c # <<>> /\ Len(c) = Len(s) + Len(t)
    BY <1>1, <1>3
  <2> HIDE DEF c
  <2>2. /\ Tail(c) \in Seq(Outputs) /\ Len(Tail(c)) = Len(s) + Len(t) - 1
        /\ \A i \in 1 .. Len(s) + Len(t) - 1 : Tail(c)[i] = c[i + 1]
    BY <2>1, HeadTailProperties
  <2> QED
    BY <2>2 DEF c
<1>8. /\ Tail(s) \in Seq(Outputs) /\ Len(Tail(s)) = Len(s) - 1
      /\ \A i \in 1 .. Len(s) - 1 : Tail(s)[i] = s[i + 1]
  BY HeadTailProperties
<1>9. /\ Tail(s) \o t \in Seq(Outputs) /\ Len(Tail(s) \o t) = Len(s) - 1 + Len(t)
      /\ \A i \in 1 .. Len(s) - 1 + Len(t) :
            (Tail(s) \o t)[i] = IF i <= Len(s) - 1 THEN Tail(s)[i] ELSE t[i - (Len(s) - 1)]
  <2> DEFINE r == Tail(s)
  <2>1. r \in Seq(Outputs) /\ Len(r) = Len(s) - 1
    BY <1>8
  <2> HIDE DEF r
  <2>2. /\ r \o t \in Seq(Outputs) /\ Len(r \o t) = Len(r) + Len(t)
        /\ \A i \in 1 .. Len(r) + Len(t) :
              (r \o t)[i] = IF i <= Len(r) THEN r[i] ELSE t[i - Len(r)]
    BY <2>1, ConcatProperties
  <2> QED
    BY <2>1, <2>2 DEF r
<1>10. \A i \in 1 .. Len(s) + Len(t) - 1 : Tail(s \o t)[i] = (Tail(s) \o t)[i]
  <2> SUFFICES ASSUME NEW i \in 1 .. Len(s) + Len(t) - 1
               PROVE  Tail(s \o t)[i] = (Tail(s) \o t)[i]
    OBVIOUS
  <2> DEFINE c == s \o t
             d == Tail(s) \o t
             e == Tail(c)
             r == Tail(s)
  <2>1. /\ e[i] = c[i + 1]
        /\ c[i + 1] = IF i + 1 <= Len(s) THEN s[i + 1] ELSE t[i + 1 - Len(s)]
        /\ d[i] = IF i <= Len(s) - 1 THEN r[i] ELSE t[i - (Len(s) - 1)]
        /\ i <= Len(s) - 1 => r[i] = s[i + 1]
    <3>1. i + 1 \in 1 .. Len(s) + Len(t) /\ i \in 1 .. Len(s) - 1 + Len(t)
      BY <1>2
    <3>2. i <= Len(s) - 1 => i \in 1 .. Len(s) - 1
      BY <1>2
    <3>3. e[i] = c[i + 1]
      BY <1>7
    <3>4. c[i + 1] = IF i + 1 <= Len(s) THEN s[i + 1] ELSE t[i + 1 - Len(s)]
      <4>1. \A k \in 1 .. Len(s) + Len(t) : c[k] = IF k <= Len(s) THEN s[k] ELSE t[k - Len(s)]
        BY <1>1
      <4> HIDE DEF c
      <4> QED
        BY <3>1, <4>1
    <3>5. d[i] = IF i <= Len(s) - 1 THEN r[i] ELSE t[i - (Len(s) - 1)]
      BY <1>9, <3>1, Zenon
    <3>6. i <= Len(s) - 1 => r[i] = s[i + 1]
      BY <1>8, <3>2, Zenon
    <3> QED
      BY <3>3, <3>4, <3>5, <3>6
  <2> HIDE DEF c, d, e, r
  <2>2. i + 1 <= Len(s) <=> i <= Len(s) - 1
    BY <1>2
  <2>3. i + 1 - Len(s) = i - (Len(s) - 1)
    BY <1>2
  <2>4. e[i] = d[i]
    BY <2>1, <2>2, <2>3
  <2> QED
    BY <2>4 DEF c, d, e
<1> QED
  <2> DEFINE e == Tail(s \o t)
             d == Tail(s) \o t
  <2>1. /\ e \in Seq(Outputs) /\ d \in Seq(Outputs) /\ Len(e) = Len(d)
        /\ Len(e) = Len(s) + Len(t) - 1
        /\ \A i \in 1 .. Len(s) + Len(t) - 1 : e[i] = d[i]
    <3>1. Len(s) - 1 + Len(t) = Len(s) + Len(t) - 1
      BY <1>2
    <3> QED
      BY <1>7, <1>9, <1>10, <3>1, Zenon
  <2> HIDE DEF e, d
  <2>2. e = d
    BY <2>1, SeqEqual
  <2> QED
    BY <1>3, <1>6, <2>2 DEF e, d

(* The codec may give out a packet before it takes the frame: either way   *)
(* the queue has the frame behind all the others                           *)
(* (QueuePacketsUntilInputAccepted).                                       *)
LEMMA InputKeepsOrder ==
  ASSUME QueueInv, NEW added \in Seq(Entries), NEW ok \in BOOLEAN,
         QueuePacketsUntilInputAccepted(added, ok)
  PROVE  /\ encoding' \in Seq(Entries) /\ pending' \in Seq(Outputs)
         /\ Queue' = IF ok THEN Queue \o Packets(added) ELSE Queue
<1>1. PICK n \in 0 .. (IF Len(encoding) < Capacity THEN 0 ELSE 1) :
         Receive(n, IF ok THEN added ELSE <<>>)
  BY DEF QueuePacketsUntilInputAccepted
<1>2. n \in Nat
  OBVIOUS
<1>3. CASE ok
  <2>1. Receive(n, added)
    BY <1>1, <1>3
  <2> QED
    BY <1>2, <1>3, <2>1, ReceiveKeepsOrder
<1>4. CASE ~ok
  <2>1. Receive(n, <<>>)
    BY <1>1, <1>4
  <2>2. encoding' \in Seq(Entries) /\ pending' \in Seq(Outputs) /\ Queue' = Queue \o Packets(<<>>)
    BY <1>2, <2>1, PacketsOfNone, ReceiveKeepsOrder
  <2>3. Queue \o Packets(<<>>) = Queue
    BY PacketsOfNone, QueueType, ConcatEmptySeq
  <2> QED
    BY <1>4, <2>2, <2>3
<1> QED
  BY <1>3, <1>4

(* Moving packets without adding a frame changes nothing of the queue.     *)
LEMMA ReceiveKeepsQueue ==
  ASSUME QueueInv, NEW n \in Nat, Receive(n, <<>>)
  PROVE  encoding' \in Seq(Entries) /\ pending' \in Seq(Outputs) /\ Queue' = Queue
<1>1. encoding' \in Seq(Entries) /\ pending' \in Seq(Outputs) /\ Queue' = Queue \o Packets(<<>>)
  BY PacketsOfNone, ReceiveKeepsOrder
<1>2. Queue \o Packets(<<>>) = Queue
  BY PacketsOfNone, QueueType, ConcatEmptySeq
<1> QED
  BY <1>1, <1>2

(* The frame sent to the codec, and the packet made of it: a key frame at   *)
(* least where one was asked for (Entry).                                   *)
LEMMA EntryType ==
  ASSUME QueueInv, NEW s \in Nat
  PROVE  /\ Entry(s) \in Entries
         /\ \E key \in BOOLEAN :
              /\ force => key
              /\ Packet(Entry(s)) = [frame |-> frames + 1, picture |-> s, key |-> key]
<1> DEFINE key == force \/ codec = "open"
<1>1. Entry(s) = [frame |-> frames + 1, surface |-> s, key |-> key]
  BY DEF Entry
<1>2. key \in BOOLEAN /\ (force => key)
  OBVIOUS
<1>3. frames + 1 \in Nat
  BY DEF QueueInv
<1> HIDE DEF key
<1>4. Entry(s) \in Entries
  BY <1>1, <1>2, <1>3 DEF Entries
<1>5. Packet(Entry(s)) = [frame |-> frames + 1, picture |-> s, key |-> key]
  BY <1>1 DEF Packet
<1> QED
  BY <1>2, <1>4, <1>5

(* A frame behind the others that answers the request for a key frame is   *)
(* a frame the contract accepts.                                           *)
LEMMA ContractAccepts ==
  ASSUME QueueInv, ~broken, NEW s \in {frames + 1, latest} \ {0},
         Queue' = Queue \o Packets(<<Entry(s)>>), latest' = s, frames' = frames + 1,
         force' = FALSE, UNCHANGED <<out, broken>>
  PROVE  Contract!Next
<1>1. s \in Nat
  BY DEF QueueInv
<1>2. PICK key \in BOOLEAN :
         /\ force => key
         /\ Packet(Entry(s)) = [frame |-> frames + 1, picture |-> s, key |-> key]
  BY <1>1, EntryType
<1> DEFINE packet == [frame |-> frames + 1, picture |-> s, key |-> key]
<1>3. Packets(<<Entry(s)>>) = <<packet>> /\ packet \in Outputs
  BY <1>1, <1>2, EntryType, PacketsOfOne
<1> HIDE DEF packet
<1>4. Queue' = Append(Queue, packet)
  BY <1>3, QueueType, AppendIsConcat
<1>5. /\ force => key
      /\ (pending \o Packets(encoding))'
            = Append(pending \o Packets(encoding),
                     [frame |-> frames + 1, picture |-> s, key |-> key])
      /\ latest' = s
  BY <1>2, <1>4 DEF Queue, packet
<1>6. Contract!Accept
  BY <1>5 DEF Contract!Accept
<1> QED
  BY <1>6 DEF Contract!Next

(* What changes nothing the contract speaks of is no step of it.           *)
LEMMA ContractStutters ==
  ASSUME UNCHANGED <<Queue, force, latest, frames, out, broken>>
  PROVE  UNCHANGED Contract!vars
BY DEF Contract!vars, Queue

(* The request for a key frame is given up.                                *)
LEMMA ContractGivesUp ==
  ASSUME UNCHANGED <<Queue, latest, frames, out, broken>>, force' = FALSE
  PROVE  Contract!Next
BY DEF Contract!Next, Contract!GiveUp, Queue

(* A failure is reported: it may take the request and one packet along.    *)
LEMMA ContractFails ==
  ASSUME UNCHANGED <<latest, frames, out>>, broken' = TRUE, force' \in {force, FALSE},
         Queue' \in {Queue, IF Queue = <<>> THEN Queue ELSE Tail(Queue)}
  PROVE  Contract!Next
BY DEF Contract!Next, Contract!Fail, Queue

(* The front of the queue is given out.                                    *)
LEMMA ContractGivesOut ==
  ASSUME ~broken, Queue # <<>>, out' = Head(Queue), Queue' = Tail(Queue),
         UNCHANGED <<force, latest, frames, broken>>
  PROVE  Contract!Next
BY DEF Contract!Next, Contract!Take, Queue

(* Each operation keeps the types and is a step of the contract or none.   *)
ContractStep == Contract!Next \/ UNCHANGED Contract!vars

(* A frame sent is accepted; one that is not gives the request up, or      *)
(* fails the session (Send in SubmitFrame and RepeatLastFrame).            *)
LEMMA SendStep ==
  ASSUME QueueInv, ~broken, NEW s \in {frames + 1, latest} \ {0}, NEW ok \in BOOLEAN,
         Send(s, ok), force' = FALSE, latest' = IF ok THEN s ELSE latest,
         UNCHANGED out, broken' = FALSE \/ broken' = ~ok
  PROVE  QueueInv' /\ ContractStep
<1>1. s \in Nat /\ frames + 1 \in Nat /\ broken = FALSE
  BY DEF QueueInv
<1>2. <<Entry(s)>> \in Seq(Entries)
  BY <1>1, EntryType, PacketsOfOne
<1>3. /\ encoding' \in Seq(Entries) /\ pending' \in Seq(Outputs)
      /\ Queue' = IF ok THEN Queue \o Packets(<<Entry(s)>>) ELSE Queue
  BY <1>2, InputKeepsOrder DEF Send
<1>4. frames' = IF ok THEN frames + 1 ELSE frames
  BY DEF Send
<1>5. QueueInv'
  BY <1>1, <1>3, <1>4 DEF QueueInv
<1>6. CASE ok
  <2>1. Queue' = Queue \o Packets(<<Entry(s)>>) /\ frames' = frames + 1 /\ latest' = s
    BY <1>3, <1>4, <1>6
  <2>2. UNCHANGED <<out, broken>>
    BY <1>1, <1>6
  <2> QED
    BY <1>5, <2>1, <2>2, ContractAccepts DEF ContractStep
<1>7. CASE ~ok
  <2>1. UNCHANGED <<Queue, latest, frames, out>>
    BY <1>3, <1>4, <1>7
  <2>2. CASE broken' = FALSE
    BY <1>1, <1>5, <2>1, <2>2, ContractGivesUp DEF ContractStep
  <2>3. CASE broken' = ~ok
    <3>1. broken' = TRUE /\ force' \in {force, FALSE}
      BY <1>7, <2>3
    <3> QED
      BY <1>5, <2>1, <3>1, ContractFails DEF ContractStep
  <2> QED
    BY <2>2, <2>3
<1> QED
  BY <1>6, <1>7

(* SubmitFrame of the VA-API encoder: what fails before the frame is made  *)
(* leaves the request for a key frame, what fails after gives it up.       *)
LEMMA SubmitStep ==
  ASSUME QueueInv, ~broken, NEW t, NEW b, NEW ok \in BOOLEAN, SubmitFrame(t, b, ok)
  PROVE  QueueInv' /\ ContractStep
<1>1. UNCHANGED <<out, broken>>
  BY DEF SubmitFrame
<1>2. CASE UNCHANGED <<encoding, pending, frames, latest, force>>
  <2>1. UNCHANGED Queue
    BY <1>2 DEF Queue
  <2> QED
    BY <1>1, <1>2, <2>1, ContractStutters DEF ContractStep, QueueInv
<1>3. CASE UNCHANGED <<encoding, pending, frames, latest>> /\ force' = FALSE
  <2>1. UNCHANGED Queue
    BY <1>3 DEF Queue
  <2>2. QueueInv'
    BY <1>1, <1>3 DEF QueueInv
  <2> QED
    BY <1>1, <1>3, <2>1, <2>2, ContractGivesUp DEF ContractStep
<1>4. CASE /\ Send(frames + 1, ok)
           /\ latest' = IF ok THEN frames + 1 ELSE latest
           /\ force' = FALSE
  <2>1. frames + 1 \in {frames + 1, latest} \ {0} /\ broken' = FALSE
    BY <1>1 DEF QueueInv
  <2> QED
    BY <1>1, <1>4, <2>1, SendStep
<1> QED
  BY <1>2, <1>3, <1>4 DEF SubmitFrame, codecVars, Retained, Consumed

(* RepeatLastFrame.                                                        *)
LEMMA RepeatStep ==
  ASSUME QueueInv, ~broken, NEW ok \in BOOLEAN, RepeatLastFrame(ok)
  PROVE  QueueInv' /\ ContractStep
<1>1. broken' = ~ok /\ UNCHANGED <<latest, out>>
  BY DEF RepeatLastFrame, MarkSessionForReset
<1>2. CASE ~ok /\ UNCHANGED <<encoding, pending, frames, force>>
  <2>1. UNCHANGED Queue /\ broken' = TRUE
    BY <1>1, <1>2 DEF Queue
  <2>2. QueueInv'
    BY <1>1, <1>2, <2>1 DEF QueueInv
  <2> QED
    BY <1>1, <1>2, <2>1, <2>2, ContractFails DEF ContractStep
<1>3. CASE latest # 0 /\ Send(latest, ok) /\ force' = FALSE
  BY <1>1, <1>3, SendStep
<1> QED
  BY <1>2, <1>3 DEF RepeatLastFrame, codecVars, Consumed

(* SetBitrate: the frames of the old codec stay in the queue, and the new  *)
(* codec's first frame is asked to be a key frame.                         *)
LEMMA BitrateStep ==
  ASSUME QueueInv, ~broken, NEW rate, NEW ok \in BOOLEAN, SetBitrate(rate, ok)
  PROVE  QueueInv' /\ ContractStep
<1>1. broken' = ~ok /\ UNCHANGED <<latest, out>> /\ broken = FALSE
  BY DEF SetBitrate, MarkSessionForReset, QueueInv
<1>2. /\ encoding' \in Seq(Entries) /\ pending' \in Seq(Outputs)
      /\ UNCHANGED <<Queue, frames>>
      /\ UNCHANGED force \/ (ok /\ force' = TRUE)
  <2>1. CASE UNCHANGED <<codecVars, force>>
    BY <2>1 DEF codecVars, Queue, QueueInv
  <2>2. CASE QueuePacketsUntilInputAccepted(<<>>, FALSE) /\ UNCHANGED <<frames, force>>
    BY <2>2, PacketsOfNone, InputKeepsOrder
  <2>3. CASE /\ \E n \in 0 .. Len(encoding) : Receive(n, <<>>)
             /\ UNCHANGED frames /\ (UNCHANGED force \/ (ok /\ force' = TRUE))
    BY <2>3, ReceiveKeepsQueue
  <2> QED
    BY <2>1, <2>2, <2>3 DEF SetBitrate
<1>3. QueueInv'
  BY <1>1, <1>2 DEF QueueInv
<1>4. CASE ok
  <2>1. UNCHANGED broken
    BY <1>1, <1>4
  <2>2. CASE UNCHANGED force
    BY <1>1, <1>2, <1>3, <2>1, <2>2, ContractStutters DEF ContractStep
  <2>3. CASE force' = TRUE
    BY <1>1, <1>2, <1>3, <2>1, <2>3 DEF ContractStep, Contract!Next, Contract!Ask, Queue
  <2> QED
    BY <1>2, <2>2, <2>3
<1>5. CASE ~ok
  <2>1. broken' = TRUE /\ UNCHANGED force
    BY <1>1, <1>2, <1>5
  <2> QED
    BY <1>1, <1>2, <1>3, <2>1, ContractFails DEF ContractStep
<1> QED
  BY <1>4, <1>5

(* RequestKeyFrame, and the parameters of a running MediaCodec.            *)
LEMMA KeyFrameStep ==
  ASSUME QueueInv, ~broken, NEW rate, NEW key \in BOOLEAN, NEW ok \in BOOLEAN,
         RequestKeyFrame(ok) \/ MediaParameters(rate, key, ok)
  PROVE  QueueInv' /\ ContractStep
<1>1. /\ UNCHANGED <<encoding, pending, latest, frames, out>>
      /\ broken' = ~ok /\ broken = FALSE
      /\ force' = (force \/ ok) \/ force' = (force \/ (key /\ ok))
  BY DEF RequestKeyFrame, MediaParameters, MarkSessionForReset, codecVars, QueueInv
<1>2. UNCHANGED Queue
  BY <1>1 DEF Queue
<1>3. force' \in {force, TRUE} /\ (~ok => force' = force)
  BY <1>1 DEF QueueInv
<1>4. QueueInv'
  BY <1>1, <1>3 DEF QueueInv
<1>5. CASE ok /\ force' = TRUE
  BY <1>1, <1>2, <1>4, <1>5 DEF ContractStep, Contract!Next, Contract!Ask, Queue
<1>6. CASE ok /\ force' = force
  BY <1>1, <1>2, <1>4, <1>6, ContractStutters DEF ContractStep
<1>7. CASE ~ok
  BY <1>1, <1>2, <1>3, <1>4, <1>7, ContractFails DEF ContractStep
<1> QED
  BY <1>3, <1>5, <1>6, <1>7

(* SignalEndOfInputStream.                                                 *)
LEMMA EndOfInputStep ==
  ASSUME QueueInv, NEW ok \in BOOLEAN, SignalEndOfInputStream(ok) \/ MediaEndOfInput(ok)
  PROVE  QueueInv' /\ ContractStep
<1>1. UNCHANGED <<latest, force, frames, out, broken>>
  BY DEF SignalEndOfInputStream, MediaEndOfInput
<1>2. encoding' \in Seq(Entries) /\ pending' \in Seq(Outputs) /\ UNCHANGED Queue
  <2>1. CASE UNCHANGED <<encoding, pending>>
    BY <2>1 DEF Queue, QueueInv
  <2>2. CASE QueuePacketsUntilInputAccepted(<<>>, ok)
    <3>1. Queue \o Packets(<<>>) = Queue
      BY PacketsOfNone, QueueType, ConcatEmptySeq
    <3>2. /\ encoding' \in Seq(Entries) /\ pending' \in Seq(Outputs)
          /\ Queue' = IF ok THEN Queue \o Packets(<<>>) ELSE Queue
      BY <2>2, PacketsOfNone, InputKeepsOrder
    <3> QED
      BY <3>1, <3>2, Zenon
  <2> QED
    BY <2>1, <2>2 DEF SignalEndOfInputStream, MediaEndOfInput
<1> QED
  BY <1>1, <1>2, ContractStutters DEF ContractStep, QueueInv

(* DequeueOutput of the VA-API encoder: what was set aside comes before    *)
(* what the codec still holds.                                             *)
LEMMA DequeueStep ==
  ASSUME QueueInv, ~broken, DequeueOutput
  PROVE  QueueInv' /\ ContractStep
<1>1. UNCHANGED <<latest, force, frames>>
  BY DEF DequeueOutput
<1>2. CASE UNCHANGED <<pending, encoding, out, broken>>
  <2>1. UNCHANGED Queue
    BY <1>2 DEF Queue
  <2> QED
    BY <1>1, <1>2, <2>1, ContractStutters DEF ContractStep, QueueInv
<1>3. CASE TakePending
  <2>1. /\ pending # <<>> /\ out' = Head(pending) /\ pending' = Tail(pending)
        /\ UNCHANGED <<encoding, broken>>
    BY <1>3 DEF TakePending
  <2>2. /\ pending \in Seq(Outputs) /\ Packets(encoding) \in Seq(Outputs)
    BY QueueType DEF QueueInv
  <2>3. /\ Queue # <<>> /\ Head(Queue) = Head(pending)
        /\ Tail(Queue) = Tail(pending) \o Packets(encoding)
    <3> DEFINE p == Packets(encoding)
    <3> HIDE DEF p
    <3>1. p \in Seq(Outputs)
      BY <2>2 DEF p
    <3>2. /\ pending \o p # <<>> /\ Head(pending \o p) = Head(pending)
          /\ Tail(pending \o p) = Tail(pending) \o p
      BY <2>1, <2>2, <3>1, FrontOfConcat
    <3> QED
      BY <3>2 DEF p, Queue
  <2>4. Queue' = Tail(Queue)
    BY <2>1, <2>3 DEF Queue
  <2>5. Tail(pending) \in Seq(Outputs)
    BY <2>1, <2>2, HeadTailProperties
  <2>6. QueueInv'
    BY <1>1, <2>1, <2>5 DEF QueueInv
  <2> QED
    BY <1>1, <2>1, <2>3, <2>4, <2>6, ContractGivesOut DEF ContractStep
<1>4. CASE TakeFromCodec
  <2>1. /\ pending = <<>> /\ encoding # <<>> /\ out' = Packet(Head(encoding))
        /\ encoding' = Tail(encoding) /\ UNCHANGED <<pending, broken>>
    BY <1>4 DEF TakeFromCodec
  <2>2. Queue = Packets(encoding) /\ encoding \in Seq(Entries)
    BY <2>1, QueueType, ConcatEmptySeq DEF Queue, QueueInv
  <2>3. /\ Tail(encoding) \in Seq(Entries) /\ Queue # <<>>
        /\ Head(Queue) = Packet(Head(encoding)) /\ Tail(Queue) = Packets(Tail(encoding))
    BY <2>1, <2>2, PacketsOfTail
  <2>4. Packets(Tail(encoding)) \in Seq(Outputs)
    BY <2>3, PacketsOfFrames
  <2>5. Queue' = Packets(Tail(encoding))
    BY <2>1, <2>4, ConcatEmptySeq DEF Queue
  <2>6. QueueInv'
    BY <1>1, <2>1, <2>3 DEF QueueInv
  <2> QED
    BY <1>1, <2>1, <2>3, <2>5, <2>6, ContractGivesOut DEF ContractStep
<1>5. CASE broken' = TRUE /\ UNCHANGED <<pending, encoding, out>>
  <2>1. UNCHANGED Queue
    BY <1>5 DEF Queue
  <2>2. QueueInv'
    BY <1>1, <1>5 DEF QueueInv
  <2> QED
    BY <1>1, <1>5, <2>1, <2>2, ContractFails DEF ContractStep
<1> QED
  BY <1>2, <1>3, <1>4, <1>5 DEF DequeueOutput

(* MediaCodec: what is presented is encoded, and encoded again.            *)
LEMMA MediaInputStep ==
  ASSUME QueueInv, ~broken, NEW t, NEW b, NEW ok \in BOOLEAN, MediaSubmit(t, b, ok) \/ MediaRepeats
  PROVE  QueueInv' /\ ContractStep
<1>1. UNCHANGED <<pending, out, broken>>
  BY DEF MediaSubmit, MediaRepeats
<1>2. CASE UNCHANGED <<encoding, frames, latest, force>>
  <2>1. UNCHANGED Queue
    BY <1>1, <1>2 DEF Queue
  <2> QED
    BY <1>1, <1>2, <2>1, ContractStutters DEF ContractStep, QueueInv
<1>3. ASSUME NEW s \in {frames + 1, latest} \ {0}, encoding' = encoding \o <<Entry(s)>>,
             frames' = frames + 1, latest' = s, force' = FALSE
      PROVE  QueueInv' /\ ContractStep
  <2>1. s \in Nat /\ frames + 1 \in Nat /\ encoding \in Seq(Entries) /\ pending \in Seq(Outputs)
    BY DEF QueueInv
  <2>2. Entry(s) \in Entries /\ <<Entry(s)>> \in Seq(Entries)
    BY <2>1, EntryType, PacketsOfOne
  <2>3. encoding' \in Seq(Entries)
    BY <1>3, <2>1, <2>2, ConcatProperties
  <2>4. QueueInv'
    BY <1>1, <1>3, <2>1, <2>3 DEF QueueInv
  <2>5. Packets(encoding') = Packets(encoding) \o Packets(<<Entry(s)>>)
    BY <1>3, <2>1, <2>2, PacketsOfConcat
  <2>6. Queue' = Queue \o Packets(<<Entry(s)>>)
    <3> DEFINE p == Packets(encoding)
               q == Packets(<<Entry(s)>>)
    <3>1. p \in Seq(Outputs) /\ q \in Seq(Outputs)
      BY <2>1, <2>2, PacketsOfFrames
    <3>2. Queue' = pending \o (p \o q) /\ Queue = pending \o p
      BY <1>1, <2>5 DEF Queue
    <3> HIDE DEF p, q
    <3>3. Queue' = Queue \o q
      BY <2>1, <3>1, <3>2, OutputsAssociate
    <3> QED
      BY <3>3 DEF q
  <2> QED
    BY <1>1, <1>3, <2>4, <2>6, ContractAccepts DEF ContractStep
<1>4. CASE MediaRepeats
  <2>1. /\ encoding = <<>> /\ encoding' = <<Entry(latest)>> /\ latest # 0
        /\ frames' = frames + 1 /\ latest' = latest /\ force' = FALSE
    BY <1>4 DEF MediaRepeats
  <2>2. <<Entry(latest)>> \in Seq(Entries)
    BY EntryType, PacketsOfOne DEF QueueInv
  <2>3. encoding' = encoding \o <<Entry(latest)>>
    BY <2>1, <2>2, ConcatEmptySeq
  <2> QED
    BY <1>3, <2>1, <2>3
<1>5. CASE /\ encoding' = Append(encoding, Entry(frames + 1)) /\ frames' = frames + 1
           /\ latest' = frames + 1 /\ force' = FALSE
  <2>1. frames + 1 \in Nat \ {0} /\ encoding \in Seq(Entries)
    BY DEF QueueInv
  <2>2. Entry(frames + 1) \in Entries
    BY <2>1, EntryType
  <2>3. encoding' = encoding \o <<Entry(frames + 1)>>
    BY <1>5, <2>1, <2>2, AppendIsConcat
  <2> QED
    BY <1>3, <1>5, <2>1, <2>3
<1> QED
  BY <1>2, <1>4, <1>5 DEF MediaSubmit

(* MediaCodec's output, where nothing is set aside; an output that cannot  *)
(* be released is lost with the session.                                   *)
LEMMA MediaDequeueStep ==
  ASSUME QueueInv, ~broken, pending = <<>>, MediaDequeue
  PROVE  QueueInv' /\ ContractStep
<1>1. UNCHANGED <<latest, force, frames, pending>>
  BY DEF MediaDequeue
<1>2. CASE UNCHANGED <<encoding, out>> /\ (UNCHANGED broken \/ broken' = TRUE)
  <2>1. UNCHANGED Queue
    BY <1>1, <1>2 DEF Queue
  <2>2. QueueInv'
    BY <1>1, <1>2 DEF QueueInv
  <2> QED
    BY <1>1, <1>2, <2>1, <2>2, ContractStutters, ContractFails DEF ContractStep
<1>3. CASE /\ encoding # <<>> /\ encoding' = Tail(encoding)
           /\ \/ out' = Packet(Head(encoding)) /\ UNCHANGED broken
              \/ broken' = TRUE /\ UNCHANGED out
  <2>1. Queue = Packets(encoding) /\ encoding \in Seq(Entries)
    BY QueueType, ConcatEmptySeq DEF Queue, QueueInv
  <2>2. /\ Tail(encoding) \in Seq(Entries) /\ Queue # <<>>
        /\ Head(Queue) = Packet(Head(encoding)) /\ Tail(Queue) = Packets(Tail(encoding))
    BY <1>3, <2>1, PacketsOfTail
  <2>3. Packets(Tail(encoding)) \in Seq(Outputs)
    BY <2>2, PacketsOfFrames
  <2>4. Queue' = Tail(Queue)
    BY <1>1, <1>3, <2>2, <2>3, ConcatEmptySeq DEF Queue
  <2>5. QueueInv'
    BY <1>1, <1>3, <2>2 DEF QueueInv
  <2> QED
    BY <1>1, <1>3, <2>2, <2>4, <2>5, ContractGivesOut, ContractFails DEF ContractStep
<1> QED
  BY <1>2, <1>3 DEF MediaDequeue

(* What goes on in creation, destruction and registration is none of the   *)
(* stream's business.                                                      *)
LEMMA LifeKeepsStream ==
  ASSUME \/ Create \/ TakeResource \/ CreationFails \/ CreationSucceeds \/ GiveBack \/ Destroyed
         \/ RegisterABuffer \/ UnregisterABuffer \/ SubmitWaits \/ WaitingSubmitFails
         \/ GpuWorks \/ UNCHANGED vars
  PROVE  UNCHANGED <<encoding, pending, frames, latest, force, out, broken>>
<1>1. CASE Create \/ TakeResource \/ CreationFails \/ CreationSucceeds \/ Destroyed
  BY <1>1 DEF Create, TakeResource, CreationFails, CreationSucceeds, Destroyed, encoderVars,
              streamVars, codecVars
<1>2. ASSUME NEW t, NEW b, NEW ok,
             \/ RegisterBuffer(t, b, ok) \/ UnregisterBuffer(t, b)
             \/ MediaRegister(t, b, ok) \/ MediaUnregister(t, b)
      PROVE  UNCHANGED <<encoding, pending, frames, latest, force, out, broken>>
  BY <1>2 DEF RegisterBuffer, UnregisterBuffer, MediaRegister, MediaUnregister, codecVars,
              encoderVars
<1>3. CASE GiveBack
  <2>1. UNCHANGED encoderVars \/ \E t \in Threads, b \in buffers : UnregisterBuffer(t, b)
    BY <1>3 DEF GiveBack
  <2> QED
    BY <1>2, <2>1 DEF encoderVars, codecVars
<1>4. CASE RegisterABuffer \/ UnregisterABuffer
  BY <1>2, <1>4 DEF RegisterABuffer, UnregisterABuffer
<1>5. CASE SubmitWaits \/ WaitingSubmitFails \/ GpuWorks \/ UNCHANGED vars
  BY <1>5 DEF SubmitWaits, WaitingSubmitFails, GpuWorks, vars, encoderVars, codecVars
<1> QED
  BY <1>1, <1>3, <1>4, <1>5

(* An operation of the session in service.                                 *)
LEMMA ServiceStep ==
  ASSUME QueueInv, OnlyVaapiSetsAside,
         \/ SubmitAFrame \/ RepeatAFrame \/ ChangeBitrate \/ AskForKeyFrame
         \/ EndInput \/ DrainOutput
  PROVE  QueueInv' /\ OnlyVaapiSetsAside' /\ ContractStep
<1>1. phase = "open" /\ ~broken /\ UNCHANGED <<phase, kind>>
  BY DEF SubmitAFrame, RepeatAFrame, ChangeBitrate, AskForKeyFrame, EndInput, DrainOutput,
         InService, Usable, lifeVars
<1>2. CASE kind = "vaapi"
  <2>1. OnlyVaapiSetsAside'
    BY <1>1, <1>2 DEF OnlyVaapiSetsAside
  <2>2. \/ \E t, b : \E ok \in BOOLEAN : SubmitFrame(t, b, ok)
        \/ \E ok \in BOOLEAN : \/ RepeatLastFrame(ok) \/ RequestKeyFrame(ok)
                               \/ SignalEndOfInputStream(ok)
                               \/ \E rate : SetBitrate(rate, ok)
        \/ DequeueOutput
    BY <1>2 DEF SubmitAFrame, RepeatAFrame, ChangeBitrate, AskForKeyFrame, EndInput, DrainOutput
  <2>3. ASSUME NEW ok \in BOOLEAN, RequestKeyFrame(ok) PROVE QueueInv' /\ ContractStep
    BY <1>1, <2>3, KeyFrameStep
  <2> QED
    BY <1>1, <2>1, <2>2, <2>3, SubmitStep, RepeatStep, BitrateStep, EndOfInputStep, DequeueStep
<1>3. CASE kind # "vaapi"
  <2>1. pending = <<>>
    BY <1>3 DEF OnlyVaapiSetsAside
  <2>2. \/ \E t, b : \E ok \in BOOLEAN : MediaSubmit(t, b, ok)
        \/ MediaRepeats
        \/ \E ok \in BOOLEAN, key \in BOOLEAN : \E rate : MediaParameters(rate, key, ok)
        \/ \E ok \in BOOLEAN : MediaEndOfInput(ok)
        \/ MediaDequeue
    BY <1>3 DEF SubmitAFrame, RepeatAFrame, ChangeBitrate, AskForKeyFrame, EndInput, DrainOutput
  <2>3. UNCHANGED pending
    BY <2>2 DEF MediaSubmit, MediaRepeats, MediaParameters, MediaEndOfInput, MediaDequeue
  <2>4. OnlyVaapiSetsAside'
    BY <2>1, <2>3 DEF OnlyVaapiSetsAside
  <2>5. CASE \/ \E t, b : \E ok \in BOOLEAN : MediaSubmit(t, b, ok)
             \/ MediaRepeats
    <3>1. CASE MediaRepeats
      BY <1>1, <2>4, <3>1, MediaInputStep
    <3>2. CASE \E t, b : \E ok \in BOOLEAN : MediaSubmit(t, b, ok)
      BY <1>1, <2>4, <3>2, MediaInputStep
    <3> QED
      BY <2>5, <3>1, <3>2
  <2>6. CASE \E ok \in BOOLEAN, key \in BOOLEAN : \E rate : MediaParameters(rate, key, ok)
    BY <1>1, <2>4, <2>6, KeyFrameStep
  <2>7. CASE \E ok \in BOOLEAN : MediaEndOfInput(ok)
    BY <2>4, <2>7, EndOfInputStep
  <2>8. CASE MediaDequeue
    BY <1>1, <2>1, <2>4, <2>8, MediaDequeueStep
  <2> QED
    BY <2>2, <2>5, <2>6, <2>7, <2>8
<1> QED
  BY <1>2, <1>3

(* session_.reset() is a replacement, whatever the session still held.      *)
LEMMA CloseStep ==
  ASSUME QueueInv, Close
  PROVE  QueueInv' /\ OnlyVaapiSetsAside' /\ ContractStep
<1>1. /\ encoding' = <<>> /\ pending' = <<>> /\ latest' = 0
      /\ force' = FALSE /\ broken' = FALSE /\ UNCHANGED <<frames, out>>
  BY DEF Close
<1>2. QueueInv' /\ OnlyVaapiSetsAside'
  BY <1>1, EmptySeq DEF QueueInv, OnlyVaapiSetsAside
<1>3. (pending \o Packets(encoding))' = <<>>
  BY <1>1, PacketsOfNone, ConcatEmptySeq, EmptySeq
<1>4. Contract!Replace
  BY <1>1, <1>3 DEF Contract!Replace
<1> QED
  BY <1>2, <1>4 DEF ContractStep, Contract!Next

(* The session implements the contract, whichever backend it runs and      *)
(* however often its codec is drained, freed and opened again: every frame *)
(* accepted comes out once, in order and with its picture, and a request   *)
(* for a key frame is answered by the next frame accepted or given up with *)
(* one that was not (EncoderSession.h).                                    *)
THEOREM EncoderKeepsContract == Spec => KeepsContract
<1> DEFINE Inv == QueueInv /\ OnlyVaapiSetsAside
<1>1. Init => Inv /\ Contract!Init
  <2> SUFFICES ASSUME Init PROVE Inv /\ Contract!Init
    OBVIOUS
  <2>1. /\ encoding = <<>> /\ pending = <<>> /\ frames = 0 /\ latest = 0
        /\ force = FALSE /\ broken = FALSE /\ out = NoPacket
    BY DEF Init
  <2>2. Inv
    BY <2>1, EmptySeq DEF QueueInv, OnlyVaapiSetsAside
  <2>3. pending \o Packets(encoding) = <<>>
    BY <2>1, PacketsOfNone, ConcatEmptySeq, EmptySeq
  <2>4. Contract!Init
    BY <2>1, <2>3 DEF Contract!Init, NoPacket
  <2> QED
    BY <2>2, <2>4
<1>2. Inv /\ [Next]_vars => Inv' /\ [Contract!Next]_(Contract!vars)
  <2> SUFFICES ASSUME Inv, [Next]_vars PROVE Inv' /\ ContractStep
    BY DEF ContractStep
  <2>1. CASE Close
    BY <2>1, CloseStep
  <2>2. CASE \/ SubmitAFrame \/ RepeatAFrame \/ ChangeBitrate \/ AskForKeyFrame
             \/ EndInput \/ DrainOutput
    BY <2>2, ServiceStep
  <2>3. CASE \/ Create \/ TakeResource \/ CreationFails \/ CreationSucceeds \/ GiveBack \/ Destroyed
             \/ RegisterABuffer \/ UnregisterABuffer \/ SubmitWaits \/ WaitingSubmitFails
             \/ GpuWorks \/ UNCHANGED vars
    <3>1. UNCHANGED <<encoding, pending, frames, latest, force, out, broken>>
      BY <2>3, LifeKeepsStream
    <3>2. UNCHANGED <<phase, kind>> \/ phase # "open"
      BY <2>3 DEF Create, TakeResource, CreationFails, CreationSucceeds, GiveBack, Destroyed,
                  RegisterABuffer, UnregisterABuffer, SubmitWaits, WaitingSubmitFails, GpuWorks,
                  vars, lifeVars
    <3>3. OnlyVaapiSetsAside'
      BY <3>1, <3>2 DEF OnlyVaapiSetsAside
    <3>4. QueueInv' /\ UNCHANGED Queue
      BY <3>1 DEF QueueInv, Queue
    <3> QED
      BY <3>1, <3>3, <3>4, ContractStutters DEF ContractStep
  <2> QED
    BY <2>1, <2>2, <2>3 DEF Next
<1> QED
  BY <1>1, <1>2, PTL DEF Spec, KeepsContract, Contract!Spec

-----------------------------------------------------------------------------
(* The resources of a session                                              *)

(* While a backend is built, what is held is what its plan took so far,    *)
(* less what a later step of it has freed.                                 *)
Building ==
  /\ step \in 0 .. Len(Plan)
  /\ \A r \in held : \E n \in 1 .. step :
       r = Plan[n] /\ \A m \in n .. step : r \notin FreedBy(Plan[m])
  /\ \A n \in 1 .. step : Plan[n] \in held \cup Transient

(* While it is destroyed, what is held is still to be given back; what the *)
(* copier and the encoder import goes before what it depends on.           *)
Dismantling ==
  /\ step \in Nat \ {0}
  /\ \A r \in held : \E n \in step .. Len(Release) :
       r \in Released(Release[n]) /\ Release[n] # "gl"
  /\ held \cap Transient = {}
  /\ \A n \in 1 .. Len(Release) : n < step /\ Release[n] = "buffers" => buffers = {}
  /\ \A n \in 1 .. Len(Release) : n < step /\ Release[n] = "gl" => imported = {}

(* A reference of the copier that outlives its entry, and a context left   *)
(* bound, come of a failure.                                               *)
CopierInv ==
  /\ copierRefs \subseteq imported \/ faults > 0
  /\ current # NoThread => faults > 0
  /\ faults \in Nat

ResourceInv ==
  /\ CopierInv
  /\ surfaces \subseteq buffers
  /\ buffers # {} => kind = "vaapi" /\ phase \in {"open", "closing"}
  /\ imported # {} => CopierBuilt /\ phase \in {"open", "closing"}
  /\ phase = "idle" => held = {}
  /\ phase \in {"creating", "open"} => Building
  /\ phase = "open" => step = Len(Plan)
  /\ phase = "closing" => Dismantling
  /\ OwnersOutlive

(* The plans and the destructors' order, position by position.             *)
LEMMA MediaCodecPlanIs ==
  /\ Len(MediaCodecPlan) = 11
  /\ MediaCodecPlan[1] = "codec" /\ MediaCodecPlan[2] = "format"
  /\ MediaCodecPlan[3] = "input_surface" /\ MediaCodecPlan[4] = "started"
  /\ MediaCodecPlan[5] = "target_ref" /\ MediaCodecPlan[6] = "display"
  /\ MediaCodecPlan[7] = "context" /\ MediaCodecPlan[8] = "egl_surface"
  /\ MediaCodecPlan[9] = "vertex_shader" /\ MediaCodecPlan[10] = "fragment_shader"
  /\ MediaCodecPlan[11] = "program"
BY DEF MediaCodecPlan, CopierPlan

(* ... of the VA-API encoder that rotates by itself, ...                   *)
LEMMA DirectPlanIs ==
  ~gles =>
    /\ Len(VaapiPlan) = 7
    /\ VaapiPlan[1] = "device" /\ VaapiPlan[2] = "frames" /\ VaapiPlan[3] = "vpp_config"
    /\ VaapiPlan[4] = "vpp_context" /\ VaapiPlan[5] = "candidate" /\ VaapiPlan[6] = "codec"
    /\ VaapiPlan[7] = "packet"
BY DEF VaapiPlan

(* ... of the one whose source a copier rotates, ...                       *)
LEMMA GlesPlanIs ==
  gles =>
    /\ Len(VaapiPlan) = 19
    /\ VaapiPlan[1] = "device" /\ VaapiPlan[2] = "frames" /\ VaapiPlan[3] = "vpp_config"
    /\ VaapiPlan[4] = "vpp_context" /\ VaapiPlan[5] = "rotation_buffer"
    /\ VaapiPlan[6] = "target_ref" /\ VaapiPlan[7] = "display" /\ VaapiPlan[8] = "context"
    /\ VaapiPlan[9] = "egl_surface" /\ VaapiPlan[10] = "image" /\ VaapiPlan[11] = "renderbuffer"
    /\ VaapiPlan[12] = "framebuffer" /\ VaapiPlan[13] = "vertex_shader"
    /\ VaapiPlan[14] = "fragment_shader" /\ VaapiPlan[15] = "program"
    /\ VaapiPlan[16] = "rotation_surface" /\ VaapiPlan[17] = "candidate"
    /\ VaapiPlan[18] = "codec" /\ VaapiPlan[19] = "packet"
BY DEF VaapiPlan, CopierPlan

(* ... and of what is given back.                                          *)
LEMMA MediaCodecReleaseIs ==
  kind # "vaapi" =>
    /\ Len(Release) = 8
    /\ Release[1] = "gl" /\ Release[2] = "egl_surface" /\ Release[3] = "context"
    /\ Release[4] = "display" /\ Release[5] = "target_ref" /\ Release[6] = "started"
    /\ Release[7] = "input_surface" /\ Release[8] = "codec"
BY DEF Release, MediaCodecRelease, CopierRelease

(* The same of the VA-API encoder.                                         *)
LEMMA VaapiReleaseIs ==
  kind = "vaapi" =>
    /\ Len(Release) = 14
    /\ Release[1] = "codec" /\ Release[2] = "packet" /\ Release[3] = "frames"
    /\ Release[4] = "buffers" /\ Release[5] = "gl" /\ Release[6] = "egl_surface"
    /\ Release[7] = "context" /\ Release[8] = "display" /\ Release[9] = "target_ref"
    /\ Release[10] = "rotation_surface" /\ Release[11] = "rotation_buffer"
    /\ Release[12] = "vpp_context" /\ Release[13] = "vpp_config" /\ Release[14] = "device"
BY DEF Release, VaapiRelease, CopierRelease

(* The same, read from a position to what is there.                        *)
LEMMA MediaCodecPlanAt ==
  ASSUME NEW n \in 1 .. Len(MediaCodecPlan)
  PROVE  \/ n = 1 /\ MediaCodecPlan[n] = "codec"
         \/ n = 2 /\ MediaCodecPlan[n] = "format"
         \/ n = 3 /\ MediaCodecPlan[n] = "input_surface"
         \/ n = 4 /\ MediaCodecPlan[n] = "started"
         \/ n = 5 /\ MediaCodecPlan[n] = "target_ref"
         \/ n = 6 /\ MediaCodecPlan[n] = "display"
         \/ n = 7 /\ MediaCodecPlan[n] = "context"
         \/ n = 8 /\ MediaCodecPlan[n] = "egl_surface"
         \/ n = 9 /\ MediaCodecPlan[n] = "vertex_shader"
         \/ n = 10 /\ MediaCodecPlan[n] = "fragment_shader"
         \/ n = 11 /\ MediaCodecPlan[n] = "program"
<1>1. Len(MediaCodecPlan) = 11
  BY MediaCodecPlanIs
<1>2. n \in { 1, 2, 3, 4, 5, 6, 7, 8, 9, 10, 11 }
  BY <1>1
<1> QED
  BY <1>2, MediaCodecPlanIs

(* ... in the plan of the encoder that rotates by itself, ...              *)
LEMMA DirectPlanAt ==
  ASSUME ~gles, NEW n \in 1 .. Len(VaapiPlan)
  PROVE  \/ n = 1 /\ VaapiPlan[n] = "device"
         \/ n = 2 /\ VaapiPlan[n] = "frames"
         \/ n = 3 /\ VaapiPlan[n] = "vpp_config"
         \/ n = 4 /\ VaapiPlan[n] = "vpp_context"
         \/ n = 5 /\ VaapiPlan[n] = "candidate"
         \/ n = 6 /\ VaapiPlan[n] = "codec"
         \/ n = 7 /\ VaapiPlan[n] = "packet"
<1>1. Len(VaapiPlan) = 7
  BY DirectPlanIs
<1>2. n \in { 1, 2, 3, 4, 5, 6, 7 }
  BY <1>1
<1> QED
  BY <1>2, DirectPlanIs

(* ... in that of the one that rotates through a copier, ...               *)
LEMMA GlesPlanAt ==
  ASSUME gles, NEW n \in 1 .. Len(VaapiPlan)
  PROVE  \/ n = 1 /\ VaapiPlan[n] = "device"
         \/ n = 2 /\ VaapiPlan[n] = "frames"
         \/ n = 3 /\ VaapiPlan[n] = "vpp_config"
         \/ n = 4 /\ VaapiPlan[n] = "vpp_context"
         \/ n = 5 /\ VaapiPlan[n] = "rotation_buffer"
         \/ n = 6 /\ VaapiPlan[n] = "target_ref"
         \/ n = 7 /\ VaapiPlan[n] = "display"
         \/ n = 8 /\ VaapiPlan[n] = "context"
         \/ n = 9 /\ VaapiPlan[n] = "egl_surface"
         \/ n = 10 /\ VaapiPlan[n] = "image"
         \/ n = 11 /\ VaapiPlan[n] = "renderbuffer"
         \/ n = 12 /\ VaapiPlan[n] = "framebuffer"
         \/ n = 13 /\ VaapiPlan[n] = "vertex_shader"
         \/ n = 14 /\ VaapiPlan[n] = "fragment_shader"
         \/ n = 15 /\ VaapiPlan[n] = "program"
         \/ n = 16 /\ VaapiPlan[n] = "rotation_surface"
         \/ n = 17 /\ VaapiPlan[n] = "candidate"
         \/ n = 18 /\ VaapiPlan[n] = "codec"
         \/ n = 19 /\ VaapiPlan[n] = "packet"
<1>1. Len(VaapiPlan) = 19
  BY GlesPlanIs
<1>2. n \in { 1, 2, 3, 4, 5, 6, 7, 8, 9, 10, 11, 12, 13, 14, 15, 16, 17, 18, 19 }
  BY <1>1
<1> QED
  BY <1>2, GlesPlanIs

(* ... and in the destructors' orders.                                     *)
LEMMA MediaCodecReleaseAt ==
  ASSUME kind # "vaapi", NEW n \in 1 .. Len(Release)
  PROVE  \/ n = 1 /\ Release[n] = "gl"
         \/ n = 2 /\ Release[n] = "egl_surface"
         \/ n = 3 /\ Release[n] = "context"
         \/ n = 4 /\ Release[n] = "display"
         \/ n = 5 /\ Release[n] = "target_ref"
         \/ n = 6 /\ Release[n] = "started"
         \/ n = 7 /\ Release[n] = "input_surface"
         \/ n = 8 /\ Release[n] = "codec"
<1>1. Len(Release) = 8
  BY MediaCodecReleaseIs
<1>2. n \in { 1, 2, 3, 4, 5, 6, 7, 8 }
  BY <1>1
<1> QED
  BY <1>2, MediaCodecReleaseIs

(* The same for the VA-API encoder.                                        *)
LEMMA VaapiReleaseAt ==
  ASSUME kind = "vaapi", NEW n \in 1 .. Len(Release)
  PROVE  \/ n = 1 /\ Release[n] = "codec"
         \/ n = 2 /\ Release[n] = "packet"
         \/ n = 3 /\ Release[n] = "frames"
         \/ n = 4 /\ Release[n] = "buffers"
         \/ n = 5 /\ Release[n] = "gl"
         \/ n = 6 /\ Release[n] = "egl_surface"
         \/ n = 7 /\ Release[n] = "context"
         \/ n = 8 /\ Release[n] = "display"
         \/ n = 9 /\ Release[n] = "target_ref"
         \/ n = 10 /\ Release[n] = "rotation_surface"
         \/ n = 11 /\ Release[n] = "rotation_buffer"
         \/ n = 12 /\ Release[n] = "vpp_context"
         \/ n = 13 /\ Release[n] = "vpp_config"
         \/ n = 14 /\ Release[n] = "device"
<1>1. Len(Release) = 14
  BY VaapiReleaseIs
<1>2. n \in { 1, 2, 3, 4, 5, 6, 7, 8, 9, 10, 11, 12, 13, 14 }
  BY <1>1
<1> QED
  BY <1>2, VaapiReleaseIs

(* Whatever a resource depends on was taken before it, and is kept until   *)
(* the backend is complete (Initialize and Create).                        *)
LEMMA OwnersComeFirst ==
  ASSUME NEW n \in 1 .. Len(Plan), NEW o \in Owners(Plan[n])
  PROVE  o \notin Transient /\ \E m \in 1 .. n - 1 : Plan[m] = o
<1> USE DEF Owners, Transient, Shaders
<1>1. CASE kind # "vaapi"
  <2>1. Plan = MediaCodecPlan
    BY <1>1 DEF Plan
  <2> QED
    BY <1>1, <2>1, MediaCodecPlanIs
<1>2. CASE kind = "vaapi"
  <2>1. Plan = VaapiPlan
    BY <1>2 DEF Plan
  <2>2. \/ o = "device" /\ Plan[n] \in {"vpp_config", "rotation_surface", "vpp_context"}
        \/ o = "vpp_config" /\ Plan[n] = "vpp_context"
        \/ o = "display" /\ Plan[n] \in {"egl_surface", "context", "image"}
        \/ o = "context" /\ Plan[n] \in {"renderbuffer", "framebuffer", "program"} \cup Shaders
    BY <1>2
  <2>3. o \notin Transient
    BY <2>2
  <2>4. Plan[1] = "device" /\ Plan[2] = "frames" /\ Plan[3] = "vpp_config"
    BY <2>1, DirectPlanIs, GlesPlanIs
  <2>5. CASE o = "device" \/ o = "vpp_config"
    <3>1. n # 1 /\ (o = "vpp_config" => n \notin {2, 3})
      BY <2>2, <2>4
    <3>2. CASE o = "device"
      BY <3>1, <3>2, <2>3, <2>4
    <3>3. CASE o = "vpp_config"
      BY <3>1, <3>3, <2>3, <2>4
    <3> QED
      BY <2>5, <3>2, <3>3
  <2>6. CASE o = "display" \/ o = "context"
    <3> HIDE DEF Owners, Transient
    <3>1. gles
      <4> SUFFICES ASSUME ~gles PROVE FALSE
        OBVIOUS
      <4> QED
        BY <2>1, <2>2, <2>6, DirectPlanAt DEF Shaders
    <3>2. Plan[4] = "vpp_context" /\ Plan[5] = "rotation_buffer" /\ Plan[6] = "target_ref"
          /\ Plan[7] = "display" /\ Plan[8] = "context"
      BY <2>1, <3>1, GlesPlanIs
    <3>3. n \notin 1 .. 7 /\ (o = "context" => n # 8)
      BY <2>2, <2>4, <2>6, <3>2 DEF Shaders
    <3>4. CASE o = "display"
      BY <3>2, <3>3, <3>4, <2>3
    <3>5. CASE o = "context"
      BY <3>2, <3>3, <3>5, <2>3
    <3> QED
      BY <2>6, <3>4, <3>5
  <2> QED
    BY <2>2, <2>5, <2>6
<1> QED
  BY <1>1, <1>2

(* Only what a function frees itself is freed while a backend is built, ...*)
LEMMA FreedIsTransient ==
  ASSUME NEW r
  PROVE  FreedBy(r) \subseteq Transient
BY DEF FreedBy, Transient, Shaders

(* ... and all of that is freed by the time it is complete.                *)
LEMMA TransientIsFreed ==
  ASSUME NEW n \in 1 .. Len(Plan), Plan[n] \in Transient
  PROVE  \E m \in n .. Len(Plan) : Plan[n] \in FreedBy(Plan[m])
<1> USE DEF FreedBy, Transient, Shaders
<1>1. CASE kind # "vaapi"
  <2>1. Plan = MediaCodecPlan
    BY <1>1 DEF Plan
  <2> QED
    BY <1>1, <2>1, MediaCodecPlanIs, MediaCodecPlanAt
<1>2. CASE kind = "vaapi" /\ ~gles
  <2>1. Plan = VaapiPlan
    BY <1>2 DEF Plan
  <2> QED
    BY <1>2, <2>1, DirectPlanIs, DirectPlanAt
<1>3. CASE kind = "vaapi" /\ gles
  <2>1. Plan = VaapiPlan
    BY <1>3 DEF Plan
  <2>2. n \in {13, 14, 17}
    BY <1>3, <2>1, GlesPlanIs, GlesPlanAt
  <2>3. Len(Plan) = 19 /\ Plan[15] = "program" /\ Plan[18] = "codec" /\ Plan[17] = "candidate"
        /\ Plan[13] = "vertex_shader" /\ Plan[14] = "fragment_shader"
    BY <1>3, <2>1, GlesPlanIs
  <2>4. CASE n \in {13, 14}
    <3>1. Plan[n] \in FreedBy(Plan[15])
      BY <2>3, <2>4
    <3> QED
      BY <2>3, <2>4, <3>1
  <2>5. CASE n = 17
    <3>1. Plan[n] \in FreedBy(Plan[18])
      BY <2>3, <2>5
    <3> QED
      BY <2>3, <2>5, <3>1
  <2> QED
    BY <2>2, <2>4, <2>5
<1> QED
  BY <1>1, <1>2, <1>3

(* Whatever a plan takes the destructors give back (~Impl of both codec    *)
(* files, ~MediaCodecEncoderBackend).                                      *)
LEMMA PlanIsReleased ==
  ASSUME NEW n \in 1 .. Len(Plan), Plan[n] \notin Transient
  PROVE  \E m \in 1 .. Len(Release) : Plan[n] \in Released(Release[m]) /\ Release[m] # "gl"
<1> USE DEF Released, Transient, Shaders
<1>1. CASE kind # "vaapi"
  <2>1. Plan = MediaCodecPlan
    BY <1>1 DEF Plan
  <2>2. Plan[n] \in {"codec", "input_surface", "started", "target_ref", "display", "context",
                     "egl_surface", "program"}
    BY <2>1, MediaCodecPlanAt
  <2>3. /\ "egl_surface" \in Released(Release[2]) /\ "context" \in Released(Release[3])
        /\ "program" \in Released(Release[3]) /\ "display" \in Released(Release[4])
        /\ "target_ref" \in Released(Release[5]) /\ "started" \in Released(Release[6])
        /\ "input_surface" \in Released(Release[7]) /\ "codec" \in Released(Release[8])
    BY <1>1, MediaCodecReleaseIs
  <2>4. /\ Len(Release) = 8
        /\ \A m \in {2, 3, 4, 5, 6, 7, 8} : m \in 1 .. 8 /\ Release[m] # "gl"
    BY <1>1, MediaCodecReleaseIs
  <2> HIDE DEF Released, Transient
  <2> QED
    BY <2>2, <2>3, <2>4
<1>2. CASE kind = "vaapi"
  <2>1. Plan = VaapiPlan
    BY <1>2 DEF Plan
  <2>2. Plan[n] \in {"device", "frames", "vpp_config", "vpp_context", "rotation_buffer",
                     "target_ref", "display", "context", "egl_surface", "image", "renderbuffer",
                     "framebuffer", "program", "rotation_surface", "codec", "packet"}
    <3>1. CASE gles
      BY <2>1, <3>1, GlesPlanIs, GlesPlanAt
    <3>2. CASE ~gles
      BY <2>1, <3>2, DirectPlanIs, DirectPlanAt
    <3> QED
      BY <3>1, <3>2
  <2>3. /\ "codec" \in Released(Release[1]) /\ "packet" \in Released(Release[2])
        /\ "frames" \in Released(Release[3]) /\ "egl_surface" \in Released(Release[6])
        /\ {"context", "renderbuffer", "framebuffer", "program"} \subseteq Released(Release[7])
        /\ {"display", "image"} \subseteq Released(Release[8])
        /\ "target_ref" \in Released(Release[9]) /\ "rotation_surface" \in Released(Release[10])
        /\ "rotation_buffer" \in Released(Release[11]) /\ "vpp_context" \in Released(Release[12])
        /\ "vpp_config" \in Released(Release[13]) /\ "device" \in Released(Release[14])
    BY <1>2, VaapiReleaseIs
  <2>4. /\ Len(Release) = 14
        /\ \A m \in {1, 2, 3, 6, 7, 8, 9, 10, 11, 12, 13, 14} : m \in 1 .. 14 /\ Release[m] # "gl"
    BY <1>2, VaapiReleaseIs
  <2> HIDE DEF Released, Transient
  <2> QED
    BY <2>2, <2>3, <2>4
<1> QED
  BY <1>1, <1>2

(* What a resource depends on is given back after it, or with it.          *)
LEMMA OwnersGoLast ==
  ASSUME NEW n \in 1 .. Len(Release), NEW m \in 1 .. Len(Release),
         NEW r \in Released(Release[n]), r \notin Transient,
         NEW o \in Owners(r), o \in Released(Release[m])
  PROVE  n <= m
<1> USE DEF Released, Transient, Shaders, Owners
<1>1. CASE kind # "vaapi"
  BY <1>1, MediaCodecReleaseIs, MediaCodecReleaseAt
<1>2. CASE kind = "vaapi"
  <2>1. \/ o = "device" /\ r \in {"vpp_config", "rotation_surface", "vpp_context"}
        \/ o = "vpp_config" /\ r = "vpp_context"
        \/ o = "display" /\ r \in {"egl_surface", "context", "image"}
        \/ o = "context" /\ r \in {"renderbuffer", "framebuffer", "program"}
    BY <1>2
  <2>2. CASE o = "device"
    <3>1. m = 14
      BY <1>2, <2>2, VaapiReleaseIs, VaapiReleaseAt
    <3> QED
      BY <1>2, <3>1, VaapiReleaseIs, VaapiReleaseAt
  <2>3. CASE o = "vpp_config"
    <3>1. m = 13
      BY <1>2, <2>3, VaapiReleaseIs, VaapiReleaseAt
    <3>2. n # 14
      BY <1>2, <2>1, <2>3, VaapiReleaseIs, VaapiReleaseAt
    <3> QED
      BY <1>2, <3>1, <3>2, VaapiReleaseIs, VaapiReleaseAt
  <2>4. CASE o = "display"
    <3>1. m = 8
      BY <1>2, <2>4, VaapiReleaseIs, VaapiReleaseAt
    <3> QED
      BY <1>2, <2>1, <2>4, <3>1, VaapiReleaseIs, VaapiReleaseAt
  <2>5. CASE o = "context"
    <3>1. m = 7
      BY <1>2, <2>5, VaapiReleaseIs, VaapiReleaseAt
    <3> QED
      BY <1>2, <2>1, <2>5, <3>1, VaapiReleaseIs, VaapiReleaseAt
  <2> QED
    BY <2>1, <2>2, <2>3, <2>4, <2>5
<1> QED
  BY <1>1, <1>2

(* The plans and the destructors' order are finite sequences.              *)
LEMMA PlanHasLength == Len(Plan) \in Nat /\ Len(Release) \in Nat
<1>1. Len(Plan) \in Nat
  BY MediaCodecPlanIs, DirectPlanIs, GlesPlanIs DEF Plan
<1>2. Len(Release) \in Nat
  BY MediaCodecReleaseIs, VaapiReleaseIs
<1> QED
  BY <1>1, <1>2

(* What is built holds its owners: OwnersOutlive while a backend is created.*)
LEMMA BuiltHasOwners ==
  ASSUME Building
  PROVE  \A r \in held : Owners(r) \subseteq held
<1> SUFFICES ASSUME NEW r \in held, NEW o \in Owners(r) PROVE o \in held
  OBVIOUS
<1>1. PICK n \in 1 .. step : r = Plan[n]
  BY DEF Building
<1>2. n \in 1 .. Len(Plan)
  BY <1>1, PlanHasLength DEF Building
<1>3. PICK m \in 1 .. n - 1 : Plan[m] = o /\ o \notin Transient
  BY <1>1, <1>2, OwnersComeFirst
<1>4. m \in 1 .. step
  BY <1>1, <1>3, PlanHasLength DEF Building
<1> QED
  BY <1>3, <1>4 DEF Building

(* Whatever the failed creation does not free itself, and the whole of a   *)
(* complete backend, is given back by the destructors.                     *)
LEMMA BuiltIsReleased ==
  ASSUME Building
  PROVE  /\ \A r \in held \ Transient : \E n \in 1 .. Len(Release) :
              r \in Released(Release[n]) /\ Release[n] # "gl"
         /\ step = Len(Plan) => held \cap Transient = {}
<1>1. ASSUME NEW r \in held \ Transient
      PROVE  \E n \in 1 .. Len(Release) : r \in Released(Release[n]) /\ Release[n] # "gl"
  <2>1. PICK n \in 1 .. step : r = Plan[n]
    BY <1>1 DEF Building
  <2>2. n \in 1 .. Len(Plan)
    BY <2>1, PlanHasLength DEF Building
  <2> QED
    BY <1>1, <2>1, <2>2, PlanIsReleased
<1>2. ASSUME step = Len(Plan), NEW r \in held, r \in Transient PROVE FALSE
  <2>1. PICK n \in 1 .. step : r = Plan[n] /\ \A m \in n .. step : r \notin FreedBy(Plan[m])
    BY <1>2 DEF Building
  <2> QED
    BY <1>2, <2>1, TransientIsFreed
<1> QED
  BY <1>1, <1>2

(* A backend that is complete has the copier it imports buffers with and   *)
(* the device its surfaces belong to.                                      *)
LEMMA CompleteIsWhole ==
  ASSUME Building, step = Len(Plan)
  PROVE  /\ kind # "vaapi" \/ gles => CopierBuilt
         /\ kind = "vaapi" => "device" \in held
<1>1. \A n \in 1 .. Len(Plan) : Plan[n] \in held \cup Transient
  BY DEF Building
<1>2. CASE kind # "vaapi"
  <2>1. Plan = MediaCodecPlan
    BY <1>2 DEF Plan
  <2>2. {"display", "context", "egl_surface"} \subseteq held \cup Transient
    BY <1>1, <2>1, MediaCodecPlanIs
  <2> QED
    BY <1>2, <2>2 DEF CopierBuilt, Transient, Shaders
<1>3. CASE kind = "vaapi"
  <2>1. Plan = VaapiPlan
    BY <1>3 DEF Plan
  <2>2. 1 \in 1 .. Len(Plan) /\ Plan[1] = "device"
    BY <2>1, DirectPlanIs, GlesPlanIs
  <2>3. "device" \in held
    BY <1>1, <2>2 DEF Transient, Shaders
  <2>4. CASE gles
    <3>1. /\ Len(Plan) = 19
          /\ Plan[7] = "display" /\ Plan[8] = "context" /\ Plan[9] = "egl_surface"
      BY <2>1, <2>4, GlesPlanIs
    <3>2. {Plan[7], Plan[8], Plan[9]} \subseteq held \cup Transient
      BY <1>1, <3>1
    <3> QED
      BY <1>3, <2>3, <3>1, <3>2 DEF CopierBuilt, Transient, Shaders
  <2> QED
    BY <1>3, <2>3, <2>4
<1> QED
  BY <1>2, <1>3

(* The copier's operations leave no reference behind unless one fails, and *)
(* import at most the buffer they are called for.                          *)
LEMMA CopierStep ==
  ASSUME CopierInv, NEW t, NEW b, NEW ok, NEW bound, NEW result \in CopyResult,
         t # NoThread,
         \/ ImportBuffer(t, b, ok) \/ ForgetBuffer(t, b)
         \/ CopyFrame(t, b, result) \/ DestroyCopier(t, bound)
         \/ UNCHANGED <<copierVars, faults>>
  PROVE  CopierInv'
<1> USE DEF CopierInv
<1>1. ASSUME NEW n \in Nat, Faults(n) PROVE faults' \in Nat /\ faults' >= faults /\ faults' >= n
  BY <1>1 DEF Faults
<1>2. ASSUME BindFails(t) PROVE current' = current /\ faults' \in Nat /\ faults' > 0
  <2>1. CASE CanBind(t)
    BY <1>2, <1>1, <2>1 DEF BindFails
  <2>2. CASE ~CanBind(t)
    BY <1>2, <1>1, <2>2 DEF BindFails, CanBind
  <2> QED
    BY <2>1, <2>2
<1>3. ASSUME NEW n \in Nat, Unbind(t, n)
      PROVE  (current' # NoThread => faults' > 0) /\ faults' \in Nat /\ faults' >= faults
  BY <1>3 DEF Unbind, Faults
<1>4. CASE ImportBuffer(t, b, ok)
  <2>1. CASE BindFails(t) /\ UNCHANGED <<imported, copierRefs>>
    BY <1>2, <2>1
  <2>2. CASE /\ imported' = IF ok THEN imported \cup {b} ELSE imported
             /\ copierRefs' = IF ok THEN copierRefs \cup {b}
                                    ELSE ReleaseImportedBuffer(copierRefs \cup {b}, b)
             /\ Unbind(t, IF ok THEN 0 ELSE 1)
    BY <1>3, <2>2 DEF ReleaseImportedBuffer
  <2> QED
    BY <1>4, <2>1, <2>2 DEF ImportBuffer
<1>5. CASE ForgetBuffer(t, b)
  <2>1. CASE UNCHANGED <<imported, copierRefs, current, faults>>
    BY <2>1
  <2>2. CASE BindFails(t) /\ UNCHANGED <<imported, copierRefs>>
    BY <1>2, <2>2
  <2>3. CASE /\ imported' = imported \ {b}
             /\ copierRefs' = ReleaseImportedBuffer(copierRefs, b)
             /\ Unbind(t, 0)
    BY <1>3, <2>3 DEF ReleaseImportedBuffer
  <2> QED
    BY <1>5, <2>1, <2>2, <2>3 DEF ForgetBuffer
<1>6. CASE CopyFrame(t, b, result)
  <2>1. UNCHANGED <<imported, copierRefs>>
    BY <1>6 DEF CopyFrame
  <2>2. \/ UNCHANGED <<current, faults>> \/ BindFails(t)
        \/ Unbind(t, IF result.success THEN 0 ELSE 1)
    BY <1>6 DEF CopyFrame
  <2> QED
    BY <1>2, <1>3, <2>1, <2>2
<1>7. CASE DestroyCopier(t, bound)
  <2>1. imported' = {}
    BY <1>7 DEF DestroyCopier
  <2>2. CASE copierRefs' = {c \in copierRefs : c \notin imported} /\ Unbind(t, 0)
    BY <1>3, <2>1, <2>2
  <2>3. CASE BindFails(t) /\ UNCHANGED copierRefs
    BY <1>2, <2>1, <2>3
  <2> QED
    BY <1>7, <2>2, <2>3 DEF DestroyCopier
<1>8. CASE UNCHANGED <<copierVars, faults>>
  BY <1>8 DEF copierVars
<1> QED
  BY <1>4, <1>5, <1>6, <1>7, <1>8

(* The order is a sequence of resources, a fact about its domain.          *)
LEMMA ReleaseDomain == DOMAIN Release = 1 .. Len(Release)
<1>1. DOMAIN MediaCodecRelease = 1 .. Len(MediaCodecRelease)
  BY DEF MediaCodecRelease, CopierRelease
<1>2. DOMAIN VaapiRelease = 1 .. Len(VaapiRelease)
  BY DEF VaapiRelease, CopierRelease
<1> QED
  BY <1>1, <1>2 DEF Release

(* The copier lets go of its buffers before its context, the encoder of    *)
(* its surfaces before the device (~Impl of both codec files).             *)
LEMMA ImportsGoFirst ==
  ASSUME NEW n \in 1 .. Len(Release)
  PROVE  /\ Released(Release[n]) \cap {"display", "context", "egl_surface"} # {} =>
              \E m \in 1 .. n - 1 : Release[m] = "gl"
         /\ kind = "vaapi" /\ "device" \in Released(Release[n]) =>
              \E m \in 1 .. n - 1 : Release[m] = "buffers"
<1> USE DEF Released
<1>1. CASE kind # "vaapi"
  <2>1. Released(Release[n]) \cap {"display", "context", "egl_surface"} # {} => n # 1
    BY <1>1, MediaCodecReleaseIs
  <2> QED
    BY <1>1, <2>1, MediaCodecReleaseIs
<1>2. CASE kind = "vaapi"
  <2>1. Released(Release[n]) \cap {"display", "context", "egl_surface"} # {} => n \in {6, 7, 8}
    BY <1>2, VaapiReleaseAt
  <2>2. "device" \in Released(Release[n]) => n = 14
    BY <1>2, VaapiReleaseAt
  <2>3. Release[5] = "gl" /\ Release[4] = "buffers"
    BY <1>2, VaapiReleaseIs
  <2> QED
    BY <2>1, <2>2, <2>3
<1> QED
  BY <1>1, <1>2

(* One resource is given back: the order keeps what still depends on it.   *)
LEMMA ReleaseStep ==
  ASSUME Dismantling, OwnersOutlive, step \in 1 .. Len(Release),
         surfaces \subseteq buffers, buffers # {} => kind = "vaapi",
         imported # {} => CopierBuilt,
         Release[step] = "buffers" => buffers = {},
         Release[step] = "gl" => imported = {},
         held' = held \ Released(Release[step]), step' = step + 1,
         UNCHANGED <<kind, buffers, surfaces, imported>>
  PROVE  Dismantling' /\ OwnersOutlive' /\ (imported' # {} => CopierBuilt')
<1>1. Release' = Release /\ \A r : Owners(r)' = Owners(r)
  BY DEF Release, Owners
<1> DEFINE gone == Released(Release[step])
<1>2. Dismantling'
  <2>1. step' \in Nat \ {0} /\ held' \cap Transient = {}
    BY DEF Dismantling
  <2>2. ASSUME NEW r \in held'
        PROVE  \E n \in step' .. Len(Release) : r \in Released(Release[n]) /\ Release[n] # "gl"
    <3>1. PICK n \in step .. Len(Release) : r \in Released(Release[n]) /\ Release[n] # "gl"
      BY <2>2 DEF Dismantling
    <3>2. n # step
      BY <2>2, <3>1
    <3> QED
      BY <3>1, <3>2, PlanHasLength DEF Dismantling
  <2>3. ASSUME NEW n \in 1 .. Len(Release), n < step', Release[n] = "buffers" PROVE buffers' = {}
    <3>1. n = step \/ n < step
      BY <2>3, PlanHasLength
    <3> QED
      BY <2>3, <3>1 DEF Dismantling
  <2>4. ASSUME NEW n \in 1 .. Len(Release), n < step', Release[n] = "gl" PROVE imported' = {}
    <3>1. n = step \/ n < step
      BY <2>4, PlanHasLength
    <3> QED
      BY <2>4, <3>1 DEF Dismantling
  <2> QED
    BY <1>1, <2>1, <2>2, <2>3, <2>4 DEF Dismantling
<1>3. ASSUME NEW m \in 1 .. step - 1, Release[m] = "gl" PROVE imported = {}
  BY <1>3, PlanHasLength DEF Dismantling
<1>4. ASSUME NEW m \in 1 .. step - 1, Release[m] = "buffers" PROVE buffers = {}
  BY <1>4, PlanHasLength DEF Dismantling
<1>5. ASSUME NEW r \in held', NEW o \in Owners(r) PROVE o \in held'
  <2>1. r \in held /\ r \notin Transient /\ o \in held
    BY <1>5 DEF OwnersOutlive, Dismantling
  <2>2. PICK n \in step .. Len(Release) : r \in Released(Release[n])
    BY <2>1 DEF Dismantling
  <2>3. n # step
    BY <1>5, <2>2
  <2>4. n \in 1 .. Len(Release) /\ ~(n <= step)
    BY <2>2, <2>3, PlanHasLength
  <2>5. o \notin Released(Release[step])
    BY <1>5, <2>1, <2>2, <2>4, OwnersGoLast
  <2> QED
    BY <2>1, <2>5
<1>6. surfaces' # {} => "device" \in held'
  <2> SUFFICES ASSUME surfaces # {} PROVE "device" \in held'
    OBVIOUS
  <2>1. "device" \in held /\ buffers # {} /\ kind = "vaapi"
    BY DEF OwnersOutlive
  <2>2. "device" \notin Released(Release[step])
    BY <1>4, <2>1, ImportsGoFirst
  <2> QED
    BY <2>1, <2>2
<1>7. imported' # {} => CopierBuilt'
  <2> SUFFICES ASSUME imported # {} PROVE CopierBuilt'
    OBVIOUS
  <2>1. Released(Release[step]) \cap {"display", "context", "egl_surface"} = {}
    BY <1>3, ImportsGoFirst
  <2> QED
    BY <2>1 DEF CopierBuilt
<1> QED
  BY <1>1, <1>2, <1>5, <1>6, <1>7 DEF OwnersOutlive

(* In service neither the plan nor what is held changes.                   *)
LEMMA ServiceKeepsResources ==
  ASSUME ResourceInv, phase = "open", UNCHANGED <<lifeVars, gles>>, CopierInv',
         surfaces' \subseteq buffers', buffers' # {} => kind = "vaapi",
         imported' # {} => imported # {} \/ kind # "vaapi" \/ gles
  PROVE  ResourceInv'
<1> USE DEF lifeVars
<1>1. Plan' = Plan
  BY DEF Plan, MediaCodecPlan, VaapiPlan, CopierPlan
<1>2. \A r : Owners(r)' = Owners(r)
  BY DEF Owners
<1>3. Building /\ step = Len(Plan)
  BY DEF ResourceInv
<1>4. Building'
  BY <1>1, <1>3 DEF Building
<1>5. imported' # {} => CopierBuilt'
  BY <1>3, CompleteIsWhole DEF CopierBuilt, ResourceInv
<1>6. surfaces' # {} => "device" \in held
  BY <1>3, CompleteIsWhole
<1>7. OwnersOutlive'
  BY <1>2, <1>6 DEF OwnersOutlive, ResourceInv
<1> QED
  BY <1>1, <1>3, <1>4, <1>5, <1>7 DEF ResourceInv

(* A registration concerns one buffer; a copier takes it only where there  *)
(* is one.                                                                 *)
LEMMA RegisterStep ==
  ASSUME ResourceInv, RegisterABuffer \/ UnregisterABuffer
  PROVE  ResourceInv'
<1>1. phase = "open" /\ UNCHANGED lifeVars
  BY DEF RegisterABuffer, UnregisterABuffer, InService, Usable
<1>2. PICK t \in Threads, b \in Buffers, ok \in BOOLEAN :
        \/ kind = "vaapi" /\ RegisterBuffer(t, b, ok)
        \/ kind # "vaapi" /\ MediaRegister(t, b, ok)
        \/ kind = "vaapi" /\ UnregisterBuffer(t, b)
        \/ kind # "vaapi" /\ MediaUnregister(t, b)
  BY DEF RegisterABuffer, UnregisterABuffer
<1>3. t # NoThread /\ CopierInv /\ surfaces \subseteq buffers
      /\ (buffers # {} => kind = "vaapi")
  BY CopierAssumption DEF ResourceInv
<1>4. Failed \in CopyResult
  BY DEF Failed, CopyResult
<1>5. CASE kind = "vaapi" /\ RegisterBuffer(t, b, ok)
  <2>1. /\ UNCHANGED gles
        /\ \/ UNCHANGED <<copierVars, faults>>
           \/ gles /\ ImportBuffer(t, b, ok)
    BY <1>5 DEF RegisterBuffer
  <2>2. surfaces' \subseteq buffers'
    BY <1>3, <1>5 DEF RegisterBuffer
  <2>3. CopierInv'
    BY <2>1, <1>3, <1>4, CopierStep
  <2>4. imported' # {} => imported # {} \/ gles
    BY <2>1 DEF copierVars
  <2> QED
    BY <1>1, <1>5, <2>1, <2>2, <2>3, <2>4, ServiceKeepsResources
<1>6. CASE kind # "vaapi" /\ MediaRegister(t, b, ok)
  <2>1. UNCHANGED <<gles, buffers, surfaces>> /\ ImportBuffer(t, b, ok)
    BY <1>6 DEF MediaRegister, encoderVars, registerVars
  <2>2. CopierInv'
    BY <2>1, <1>3, <1>4, CopierStep
  <2> QED
    BY <1>1, <1>3, <1>6, <2>1, <2>2, ServiceKeepsResources
<1>7. CASE kind = "vaapi" /\ UnregisterBuffer(t, b)
  <2>1. /\ UNCHANGED gles
        /\ UNCHANGED <<copierVars, faults>> \/ ForgetBuffer(t, b)
        /\ buffers' = buffers \ {b} /\ surfaces' = surfaces \ {b}
    BY <1>7 DEF UnregisterBuffer
  <2>2. CopierInv'
    BY <2>1, <1>3, <1>4, CopierStep
  <2>3. imported' # {} => imported # {}
    BY <2>1 DEF ForgetBuffer, copierVars
  <2> QED
    BY <1>1, <1>3, <1>7, <2>1, <2>2, <2>3, ServiceKeepsResources
<1>8. CASE kind # "vaapi" /\ MediaUnregister(t, b)
  <2>1. UNCHANGED <<gles, buffers, surfaces>> /\ ForgetBuffer(t, b)
    BY <1>8 DEF MediaUnregister, encoderVars, registerVars
  <2>2. CopierInv'
    BY <2>1, <1>3, <1>4, CopierStep
  <2> QED
    BY <1>1, <1>3, <1>8, <2>1, <2>2, ServiceKeepsResources
<1> QED
  BY <1>2, <1>5, <1>6, <1>7, <1>8

(* The other operations in service touch the resources at most by a copy.  *)
LEMMA OperationStep ==
  ASSUME ResourceInv,
         \/ SubmitAFrame \/ RepeatAFrame \/ ChangeBitrate \/ AskForKeyFrame
         \/ EndInput \/ DrainOutput
  PROVE  ResourceInv'
<1>1. phase = "open" /\ UNCHANGED lifeVars
  BY DEF SubmitAFrame, RepeatAFrame, ChangeBitrate, AskForKeyFrame, EndInput, DrainOutput,
     InService, Usable
<1>2. UNCHANGED registerVars
  <2>1. CASE SubmitAFrame
    BY <2>1 DEF SubmitAFrame, SubmitFrame, MediaSubmit
  <2>2. CASE RepeatAFrame
    BY <2>2 DEF RepeatAFrame, RepeatLastFrame, MediaRepeats
  <2>3. CASE ChangeBitrate
    BY <2>3 DEF ChangeBitrate, SetBitrate, MediaParameters
  <2>4. CASE AskForKeyFrame
    BY <2>4 DEF AskForKeyFrame, RequestKeyFrame, MediaParameters
  <2>5. CASE EndInput
    BY <2>5 DEF EndInput, SignalEndOfInputStream, MediaEndOfInput
  <2>6. CASE DrainOutput
    BY <2>6 DEF DrainOutput, DequeueOutput, MediaDequeue
  <2> QED
    BY <2>1, <2>2, <2>3, <2>4, <2>5, <2>6
<1>3. \/ UNCHANGED <<copierVars, faults>>
      \/ \E t \in Threads, b \in Buffers, result \in CopyResult : CopyFrame(t, b, result)
  <2>1. CASE SubmitAFrame
    BY <2>1 DEF SubmitAFrame, SubmitFrame, MediaSubmit, SourceReady
  <2>2. CASE RepeatAFrame
    BY <2>2 DEF RepeatAFrame, RepeatLastFrame, MediaRepeats
  <2>3. CASE ChangeBitrate
    BY <2>3 DEF ChangeBitrate, SetBitrate, MediaParameters
  <2>4. CASE AskForKeyFrame
    BY <2>4 DEF AskForKeyFrame, RequestKeyFrame, MediaParameters
  <2>5. CASE EndInput
    BY <2>5 DEF EndInput, SignalEndOfInputStream, MediaEndOfInput
  <2>6. CASE DrainOutput
    BY <2>6 DEF DrainOutput, DequeueOutput, MediaDequeue
  <2> QED
    BY <2>1, <2>2, <2>3, <2>4, <2>5, <2>6
<1>4. UNCHANGED imported
  BY <1>3 DEF CopyFrame, copierVars
<1>5. CopierInv'
  <2>1. CopierInv /\ Failed \in CopyResult
    BY DEF ResourceInv, Failed, CopyResult
  <2>2. CASE UNCHANGED <<copierVars, faults>>
    BY <2>1, <2>2 DEF CopierInv, copierVars
  <2>3. ASSUME NEW t \in Threads, NEW b \in Buffers, NEW result \in CopyResult,
               CopyFrame(t, b, result)
        PROVE  CopierInv'
    BY <2>1, <2>3, CopierStep, CopierAssumption
  <2> QED
    BY <1>3, <2>2, <2>3
<1> QED
  BY <1>1, <1>2, <1>4, <1>5, ServiceKeepsResources DEF registerVars, ResourceInv

(* Past the last destructor nothing is held or imported.                   *)
LEMMA NothingHeldAtTheEnd ==
  ASSUME Dismantling, step > Len(Release), buffers # {} => kind = "vaapi"
  PROVE  held = {} /\ buffers = {} /\ imported = {}
<1>1. held = {}
  BY PlanHasLength DEF Dismantling
<1>2. CASE kind = "vaapi"
  <2>1. Len(Release) = 14 /\ Release[4] = "buffers" /\ Release[5] = "gl"
    BY <1>2, VaapiReleaseIs
  <2> QED
    BY <1>1, <2>1 DEF Dismantling
<1>3. CASE kind # "vaapi"
  <2>1. Len(Release) = 8 /\ Release[1] = "gl"
    BY <1>3, MediaCodecReleaseIs
  <2> QED
    BY <1>1, <1>3, <2>1 DEF Dismantling
<1> QED
  BY <1>2, <1>3

(* A backend is begun with nothing held.                                   *)
LEMMA BeginStep ==
  ASSUME ResourceInv, Create \/ (Destroyed /\ candidates # <<>>)
  PROVE  ResourceInv'
<1>1. phase' = "creating" /\ step' = 0 /\ held' = held
  BY DEF Create, Destroyed, TryNext
<1>2. UNCHANGED <<copierVars, faults, buffers, surfaces>>
  BY DEF Create, Destroyed
<1>3. held = {} /\ buffers = {} /\ imported = {}
  <2>1. CASE Create
    BY <2>1 DEF Create, ResourceInv
  <2>2. CASE Destroyed
    BY <2>2, NothingHeldAtTheEnd DEF Destroyed, ResourceInv
  <2> QED
    BY <2>1, <2>2
<1>4. Building'
  <2>1. (Len(Plan) \in Nat /\ Len(Release) \in Nat)'
    BY PlanHasLength, PTL
  <2> QED
    BY <1>1, <1>3, <2>1 DEF Building
<1>5. CopierInv'
  BY <1>2 DEF CopierInv, copierVars, ResourceInv
<1> QED
  BY <1>1, <1>2, <1>3, <1>4, <1>5 DEF ResourceInv, OwnersOutlive, copierVars

(* The last destructor is done: back to idle.                              *)
LEMMA EndStep ==
  ASSUME ResourceInv, Destroyed, candidates = <<>>
  PROVE  ResourceInv'
<1>1. held = {} /\ buffers = {} /\ imported = {}
  BY NothingHeldAtTheEnd DEF Destroyed, ResourceInv
<1>2. phase' = "idle" /\ UNCHANGED <<copierVars, faults, buffers, surfaces, held>>
  BY DEF Destroyed
<1>3. CopierInv'
  BY <1>2 DEF CopierInv, copierVars, ResourceInv
<1> QED
  BY <1>1, <1>2, <1>3 DEF ResourceInv, OwnersOutlive, copierVars

(* The next resource of the plan is taken.                                 *)
LEMMA TakeStep ==
  ASSUME ResourceInv, TakeResource
  PROVE  ResourceInv'
<1>1. /\ phase = "creating" /\ step < Len(Plan) /\ step' = step + 1
      /\ held' = (held \cup {Plan[step + 1]}) \ FreedBy(Plan[step + 1])
      /\ UNCHANGED <<copierVars, faults, gles, buffers, surfaces, phase, kind>>
  BY DEF TakeResource, encoderVars, registerVars
<1>2. Plan' = Plan /\ \A r : Owners(r)' = Owners(r)
  BY <1>1 DEF Plan, MediaCodecPlan, VaapiPlan, CopierPlan, Owners
<1>3. Building /\ Len(Plan) \in Nat
  BY <1>1, PlanHasLength DEF ResourceInv
<1>4. step' \in 1 .. Len(Plan)
  BY <1>1, <1>3 DEF Building
<1>5. ASSUME NEW r \in held'
      PROVE  \E n \in 1 .. step' : r = Plan[n] /\ \A m \in n .. step' : r \notin FreedBy(Plan[m])
  <2>1. r \notin FreedBy(Plan[step'])
    BY <1>1, <1>5
  <2>2. CASE r = Plan[step']
    <3>1. \A m \in step' .. step' : r \notin FreedBy(Plan[m])
      BY <1>4, <2>1
    <3> QED
      BY <1>4, <2>2, <3>1
  <2>3. CASE r \in held
    <3>1. PICK n \in 1 .. step : r = Plan[n] /\ \A m \in n .. step : r \notin FreedBy(Plan[m])
      BY <1>3, <2>3 DEF Building
    <3>2. \A m \in n .. step' : r \notin FreedBy(Plan[m])
      <4> SUFFICES ASSUME NEW m \in n .. step' PROVE r \notin FreedBy(Plan[m])
        OBVIOUS
      <4>1. m = step' \/ m \in n .. step
        BY <1>1, <1>3, <3>1 DEF Building
      <4> QED
        BY <2>1, <3>1, <4>1
    <3>3. n \in 1 .. step'
      BY <1>1, <1>3, <3>1 DEF Building
    <3> QED
      BY <3>1, <3>2, <3>3
  <2> QED
    BY <1>1, <1>5, <2>2, <2>3
<1>6. ASSUME NEW n \in 1 .. step' PROVE Plan[n] \in held' \cup Transient
  <2>1. FreedBy(Plan[step + 1]) \subseteq Transient
    BY FreedIsTransient
  <2>2. n = step + 1 \/ n \in 1 .. step
    BY <1>1, <1>3, <1>6 DEF Building
  <2> QED
    BY <1>1, <1>3, <2>1, <2>2 DEF Building
<1>7. Building'
  BY <1>2, <1>3, <1>4, <1>5, <1>6 DEF Building
<1>8. \A r \in held' : Owners(r)' \subseteq held'
  <2>1. (\A r \in held : Owners(r) \subseteq held)'
    BY <1>7, BuiltHasOwners, PTL
  <2> QED
    BY <2>1
<1>9. CopierInv' /\ buffers = {} /\ imported = {} /\ surfaces = {}
  BY <1>1 DEF CopierInv, copierVars, ResourceInv
<1> QED
  BY <1>1, <1>7, <1>8, <1>9 DEF ResourceInv, OwnersOutlive, copierVars

(* A session is complete, or is given up, or its creation fails.           *)
LEMMA TurnStep ==
  ASSUME ResourceInv, CreationSucceeds \/ CreationFails \/ Close
  PROVE  ResourceInv'
<1>1. UNCHANGED <<current, imported, copierRefs, faults, gles, buffers, surfaces, kind>>
  BY DEF CreationSucceeds, CreationFails, Close, copierVars, encoderVars, registerVars
<1>2. Plan' = Plan /\ Release' = Release /\ \A r : Owners(r)' = Owners(r)
  BY <1>1 DEF Plan, MediaCodecPlan, VaapiPlan, CopierPlan, Owners, Release
<1>3. CopierInv'
  BY <1>1 DEF CopierInv, ResourceInv
<1>4. Building
  BY DEF CreationSucceeds, CreationFails, Close, ResourceInv
<1>5. CASE CreationSucceeds
  <2>1. phase = "creating" /\ phase' = "open" /\ UNCHANGED <<step, held>> /\ step = Len(Plan)
    BY <1>5 DEF CreationSucceeds
  <2>2. Building'
    BY <1>2, <1>4, <2>1 DEF Building
  <2> QED
    BY <1>1, <1>2, <1>3, <2>1, <2>2 DEF ResourceInv, OwnersOutlive
<1>6. ASSUME phase' = "closing", step' = 1, held' = held \ Transient
      PROVE  Dismantling'
  <2>1. \A r \in held' : \E n \in 1 .. Len(Release) : r \in Released(Release[n]) /\ Release[n] # "gl"
    BY <1>4, <1>6, BuiltIsReleased
  <2> QED
    BY <1>2, <1>6, <2>1 DEF Dismantling
<1>7. CASE CreationFails
  <2>1. phase = "creating" /\ phase' = "closing" /\ step' = 1 /\ held' = held \ Transient
    BY <1>7 DEF CreationFails, LocalCleanup
  <2>2. \A r \in held' : Owners(r) \subseteq held'
    <3> SUFFICES ASSUME NEW r \in held', NEW o \in Owners(r) PROVE o \in held'
      OBVIOUS
    <3>1. r \in held /\ o \in held
      BY <1>4, <2>1, BuiltHasOwners
    <3>2. o \notin Transient
      BY <1>4, <3>1, PlanHasLength, OwnersComeFirst DEF Building
    <3> QED
      BY <2>1, <3>1, <3>2
  <2>3. buffers = {} /\ imported = {} /\ surfaces = {}
    BY <2>1 DEF ResourceInv
  <2> QED
    BY <1>1, <1>2, <1>3, <1>6, <2>1, <2>2, <2>3 DEF ResourceInv, OwnersOutlive
<1>8. CASE Close
  <2>1. phase = "open" /\ phase' = "closing" /\ step' = 1 /\ held' = held
    BY <1>8 DEF Close
  <2>2. held \cap Transient = {}
    BY <1>4, <2>1, BuiltIsReleased DEF ResourceInv
  <2> QED
    BY <1>1, <1>2, <1>3, <1>6, <2>1, <2>2 DEF ResourceInv, OwnersOutlive, CopierBuilt
<1> QED
  BY <1>5, <1>7, <1>8

(* The destructors' steps.                                                 *)
LEMMA GiveBackStep ==
  ASSUME ResourceInv, GiveBack
  PROVE  ResourceInv'
<1>1. /\ phase = "closing" /\ UNCHANGED <<phase, candidates, kind, sessions>>
      /\ step \in 1 .. Len(Release)
  BY ReleaseDomain DEF GiveBack
<1>2. Dismantling /\ OwnersOutlive /\ CopierInv /\ surfaces \subseteq buffers
      /\ (buffers # {} => kind = "vaapi") /\ (imported # {} => CopierBuilt)
  BY <1>1 DEF ResourceInv
<1>3. Failed \in CopyResult
  BY DEF Failed, CopyResult
<1>4. Release' = Release /\ \A r : Owners(r)' = Owners(r)
  BY <1>1 DEF Owners, Release
<1>5. CASE Release[step] = "buffers" /\ buffers # {}
  <2>1. UNCHANGED <<step, held>> /\ \E t \in Threads, b \in buffers : UnregisterBuffer(t, b)
    BY <1>5 DEF GiveBack
  <2>2. PICK t \in Threads, b \in buffers :
          /\ buffers' = buffers \ {b} /\ surfaces' = surfaces \ {b}
          /\ UNCHANGED <<copierVars, faults>> \/ ForgetBuffer(t, b)
    BY <2>1 DEF UnregisterBuffer
  <2>3. CopierInv'
    BY <1>2, <1>3, <2>2, CopierStep, CopierAssumption
  <2>4. imported' \subseteq imported
    BY <2>2 DEF ForgetBuffer, copierVars
  <2>5. Dismantling'
    BY <1>2, <1>4, <2>1, <2>2, <2>4 DEF Dismantling
  <2> QED
    BY <1>1, <1>2, <1>4, <2>1, <2>2, <2>3, <2>4, <2>5 DEF ResourceInv, OwnersOutlive, CopierBuilt
<1>6. CASE Release[step] = "gl" /\ CopierBuilt
  <2>1. /\ step' = step + 1 /\ UNCHANGED encoderVars
        /\ \E t \in Threads, bound \in BOOLEAN :
             /\ DestroyCopier(t, bound)
             /\ held' = IF bound THEN held \ GlObjects ELSE held
    BY <1>6 DEF GiveBack
  <2>2. PICK t \in Threads, bound \in BOOLEAN :
             /\ DestroyCopier(t, bound)
             /\ held' = IF bound THEN held \ GlObjects ELSE held
    BY <2>1
  <2>3. CopierInv' /\ imported' = {}
    BY <1>2, <1>3, <2>2, CopierStep, CopierAssumption DEF DestroyCopier
  <2>4. \A r : Owners(r) \cap GlObjects = {}
    BY DEF Owners, GlObjects, Shaders
  <2>5. \A r \in held' : Owners(r)' \subseteq held'
    BY <1>2, <1>4, <2>2, <2>4 DEF OwnersOutlive
  <2>6. UNCHANGED <<buffers, surfaces>> /\ "device" \notin GlObjects
    BY <2>1 DEF encoderVars, registerVars, GlObjects
  <2>7. OwnersOutlive'
    BY <1>2, <2>2, <2>5, <2>6 DEF OwnersOutlive
  <2>8. ASSUME NEW r \in held'
        PROVE  \E n \in step' .. Len(Release) : r \in Released(Release[n]) /\ Release[n] # "gl"
    <3>1. PICK n \in step .. Len(Release) : r \in Released(Release[n]) /\ Release[n] # "gl"
      BY <1>2, <2>2, <2>8 DEF Dismantling
    <3>2. n \in step' .. Len(Release)
      BY <1>1, <1>6, <2>1, <3>1, PlanHasLength
    <3> QED
      BY <3>1, <3>2
  <2>9. ASSUME NEW n \in 1 .. Len(Release), n < step', Release[n] = "buffers" PROVE buffers' = {}
    <3>1. n < step
      BY <1>1, <1>6, <2>1, <2>9, PlanHasLength
    <3> QED
      BY <1>2, <2>6, <2>9, <3>1 DEF Dismantling
  <2>10. Dismantling'
    BY <1>1, <1>2, <1>4, <2>1, <2>2, <2>3, <2>8, <2>9 DEF Dismantling
  <2> QED
    BY <1>1, <1>2, <2>3, <2>6, <2>7, <2>10 DEF ResourceInv
<1>7. CASE /\ ~(Release[step] = "buffers" /\ buffers # {})
           /\ ~(Release[step] = "gl" /\ CopierBuilt)
  <2>1. /\ held' = held \ Released(Release[step]) /\ step' = step + 1
        /\ UNCHANGED <<copierVars, faults, encoderVars>>
    BY <1>7 DEF GiveBack
  <2>2. UNCHANGED <<kind, buffers, surfaces, imported>> /\ CopierInv'
    BY <1>1, <1>2, <2>1 DEF encoderVars, registerVars, copierVars, CopierInv
  <2>3. Release[step] = "gl" => imported = {}
    BY <1>2, <1>7
  <2>4. Dismantling' /\ OwnersOutlive' /\ (imported' # {} => CopierBuilt')
    BY <1>1, <1>2, <1>7, <2>1, <2>2, <2>3, ReleaseStep
  <2> QED
    BY <1>1, <1>2, <2>2, <2>4 DEF ResourceInv
<1> QED
  BY <1>5, <1>6, <1>7

(* A step that takes and gives back nothing.                               *)
LEMMA ElsewhereKeepsResources ==
  ASSUME ResourceInv, CopierInv',
         UNCHANGED <<imported, gles, buffers, surfaces, phase, kind, step, held>>
  PROVE  ResourceInv'
<1>1. /\ Plan' = Plan /\ Release' = Release /\ CopierBuilt' = CopierBuilt
      /\ \A r : Owners(r)' = Owners(r)
  BY DEF Plan, MediaCodecPlan, VaapiPlan, CopierPlan, Owners, Release, CopierBuilt
<1>2. OwnersOutlive'
  BY <1>1 DEF OwnersOutlive, ResourceInv
<1>3. (Building => Building') /\ (Dismantling => Dismantling')
  BY <1>1 DEF Building, Dismantling
<1> QED
  BY <1>1, <1>2, <1>3 DEF ResourceInv

(* A submit that waits for the window, and its end, are a copy at most.    *)
LEMMA WaitStep ==
  ASSUME ResourceInv, SubmitWaits \/ WaitingSubmitFails
  PROVE  ResourceInv'
<1>1. CopierInv /\ Failed \in CopyResult
  BY DEF ResourceInv, Failed, CopyResult
<1>2. UNCHANGED <<gles, buffers, surfaces, phase, kind, step, held>>
  BY DEF SubmitWaits, WaitingSubmitFails, encoderVars, registerVars
<1>3. CASE SubmitWaits
  <2>1. UNCHANGED <<imported, copierRefs, current, faults>>
    BY <1>3 DEF SubmitWaits, copierVars
  <2>2. CopierInv'
    BY <1>1, <2>1 DEF CopierInv
  <2> QED
    BY <1>2, <2>1, <2>2, ElsewhereKeepsResources
<1>4. CASE WaitingSubmitFails
  <2>1. PICK t \in Threads, b \in Buffers : CopyFrame(t, b, Failed)
    BY <1>4 DEF WaitingSubmitFails
  <2>2. CopierInv'
    BY <1>1, <2>1, CopierStep, CopierAssumption
  <2>3. UNCHANGED imported
    BY <2>1 DEF CopyFrame
  <2> QED
    BY <1>2, <2>2, <2>3, ElsewhereKeepsResources
<1> QED
  BY <1>3, <1>4

(* Every step keeps the invariant.                                         *)
LEMMA ResourceStep == ResourceInv /\ [Next]_vars => ResourceInv'
<1> SUFFICES ASSUME ResourceInv, [Next]_vars PROVE ResourceInv'
  OBVIOUS
<1>1. CASE Create \/ Destroyed
  BY <1>1, BeginStep, EndStep
<1>2. CASE TakeResource
  BY <1>2, TakeStep
<1>3. CASE CreationSucceeds \/ CreationFails \/ Close
  BY <1>3, TurnStep
<1>4. CASE GiveBack
  BY <1>4, GiveBackStep
<1>5. CASE RegisterABuffer \/ UnregisterABuffer
  BY <1>5, RegisterStep
<1>6. CASE \/ SubmitAFrame \/ RepeatAFrame \/ ChangeBitrate \/ AskForKeyFrame
           \/ EndInput \/ DrainOutput
  BY <1>6, OperationStep
<1>7. CASE GpuWorks \/ UNCHANGED vars
  <2>1. /\ UNCHANGED <<imported, gles, buffers, surfaces, phase, kind, step, held>>
        /\ UNCHANGED <<current, copierRefs, faults>>
    BY <1>7 DEF GpuWorks, GpuFinishes, vars, encoderVars, registerVars, copierVars, lifeVars
  <2>2. CopierInv'
    BY <2>1 DEF CopierInv, ResourceInv
  <2> QED
    BY <2>1, <2>2, ElsewhereKeepsResources
<1>8. CASE SubmitWaits \/ WaitingSubmitFails
  BY <1>8, WaitStep
<1> QED
  BY <1>1, <1>2, <1>3, <1>4, <1>5, <1>6, <1>7, <1>8 DEF Next

(* The resources of a session, whatever step of its creation fails and     *)
(* whatever was registered when it is destroyed.                           *)
THEOREM ResourceInvariant == Spec => []ResourceInv
<1>1. Init => ResourceInv
  BY DEF Init, Idle, ResourceInv, CopierInv, OwnersOutlive
<1> QED
  BY <1>1, ResourceStep, PTL DEF Spec

(* No raw handle outlives what it was made from, at any step of a partial  *)
(* creation and of the destructors (~Impl of both codec files, the         *)
(* declaration order of MediaCodecEncoderBackend).                         *)
THEOREM SessionOwnersOutlive == Spec => []OwnersOutlive
<1>1. ResourceInv => OwnersOutlive
  BY DEF ResourceInv
<1> QED
  BY <1>1, ResourceInvariant, PTL

(* A session that is gone holds nothing, nor does a creation that failed;  *)
(* a reference the copier could not give up means that a call failed.      *)
THEOREM SessionLeavesNothing == Spec => []NothingIsLeft
<1>1. ResourceInv => NothingIsLeft
  BY DEF ResourceInv, NothingIsLeft, CopierInv
<1> QED
  BY <1>1, ResourceInvariant, PTL
=============================================================================
