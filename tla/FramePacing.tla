----------------------------- MODULE FramePacing -----------------------------
(***************************************************************************)
(* Which display frames the video backend lets through to the encoder:     *)
(* VideoFrameConsumerBackend::ShouldDropFrameLocked, on presentation times *)
(* in any unit.  The function is called under the backend's mutex.  Its    *)
(* arithmetic is on uint64_t, whose values are 0 .. Word - 1.              *)
(***************************************************************************)
EXTENDS Integers, Sequences

CONSTANTS
  FrameInterval,    \* one second over the encoder's frame rate
  Times,            \* presentation times a frame may carry (int64_t)
  Word              \* 2^64

\* An int64_t plus an interval of a second at most does not wrap.
ASSUME PacingAssumption ==
  /\ FrameInterval \in Nat \ {0}
  /\ Word \in Nat \ {0}
  /\ Times \subseteq Int
  /\ \A ts \in Times : ts + FrameInterval < Word

VARIABLES
  nextFrameTime,    \* next_frame_presentation_time_nanos_
  admitted          \* history: the times let through since the pacing started over

pacingVars == << nextFrameTime, admitted >>

PacingTypeOK == nextFrameTime \in 0 .. Word - 1 /\ admitted \in Seq(Times)

PacingInit == nextFrameTime = 0 /\ admitted = << >>

\* There is no slot to keep yet, or the time went back further than one interval before it.
StartsOver_OnlyFirst(ts) == nextFrameTime = 0

StartsOver(ts) == nextFrameTime = 0 \/ (ts + FrameInterval) % Word < nextFrameTime

\* The slots up to and including the one ts falls into.
Slots(ts) == (ts - nextFrameTime) \div FrameInterval + 1

SlotAfter_FromFrame(ts) == nextFrameTime + (Slots(ts) - 1) * FrameInterval

\* The end of that slot, or where the sum would not fit the word, a slot from ts on.
SlotAfter(ts) ==
  IF Slots(ts) > (Word - 1 - nextFrameTime) \div FrameInterval
  THEN (ts + FrameInterval) % Word
  ELSE nextFrameTime + Slots(ts) * FrameInterval

IsDropped(ts) == ts > 0 /\ ~StartsOver(ts) /\ ts < nextFrameTime

DropFrame(ts) == IsDropped(ts) /\ UNCHANGED pacingVars

AdmitFrame(ts) ==
  \/ /\ ts <= 0
     /\ UNCHANGED pacingVars
  \/ /\ ts > 0
     /\ StartsOver(ts)
     /\ nextFrameTime' = (ts + FrameInterval) % Word
     /\ admitted' = << ts >>
  \/ /\ ts > 0
     /\ ~StartsOver(ts)
     /\ ts >= nextFrameTime
     /\ nextFrameTime' = SlotAfter(ts)
     /\ admitted' = Append(admitted, ts)

\* A new session.
RestartPacing == nextFrameTime' = 0 /\ admitted' = << >>

PacingNext ==
  \/ \E ts \in Times : DropFrame(ts) \/ AdmitFrame(ts)
  \/ RestartPacing

PacingSpec == PacingInit /\ [][PacingNext]_pacingVars

-----------------------------------------------------------------------------
(* Properties *)

\* Of k + 1 frames let through, the last is more than k - 1 intervals after the first:
\* the encoder never gets more than one frame a slot (ShouldDropFrameLocked, FHC1's
\* "enforced at frame ingress").
RateIsKept ==
  \A i, j \in DOMAIN admitted :
    i < j => admitted[j] - admitted[i] > (j - i - 1) * FrameInterval

\* Nor does the pacing starve the display: only a frame less than an interval away from
\* the last one let through is dropped, whatever the clock did in between.
OnlyCrowdedFramesAreDropped ==
  \A ts \in Times :
    IsDropped(ts) =>
      /\ admitted # << >>
      /\ ts - admitted[Len(admitted)] < FrameInterval
      /\ admitted[Len(admitted)] - ts < FrameInterval
=============================================================================
