--------------------------- MODULE MCVideoBackend ---------------------------
(***************************************************************************)
(* One buffer, two sessions, an encoder that holds two frames.  The frame  *)
(* rate is one per second, two ticks, so that some frames come too early.  *)
(***************************************************************************)
EXTENDS VideoBackend

MCFirstConfig == [ structure |-> 1, bitrate |-> 1 ]
MCConfig ==
  { MCFirstConfig, [ structure |-> 1, bitrate |-> 2 ], [ structure |-> 2, bitrate |-> 1 ] }
MCTimes == 0 .. MaxTime
MCOffsets == { -1, 0 }

=============================================================================
