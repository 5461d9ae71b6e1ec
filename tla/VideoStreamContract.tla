------------------------ MODULE VideoStreamContract ------------------------
(***************************************************************************)
(* What one video stream generation promises its host, packet by packet:   *)
(* every frame handed over can be decoded from the frames handed over      *)
(* before it, and every hole is announced.                                 *)
(*                                                                         *)
(* A packet is a record: kind ("config", "key", "delta" or "eos"), frame   *)
(* (the encoder's number of the frame, 0 for none), config (the version of *)
(* the decoder configuration it carries or needs, 0 when key frames carry  *)
(* their own), seq (the header's packet sequence) and disc (the            *)
(* discontinuity flag).                                                    *)
(***************************************************************************)
EXTENDS Integers

CONSTANTS
  Packet,           \* the packets a stream may carry
  Nothing           \* what was handed over last, before the first packet

VARIABLES
  last,             \* the last packet handed over
  frame,            \* the last frame handed over, 0 before the first
  skipped,          \* the packet sequence has a gap after that frame
  config            \* the last decoder configuration handed over, 0 for none

contractVars == << last, frame, skipped, config >>

ContractInit == last = Nothing /\ frame = 0 /\ skipped = FALSE /\ config = 0

\* The packet sequence the next packet is counted from.
LastSequence == IF last = Nothing THEN -1 ELSE last.seq

\* A packet is missing right before p.
Gap(p) == p.seq > LastSequence + 1

\* Frames are missing between the last one handed over and p's.
Hole(p) == frame # 0 /\ p.frame # frame + 1

HandConfig(p) ==
  /\ p.kind = "config"
  /\ config' = p.config
  /\ frame' = frame

\* A key frame decodes on its own, once its configuration has been handed over.
\* It is marked where frames are missing before it, and the sequence skips too.
HandKey(p) ==
  /\ p.kind = "key"
  /\ p.frame > frame
  /\ p.config = 0 \/ p.config = config
  /\ frame # 0 => (p.disc <=> Hole(p))
  /\ Hole(p) => skipped \/ Gap(p)
  /\ frame' = p.frame
  /\ config' = config

\* A dependent frame follows its predecessor, with no packet lost in between.
HandDelta(p) ==
  /\ p.kind = "delta"
  /\ frame # 0
  /\ ~Hole(p)
  /\ ~skipped /\ ~Gap(p)
  /\ frame' = p.frame
  /\ config' = config

HandEndOfStream(p) ==
  /\ p.kind = "eos"
  /\ UNCHANGED << frame, config >>

Hand(p) ==
  /\ last = Nothing \/ last.kind # "eos"
  /\ p.seq > LastSequence
  /\ skipped' = (p.frame = 0 /\ (skipped \/ Gap(p)))
  /\ HandConfig(p) \/ HandKey(p) \/ HandDelta(p) \/ HandEndOfStream(p)

ContractNext == last' \in Packet /\ Hand(last')

ContractSpec == ContractInit /\ [][ContractNext]_contractVars
=============================================================================
