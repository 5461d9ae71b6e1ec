-------------------------- MODULE MCHostVideoSink --------------------------
(***************************************************************************)
(* A small sink: packets of three wire sizes in batches of up to two, room *)
(* for five packets and seven bytes, so that either limit alone refuses some *)
(* batch while the other still has room.                                   *)
(***************************************************************************)
EXTENDS HostVideoSink

CONSTANTS small, medium, large, bad

MCPacket == { small, medium, large, bad }
MCWireSize(p) == CASE p = medium -> 2 [] p = large -> 3 [] OTHER -> 1
MCBatches == { << >>, << small >>, << medium >>, << large >>, << small, large >>,
               << medium, medium >>, << small, bad >> }
=============================================================================
