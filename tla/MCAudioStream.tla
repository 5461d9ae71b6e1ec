--------------------------- MODULE MCAudioStream ---------------------------
(***************************************************************************)
(* Two outputs of a HAL, a sink queue of two packets.                      *)
(***************************************************************************)
EXTENDS AudioStream
=============================================================================
