-------------------------- MODULE MCEncoderSession --------------------------
(* A small instance of EncoderSession for TLC. *)
EXTENDS EncoderSession

MCPlatforms == {"x86_64", "arm"}
MCRequests == {"auto"}
MCDevices == {1}
MCBitrates == {1, 2}
=============================================================================
