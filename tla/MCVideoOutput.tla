--------------------------- MODULE MCVideoOutput ---------------------------
(***************************************************************************)
(* A stream of a few frames through a sink that holds three packets and    *)
(* four bytes.  A key frame weighs two: dependent frames fill the packets, *)
(* and an access point behind a key frame in flight overflows the bytes,   *)
(* so that the answer to a key frame request can be lost too.              *)
(***************************************************************************)
EXTENDS VideoOutput

MCSizeOf == [ kind \in Kinds |-> IF kind = "key" THEN 2 ELSE 1 ]
=============================================================================
