----------------------- MODULE MCExternalStateFanout -----------------------
(***************************************************************************)
(* Two HALs, and a service that admits two: one that restarts can evict    *)
(* the other.                                                              *)
(***************************************************************************)
EXTENDS ExternalStateFanout

CONSTANTS sensors, gnss
=============================================================================
