--------------------------- MODULE MCControlLease ---------------------------
(***************************************************************************)
(* A lease longer than the reconnect interval, and that longer than a      *)
(* poll, as in production; two domains in the process and a remote one.    *)
(***************************************************************************)
EXTENDS ControlLease

CONSTANTS displays, simulation, power

MCInProcess == { displays, simulation }
MCRemote == { power }
=============================================================================
