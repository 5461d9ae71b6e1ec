----------------------- MODULE MCSimulationConfigSync -----------------------
(***************************************************************************)
(* One HAL client: the races are between it, the control worker and the    *)
(* binder thread that registers it; clients share nothing but the worker's *)
(* notification round.                                                     *)
(***************************************************************************)
EXTENDS SimulationConfigSync

CONSTANT sensors
=============================================================================
