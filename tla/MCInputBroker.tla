---------------------------- MODULE MCInputBroker ----------------------------
(***************************************************************************)
(* Two slots, streams, displays and geometries, three pointers of which    *)
(* two fit in a gesture.                                                   *)
(***************************************************************************)
EXTENDS InputBroker, TLC

Symmetry == Permutations(Slot) \cup Permutations(Stream) \cup Permutations(Display)
              \cup Permutations(Geometry) \cup Permutations(Pointer)
=============================================================================
