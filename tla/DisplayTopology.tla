--------------------------- MODULE DisplayTopology ---------------------------
(***************************************************************************)
(* The external displays of the device and who hears of them:              *)
(* topology/DisplayTopologyStateService.cpp.                               *)
(*                                                                         *)
(* The control worker is the only one that replaces the displays, under    *)
(* the mutex; it calls the listeners it copied there after releasing it.   *)
(* Binder threads register and unregister listeners; the callback of a     *)
(* registration also comes after the mutex is released.  A callback is a   *)
(* oneway call: it fails for a dead process, and may fail for a live one   *)
(* whose binder buffer is full; the listener is then removed.              *)
(***************************************************************************)
EXTENDS Integers, Sequences, SequencesExt, FiniteSets

CONSTANTS
  Listener,           \* the binders of the processes that listen
  TopologyRequests    \* the display lists that may be asked for

ASSUME RequestsAreLists == \A ds \in TopologyRequests : ds \in Seq([ id : Nat, port : Nat,
  width : Nat, height : Nat, dpi : Nat, active : Nat, rates : Seq(Nat), name : Seq(STRING) ])

VARIABLES
  displays,           \* displays_
  listeners,          \* listeners_
  toTell,             \* the listeners NotifyListeners still has to call
  joining,            \* per listener: the snapshot its registration has copied
                      \* and not sent yet: "none", "current" or "stale"
  told,               \* history: who was sent the current snapshot
  dead                \* listeners whose process has died

topologyVars == << displays, listeners, toTell, joining, told, dead >>

TopologyInit ==
  /\ displays = << >>
  /\ listeners = {} /\ toTell = {}
  /\ joining = [ l \in Listener |-> "none" ]
  /\ told = {} /\ dead = {}

TopologyTypeOK ==
  /\ listeners \subseteq Listener /\ toTell \subseteq Listener
  /\ joining \in [ Listener -> { "none", "current", "stale" } ]
  /\ told \subseteq Listener /\ dead \subseteq Listener

-----------------------------------------------------------------------------
(* What a list of displays must be.  The greatest id, 2^63 - 1, is above   *)
(* any in a model.                                                         *)

IsValid(d) ==
  /\ d.id > 1 /\ d.port # 0
  /\ d.width \in 320 .. 7680 /\ d.height \in 320 .. 7680 /\ d.dpi \in 72 .. 640
  /\ d.name # << >>
  /\ ToSet(d.rates) \subseteq 1 .. 60 /\ IsInjective(d.rates)
  /\ d.active \in ToSet(d.rates)

SameDisplay_IgnoresName(left, right) ==
  [ left EXCEPT !.name = right.name ] = right

SameDisplay(left, right) == left = right

Sorted(ds) ==
  LET order == CHOOSE p \in Bijection(DOMAIN ds, DOMAIN ds) :
                 \A i, j \in DOMAIN ds : i < j => ds[p[i]].id <= ds[p[j]].id
  IN  [ i \in DOMAIN ds |-> ds[order[i]] ]

\* The first display, in order of id, that spoils the list says what is wrong.
RejectionAt(ds, i) ==
  LET before == { ds[j] : j \in 1 .. i - 1 } IN
  IF ~IsValid(ds[i]) THEN "invalid display"
  ELSE IF ds[i].id \in { d.id : d \in before } THEN "duplicate id"
  ELSE IF ds[i].port \in { d.port : d \in before } THEN "duplicate port"
  ELSE "none"

Rejection(ds) ==
  LET spoilt == { i \in DOMAIN ds : RejectionAt(ds, i) # "none" }
  IN  IF spoilt = {} THEN "none" ELSE RejectionAt(ds, Min(spoilt))

Unchanged(ds) ==
  /\ Len(ds) = Len(displays)
  /\ \A i \in DOMAIN ds : SameDisplay(ds[i], displays[i])

ReplaceResult(ds) ==
  LET sorted == Sorted(ds) IN
  IF Rejection(sorted) # "none" THEN Rejection(sorted)
  ELSE IF Unchanged(sorted) THEN "unchanged" ELSE "applied"

-----------------------------------------------------------------------------
(* The critical section of ReplaceExternalDisplays.  A registration that   *)
(* has copied its snapshot is now about to send an old one.                *)

Replaced(ds, tell) ==
  IF ReplaceResult(ds) = "applied"
  THEN /\ displays' = Sorted(ds)
       /\ toTell' = tell
       /\ told' = {}
       /\ joining' = [ l \in Listener |-> IF joining[l] = "none" THEN "none" ELSE "stale" ]
       /\ UNCHANGED << listeners, dead >>
  ELSE UNCHANGED topologyVars

\* Leaves out those that are about to be called anyway.
ReplaceExternalDisplays_SkipsJoining(ds) ==
  Replaced(ds, { l \in listeners : joining[l] = "none" })

ReplaceExternalDisplays(ds) == Replaced(ds, listeners)

\* A dead process cannot be called; a live one may not have room for the call.
Reachable(l) == IF l \in dead THEN { FALSE } ELSE BOOLEAN

\* NotifyListeners, one listener.  The order of registration plays no part.
TellListener(l) ==
  /\ l \in toTell
  /\ toTell' = toTell \ { l }
  /\ \E sent \in Reachable(l) :
       IF sent
       THEN told' = told \union { l } /\ UNCHANGED listeners
       ELSE listeners' = listeners \ { l } /\ UNCHANGED told
  /\ UNCHANGED << displays, joining, dead >>

\* registerListener, before and after the mutex is released.
RegisterListener(l) ==
  /\ l \notin dead /\ joining[l] = "none"
  /\ listeners' = listeners \union { l }
  /\ joining' = [ joining EXCEPT ![l] = "current" ]
  /\ UNCHANGED << displays, toTell, told, dead >>

RegistrationCallback(l) ==
  /\ joining[l] # "none"
  /\ joining' = [ joining EXCEPT ![l] = "none" ]
  /\ \E sent \in Reachable(l) :
       IF sent
       THEN /\ told' = IF joining[l] = "current" THEN told \union { l } ELSE told
            /\ UNCHANGED listeners
       ELSE listeners' = listeners \ { l } /\ UNCHANGED told
  /\ UNCHANGED << displays, toTell, dead >>

UnregisterListener(l) ==
  /\ l \notin dead /\ joining[l] = "none" /\ l \in listeners
  /\ listeners' = listeners \ { l }
  /\ UNCHANGED << displays, toTell, joining, told, dead >>

ListenerDies(l) ==
  /\ l \notin dead
  /\ dead' = dead \union { l }
  /\ UNCHANGED << displays, listeners, toTell, joining, told >>

ListenerStep(l) ==
  \/ RegisterListener(l) \/ RegistrationCallback(l)
  \/ UnregisterListener(l) \/ ListenerDies(l)

\* One control worker: it replaces the displays once the last round is told.
WorkerReplaces == toTell = {} /\ \E ds \in TopologyRequests : ReplaceExternalDisplays(ds)

TopologyNext == WorkerReplaces \/ \E l \in Listener : TellListener(l) \/ ListenerStep(l)

TopologySpec == TopologyInit /\ [][TopologyNext]_topologyVars

-----------------------------------------------------------------------------
(* Whoever is registered has been sent the displays as they are, or a call *)
(* that will send them is on its way: the worker's, or the one of its      *)
(* registration.  A registration that overlaps a change is the hard case:  *)
(* its own callback carries the old displays, and only its entry in the    *)
(* list the worker copies saves it (registerListener adds the listener and *)
(* copies the snapshot under one lock).                                    *)
ListenersHear ==
  \A l \in listeners : l \in told \/ l \in toTell \/ joining[l] = "current"
=============================================================================
