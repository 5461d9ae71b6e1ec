----------------------------- MODULE InputBroker -----------------------------
(***************************************************************************)
(* The FDO1 input broker: InputStateMachine.java, whose methods are        *)
(* synchronized; OperationServer.java, whose one thread serves one host    *)
(* connection at a time; and DisplayTargetResolver.java, which calls back  *)
(* on the main thread when a display changes.                              *)
(*                                                                         *)
(* A touch event is abstracted to its slot, epoch, action and pointer and  *)
(* to whether its sequence number is fresh; coordinates play no part.  An  *)
(* injection that reports failure may still have been delivered            *)
(* (WAIT_FOR_RESULT), and the host is taken to remember the epochs it was  *)
(* told are invalid.                                                       *)
(***************************************************************************)
EXTENDS Integers, FiniteSets, Sequences

CONSTANTS
  Slot, Stream, Display, Geometry, Pointer,
  MaxPointers,     \* pointers of one gesture
  None,            \* an unbound slot, a null descriptor, a display that is gone
  MaxEpoch,        \* model bound: bindings made
  MaxChanges       \* model bound: display changes

ASSUME InputAssumption ==
  /\ { MaxPointers, MaxEpoch, MaxChanges } \subseteq Nat \ {0}
  /\ None \notin Geometry

VARIABLES
  targets,         \* InputStateMachine::targets
  nextEpoch,
  server,          \* where the operation thread is
  job,             \* the bind or unbind it is serving
  activeOutput,    \* OperationServer::activeOutput # null
  listener,        \* where the main thread is in onDisplayChanged
  change,          \* the display and descriptor it passes on
  invalidated,     \* the epochs whose invalidation it has still to write
  displays,        \* the display manager: the geometry of each display
  notices,         \* display events posted to the main thread
  changes,
  android,         \* the framework: pointers down on each display, and whether a
                   \* failed CANCEL left them there
  hostUp,          \* the host's end of the connection is open
  hostBound,       \* the epoch the host was last told for each slot, 0 for none
  hostDead         \* the epochs the host was told are invalid, on this connection

serverVars == << server, job, activeOutput >>
listenerVars == << listener, change, invalidated >>
displayVars == << displays, notices, changes >>
hostVars == << hostUp, hostBound, hostDead >>
vars == << targets, nextEpoch, serverVars, listenerVars, displayVars, android, hostVars >>

Epoch == 1 .. MaxEpoch
Target == [ display : Display, stream : Stream, geometry : Geometry, epoch : Epoch,
            pointers : SUBSET Pointer ]

ASSUME NoneAssumption == None \notin Target

Touches == [ down : SUBSET Pointer, lost : BOOLEAN ]
Job == [ slot : Slot, stream : Stream \cup {None}, display : Display \cup {None},
         geometry : Geometry \cup {None}, epoch : 0 .. MaxEpoch, applied : BOOLEAN ]
Change == [ display : Display, geometry : Geometry \cup {None} ]

Untouched == [ down |-> {}, lost |-> FALSE ]

TypeOK ==
  /\ targets \in [ Slot -> Target \cup {None} ]
  /\ \A s \in Slot : targets[s] # None => Cardinality(targets[s].pointers) <= MaxPointers
  /\ nextEpoch \in 1 .. MaxEpoch + 1
  /\ server \in { "accepting", "reading", "resolved", "writing", "closing" }
  /\ job \in Job \cup {None}
  /\ activeOutput \in BOOLEAN
  /\ listener \in { "idle", "fetched", "reporting" }
  /\ change \in Change \cup {None}
  /\ invalidated \subseteq Epoch
  /\ displays \in [ Display -> Geometry \cup {None} ]
  /\ notices \in Seq([ display : Display, removed : BOOLEAN ])
  /\ changes \in 0 .. MaxChanges
  /\ android \in [ Display -> Touches ]
  /\ hostUp \in BOOLEAN
  /\ hostBound \in [ Slot -> 0 .. MaxEpoch ]
  /\ hostDead \subseteq Epoch

Init ==
  /\ targets = [ s \in Slot |-> None ]
  /\ nextEpoch = 1
  /\ server = "accepting" /\ job = None /\ activeOutput = FALSE
  /\ listener = "idle" /\ change = None /\ invalidated = {}
  /\ displays \in [ Display -> Geometry ]
  /\ notices = << >> /\ changes = 0
  /\ android = [ d \in Display |-> Untouched ]
  /\ hostUp = FALSE
  /\ hostBound = [ s \in Slot |-> 0 ] /\ hostDead = {}

Bound == { s \in Slot : targets[s] # None }

-----------------------------------------------------------------------------
(* Injection.  An outcome is what the framework holds afterwards. *)

\* CANCEL for the gesture of a display: done, or failed.
Cancelled(a) ==
  { Untouched } \cup { [ down |-> a.down, lost |-> a.down # {} ] }

CancelPointers(a, t) == IF t.pointers = {} THEN { a } ELSE Cancelled(a)

Reject(a, t) == { [ pointers |-> {}, android |-> c ] : c \in CancelPointers(a, t) }

\* A motion after which pointers are down: delivered; or reported failed, delivered or
\* not, and then cancelled.
Inject(a, t, pointers) ==
  LET delivered == [ down |-> pointers, lost |-> FALSE ]
      exists == displays[t.display] # None
      maybe == { a } \cup (IF exists THEN { delivered } ELSE {})
  IN  (IF exists THEN { [ pointers |-> pointers, android |-> delivered ] } ELSE {})
      \cup { [ pointers |-> {}, android |-> c ] : c \in UNION { Cancelled(b) : b \in maybe } }

PointerDown(a, t, p) ==
  IF p \in t.pointers \/ Cardinality(t.pointers) >= MaxPointers
  THEN Reject(a, t)
  ELSE Inject(a, t, t.pointers \cup {p})

PointerMove(a, t, p) == IF p \notin t.pointers THEN Reject(a, t) ELSE Inject(a, t, t.pointers)

PointerUp(a, t, p) == IF p \notin t.pointers THEN Reject(a, t) ELSE Inject(a, t, t.pointers \ {p})

\* cancelPointers for each slot of a set, each on a display of its own.
CancelAll(slots) ==
  LET held(d) == \E s \in slots : targets[s].display = d /\ targets[s].pointers # {}
      possible == UNION { Cancelled(android[d]) \cup { android[d] } : d \in Display }
  IN  android' \in { f \in [ Display -> possible ] :
                       \A d \in Display :
                         IF held(d) THEN f[d] \in Cancelled(android[d]) ELSE f[d] = android[d] }

Forget(slots) == targets' = [ s \in Slot |-> IF s \in slots THEN None ELSE targets[s] ]

-----------------------------------------------------------------------------
(* The operation thread *)

Accept ==
  /\ server = "accepting"
  /\ server' = "reading"
  /\ activeOutput' = TRUE
  /\ hostUp' = TRUE
  /\ hostBound' = [ s \in Slot |-> 0 ]
  /\ hostDead' = {}
  /\ UNCHANGED << targets, nextEpoch, job, listenerVars, displayVars, android >>

\* handleBind resolves the port outside the state machine's lock.
ResolveBind ==
  /\ server = "reading"
  /\ hostUp
  /\ \E s \in Slot, m \in Stream, d \in Display :
       job' = [ slot |-> s, stream |-> m, display |-> d,
                geometry |-> displays[d], epoch |-> 0, applied |-> FALSE ]
  /\ server' = "resolved"
  /\ UNCHANGED << targets, nextEpoch, activeOutput, listenerVars, displayVars, android, hostVars >>

SameBinding(t) == t.stream = job.stream /\ t.display = job.display /\ t.geometry = job.geometry

Busy_StreamOnly == \E s \in Bound \ { job.slot } : targets[s].stream = job.stream
Busy == \E s \in Bound \ { job.slot } :
          targets[s].display = job.display \/ targets[s].stream = job.stream

Answer(epoch) ==
  /\ job' = [ job EXCEPT !.epoch = epoch, !.applied = epoch # 0 ]
  /\ server' = "writing"
  /\ UNCHANGED << activeOutput, listenerVars, displayVars, hostVars >>

BindUnchanged ==
  /\ server = "resolved"
  /\ job.geometry # None
  /\ job.slot \in Bound /\ SameBinding(targets[job.slot])
  /\ Answer(targets[job.slot].epoch)
  /\ UNCHANGED << targets, nextEpoch, android >>

BindRefused ==
  /\ server = "resolved"
  /\ \/ job.geometry = None
     \/ Busy /\ ~(job.slot \in Bound /\ SameBinding(targets[job.slot]))
  /\ Answer(0)
  /\ UNCHANGED << targets, nextEpoch, android >>

AllocateEpoch == nextEpoch

CancelReplaced_Skipped == android' = android
CancelReplaced == CancelAll(Bound \cap { job.slot })

BindApplied ==
  /\ server = "resolved"
  /\ job.geometry # None
  /\ ~Busy
  /\ ~(job.slot \in Bound /\ SameBinding(targets[job.slot]))
  /\ nextEpoch <= MaxEpoch
  /\ CancelReplaced
  /\ targets' = [ targets EXCEPT ![job.slot] =
                    [ display |-> job.display, stream |-> job.stream, geometry |-> job.geometry,
                      epoch |-> AllocateEpoch, pointers |-> {} ] ]
  /\ nextEpoch' = nextEpoch + 1
  /\ Answer(AllocateEpoch)

Unbind ==
  /\ server = "reading"
  /\ hostUp
  /\ \E s \in Slot :
       /\ job' = [ slot |-> s, stream |-> None, display |-> None, geometry |-> None, epoch |-> 0,
                   applied |-> s \in Bound ]
       /\ CancelAll(Bound \cap {s})
       /\ Forget({s})
  /\ server' = "writing"
  /\ UNCHANGED << nextEpoch, activeOutput, listenerVars, displayVars, hostVars >>

\* The response; a host that has gone does not get it.
WriteResponse ==
  /\ server = "writing"
  /\ server' = "reading"
  /\ job' = None
  /\ hostBound' = IF job.applied THEN [ hostBound EXCEPT ![job.slot] = job.epoch ] ELSE hostBound
  /\ UNCHANGED << targets, nextEpoch, activeOutput, listenerVars, displayVars, android, hostUp,
                  hostDead >>

\* onTouch; a malformed event cancels the gesture of the slot it names.
Touched(s, outcomes) ==
  \E o \in outcomes :
    /\ targets' = [ targets EXCEPT ![s].pointers = o.pointers ]
    /\ android' = [ android EXCEPT ![targets[s].display] = o.android ]

OnTouch ==
  /\ server = "reading"
  /\ hostUp
  /\ \E s \in Bound, p \in Pointer :
       LET t == targets[s]
           a == android[t.display]
       IN  Touched(s, PointerDown(a, t, p) \cup PointerMove(a, t, p) \cup PointerUp(a, t, p)
                        \cup Reject(a, t))
  /\ UNCHANGED << nextEpoch, serverVars, listenerVars, displayVars, hostVars >>

HostDisconnects ==
  /\ hostUp
  /\ hostUp' = FALSE
  /\ UNCHANGED << targets, nextEpoch, serverVars, listenerVars, displayVars, android, hostBound,
                  hostDead >>

\* The finally block: the output first, then resetAll.
CloseOutput ==
  /\ server = "reading"
  /\ ~hostUp
  /\ activeOutput' = FALSE
  /\ server' = "closing"
  /\ UNCHANGED << targets, nextEpoch, job, listenerVars, displayVars, android, hostVars >>

ResetAll_RestartsEpochs ==
  /\ server = "closing"
  /\ CancelAll(Bound)
  /\ Forget(Slot)
  /\ nextEpoch' = 1
  /\ server' = "accepting"
  /\ UNCHANGED << job, activeOutput, listenerVars, displayVars, hostVars >>

ResetAll ==
  /\ server = "closing"
  /\ CancelAll(Bound)
  /\ Forget(Slot)
  /\ server' = "accepting"
  /\ UNCHANGED << nextEpoch, job, activeOutput, listenerVars, displayVars, hostVars >>

-----------------------------------------------------------------------------
(* The main thread *)

\* A removal is passed on as such; a change is passed on as the display is by now.
FetchDescriptor ==
  /\ listener = "idle"
  /\ notices # << >>
  /\ change' = [ display |-> Head(notices).display,
                 geometry |-> IF Head(notices).removed THEN None ELSE displays[Head(notices).display] ]
  /\ notices' = Tail(notices)
  /\ listener' = "fetched"
  /\ UNCHANGED << targets, nextEpoch, serverVars, invalidated, displays, changes, android, hostVars >>

Affected ==
  { s \in Bound : targets[s].display = change.display /\ targets[s].geometry # change.geometry }

HandleDisplayChange ==
  /\ listener = "fetched"
  /\ CancelAll(Affected)
  /\ Forget(Affected)
  /\ invalidated' = { targets[s].epoch : s \in Affected }
  /\ change' = None
  /\ listener' = IF Affected = {} THEN "idle" ELSE "reporting"
  /\ UNCHANGED << nextEpoch, serverVars, displayVars, hostVars >>

\* The event goes to whatever connection is active by now.
OnTargetInvalidated ==
  /\ listener = "reporting"
  /\ \E e \in invalidated :
       /\ invalidated' = invalidated \ {e}
       /\ hostDead' = IF activeOutput THEN hostDead \cup {e} ELSE hostDead
  /\ listener' = IF invalidated' = {} THEN "idle" ELSE "reporting"
  /\ UNCHANGED << targets, nextEpoch, serverVars, change, displayVars, android, hostUp, hostBound >>

-----------------------------------------------------------------------------
(* The display manager.  A display that goes takes its touches with it; adding one is
   not reported. *)

DisplayChanges ==
  /\ changes < MaxChanges
  /\ \E d \in Display, g \in Geometry \cup {None} :
       /\ g # displays[d]
       /\ displays' = [ displays EXCEPT ![d] = g ]
       /\ notices' = IF displays[d] = None THEN notices
                     ELSE Append(notices, [ display |-> d, removed |-> g = None ])
       /\ android' = IF g = None THEN [ android EXCEPT ![d] = Untouched ] ELSE android
  /\ changes' = changes + 1
  /\ UNCHANGED << targets, nextEpoch, serverVars, listenerVars, hostVars >>

OperationServer ==
  \/ Accept
  \/ ResolveBind \/ BindUnchanged \/ BindRefused \/ BindApplied \/ Unbind \/ WriteResponse
  \/ OnTouch
  \/ CloseOutput \/ ResetAll

MainThread == FetchDescriptor \/ HandleDisplayChange \/ OnTargetInvalidated

Next == OperationServer \/ MainThread \/ DisplayChanges \/ HostDisconnects

Spec == Init /\ [][Next]_vars

-----------------------------------------------------------------------------
(* Properties *)

\* Displays and streams are leased exclusively, whatever is rebound or invalidated in
\* between (bind): no two slots share a display, a stream or an epoch.
ExclusiveLeases ==
  \A s, u \in Bound : s # u =>
    /\ targets[s].display # targets[u].display
    /\ targets[s].stream # targets[u].stream
    /\ targets[s].epoch # targets[u].epoch

\* Unless a CANCEL itself failed, the framework holds exactly the pointers of the one
\* slot bound to the display: no rebinding, unbinding, invalidation, disconnection or
\* failed motion leaves a pointer down that no slot owns (InputStateMachine).
PointersAreOwned ==
  \A d \in Display : android[d].down # {} /\ ~android[d].lost =>
    \E s \in Bound : targets[s].display = d /\ targets[s].pointers = android[d].down

\* Once the events in progress have been written, the host that remembers what it was
\* told knows which slots are bound and under which epoch - also when the
\* invalidation overtakes the bind response, or comes from an earlier connection.
HostKnowsItsBindings ==
  hostUp /\ server = "reading" /\ listener # "reporting" =>
    \A s \in Slot :
      IF s \in Bound THEN hostBound[s] = targets[s].epoch /\ targets[s].epoch \notin hostDead
      ELSE hostBound[s] = 0 \/ hostBound[s] \in hostDead

\* FDO1: when a bound display's geometry changes, the host is told and the binding ends.
\* A change between handleBind's resolution of the port and its bind is reported
\* before there is a target to invalidate.
BoundGeometryIsCurrent ==
  notices = << >> /\ listener = "idle" =>
    \A s \in Bound : targets[s].geometry = displays[targets[s].display]
=============================================================================
