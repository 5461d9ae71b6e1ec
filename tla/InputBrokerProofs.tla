-------------------------- MODULE InputBrokerProofs --------------------------
(***************************************************************************)
(* Proofs about InputBroker, for any sets of slots, streams, displays,     *)
(* geometries and pointers, and any number of bindings and changes.        *)
(***************************************************************************)
EXTENDS InputBroker, FiniteSetTheorems, SequenceTheorems, TLAPS

-----------------------------------------------------------------------------
(* What an injection leaves                                                *)

(* A pointer the framework holds, and not for want of a CANCEL.            *)
Held(a) == a.down # {} /\ ~a.lost

(* A CANCEL leaves nothing held (InputStateMachine.cancelPointers).        *)
LEMMA CancelledIsNotHeld ==
  ASSUME NEW a \in Touches, NEW c \in Cancelled(a)
  PROVE  c \in Touches /\ ~Held(c)
<1>1. CASE c = Untouched
  BY <1>1 DEF Untouched, Touches, Held
<1>2. CASE c = [ down |-> a.down, lost |-> a.down # {} ]
  <2>1. c.down = a.down /\ a.down \in SUBSET Pointer /\ (c.lost <=> a.down # {})
    BY <1>2 DEF Touches
  <2>2. c \in Touches
    BY <1>2, <2>1 DEF Touches
  <2> QED
    BY <2>1, <2>2 DEF Held
<1> QED
  BY <1>1, <1>2 DEF Cancelled

(* The ways a touch event can end (PointerDown, PointerMove, PointerUp,    *)
(* Reject): what is held is what the slot records, or was held before.     *)
Sound(a, t, o) ==
  /\ o.android \in Touches
  /\ o.pointers \in SUBSET Pointer /\ IsFiniteSet(o.pointers)
  /\ Cardinality(o.pointers) <= MaxPointers
  /\ Held(o.android) => \/ o.pointers = o.android.down
                        \/ o.android = a /\ t.pointers = {}

Small(pointers) ==
  /\ pointers \in SUBSET Pointer
  /\ IsFiniteSet(pointers) /\ Cardinality(pointers) <= MaxPointers

\* No pointer at all is within MaxPointers.
LEMMA NoPointersAreSmall == Small({})
BY FS_EmptySet, InputAssumption DEF Small, InputAssumption

\* A rejected touch cancels the gesture: nothing is down afterwards, whether Android took it or not.
LEMMA RejectIsSound ==
  ASSUME NEW a \in Touches, NEW t, NEW o \in Reject(a, t)
  PROVE  Sound(a, t, o)
<1>1. PICK c \in CancelPointers(a, t) : o = [ pointers |-> {}, android |-> c ]
  BY DEF Reject
<1>2. o.pointers = {} /\ o.android = c
  BY <1>1
<1>3. CASE t.pointers = {}
  <2>1. c = a
    BY <1>1, <1>3 DEF CancelPointers
  <2> QED
    BY <1>2, <1>3, <2>1, NoPointersAreSmall DEF Sound, Small
<1>4. CASE t.pointers # {}
  <2>1. c \in Cancelled(a)
    BY <1>1, <1>4 DEF CancelPointers
  <2> QED
    BY <1>2, <2>1, CancelledIsNotHeld, NoPointersAreSmall DEF Sound, Small
<1> QED
  BY <1>3, <1>4

\* An injected event leaves Android with the pointers it names, or loses the gesture.
LEMMA InjectIsSound ==
  ASSUME NEW a \in Touches, NEW t, NEW pointers, Small(pointers),
         NEW o \in Inject(a, t, pointers)
  PROVE  Sound(a, t, o)
<1> DEFINE delivered == [ down |-> pointers, lost |-> FALSE ]
<1>1. delivered \in Touches
  BY DEF Touches, Small
<1>2. \/ o = [ pointers |-> pointers, android |-> delivered ]
      \/ \E b \in { a, delivered } : \E c \in Cancelled(b) : o = [ pointers |-> {}, android |-> c ]
  BY DEF Inject
<1>3. CASE o = [ pointers |-> pointers, android |-> delivered ]
  BY <1>1, <1>3 DEF Sound, Small
<1>4. ASSUME NEW b \in { a, delivered }, NEW c \in Cancelled(b),
             o = [ pointers |-> {}, android |-> c ]
      PROVE  Sound(a, t, o)
  <2>1. o.pointers = {} /\ o.android = c /\ b \in Touches
    BY <1>1, <1>4
  <2> QED
    BY <1>4, <2>1, CancelledIsNotHeld, NoPointersAreSmall DEF Sound, Small
<1> QED
  BY <1>2, <1>3, <1>4

\* Each of the ways a touch can end is one of the outcomes above.
LEMMA TouchIsSound ==
  ASSUME NEW a \in Touches, NEW t \in Target, Small(t.pointers), NEW p \in Pointer,
         NEW o \in PointerDown(a, t, p) \cup PointerMove(a, t, p) \cup PointerUp(a, t, p)
                     \cup Reject(a, t)
  PROVE  Sound(a, t, o)
<1>1. CASE o \in Reject(a, t)
  BY <1>1, RejectIsSound
<1>2. CASE o \in Inject(a, t, t.pointers \cup {p}) /\ ~(p \in t.pointers)
           /\ ~(Cardinality(t.pointers) >= MaxPointers)
  <2>1. IsFiniteSet(t.pointers \cup {p}) /\ Cardinality(t.pointers \cup {p}) = Cardinality(t.pointers) + 1
    BY <1>2, FS_AddElement DEF Small
  <2>2. Small(t.pointers \cup {p})
    BY <1>2, <2>1, FS_CardinalityType, InputAssumption DEF Small, InputAssumption
  <2> QED
    BY <1>2, <2>2, InjectIsSound
<1>3. CASE o \in Inject(a, t, t.pointers)
  BY <1>3, InjectIsSound
<1>4. CASE o \in Inject(a, t, t.pointers \ {p})
  <2>1. IsFiniteSet(t.pointers \ {p}) /\ Cardinality(t.pointers \ {p}) <= Cardinality(t.pointers)
    BY FS_Subset DEF Small
  <2>2. Small(t.pointers \ {p})
    BY <2>1, FS_CardinalityType, InputAssumption DEF Small, InputAssumption
  <2> QED
    BY <1>4, <2>2, InjectIsSound
<1> QED
  BY <1>1, <1>2, <1>3, <1>4 DEF PointerDown, PointerMove, PointerUp

(* cancelPointers for a set of slots: each display is left as it was, or   *)
(* not held.                                                               *)
LEMMA CancelAllIsSound ==
  ASSUME android \in [ Display -> Touches ], NEW slots, CancelAll(slots)
  PROVE  /\ android' \in [ Display -> Touches ]
         /\ \A d \in Display : Held(android'[d]) =>
              /\ android'[d] = android[d]
              /\ \A s \in slots : targets[s].display = d => targets[s].pointers = {}
<1> DEFINE held(d) == \E s \in slots : targets[s].display = d /\ targets[s].pointers # {}
           possible == UNION { Cancelled(android[d]) \cup { android[d] } : d \in Display }
<1>1. /\ android' \in [ Display -> possible ]
      /\ \A d \in Display : IF held(d) THEN android'[d] \in Cancelled(android[d])
                                       ELSE android'[d] = android[d]
  BY DEF CancelAll
<1>2. ASSUME NEW d \in Display
      PROVE  /\ android'[d] \in Touches
             /\ Held(android'[d]) => android'[d] = android[d] /\ ~held(d)
  BY <1>1, CancelledIsNotHeld
<1>3. android' \in [ Display -> Touches ]
  BY <1>1, <1>2
<1> QED
  BY <1>2, <1>3

-----------------------------------------------------------------------------
(* Types                                                                   *)

(* TypeOK is inductive with what it leaves out: gestures are finite, and   *)
(* the operation and main threads hold what they work on.                  *)
Types ==
  /\ TypeOK
  /\ \A s \in Bound : Small(targets[s].pointers)
  /\ server \in { "resolved", "writing" } => job \in Job
  /\ server = "resolved" => job.stream \in Stream /\ job.display \in Display
  /\ listener = "fetched" => change \in Change

(* A slot that is bound has a target.                                      *)
LEMMA BoundHasTarget ==
  ASSUME targets \in [ Slot -> Target \cup {None} ]
  PROVE  /\ \A s \in Slot : s \in Bound <=> targets[s] \in Target
         /\ \A s \in Slot : s \notin Bound <=> targets[s] = None
BY NoneAssumption DEF Bound

(* Small gestures are what TypeOK asks of targets.                         *)
LEMMA SmallTypes ==
  ASSUME targets' \in [ Slot -> Target \cup {None} ],
         \A s \in Bound' : Small(targets'[s].pointers)
  PROVE  \A s \in Slot : targets'[s] # None => Cardinality(targets'[s].pointers) <= MaxPointers
BY DEF Bound, Small

(* The three ways targets change.                                          *)
LEMMA ForgetTargets ==
  ASSUME targets \in [ Slot -> Target \cup {None} ], NEW slots, Forget(slots)
  PROVE  /\ targets' \in [ Slot -> Target \cup {None} ]
         /\ Bound' = Bound \ slots
         /\ \A s \in Bound' : s \in Bound /\ targets'[s] = targets[s]
BY DEF Forget, Bound

\* BindApplied gives one slot a fresh binding and keeps or forgets the others.
LEMMA BindTargets ==
  ASSUME Types, BindApplied
  PROVE  /\ targets' \in [ Slot -> Target \cup {None} ]
         /\ Bound' = Bound \cup { job.slot } /\ job.slot \in Slot
         /\ targets'[job.slot].display = job.display /\ targets'[job.slot].stream = job.stream
         /\ targets'[job.slot].epoch = nextEpoch /\ targets'[job.slot].pointers = {}
         /\ \A s \in Bound' \ { job.slot } : s \in Bound /\ targets'[s] = targets[s]
<1> DEFINE t == [ display |-> job.display, stream |-> job.stream, geometry |-> job.geometry,
                  epoch |-> AllocateEpoch, pointers |-> {} ]
<1>1. /\ targets' = [ targets EXCEPT ![job.slot] = t ]
      /\ job \in Job /\ job.stream \in Stream /\ job.display \in Display
      /\ job.geometry # None /\ nextEpoch <= MaxEpoch
      /\ targets \in [ Slot -> Target \cup {None} ] /\ nextEpoch \in 1 .. MaxEpoch + 1
  BY DEF BindApplied, Types, TypeOK
<1>2. nextEpoch \in Epoch
  BY <1>1, InputAssumption DEF Epoch, InputAssumption
<1>3. t \in Target /\ job.slot \in Slot
  BY <1>1, <1>2 DEF Target, Job, AllocateEpoch
<1>4. /\ t.display = job.display /\ t.stream = job.stream /\ t.epoch = nextEpoch /\ t.pointers = {}
  BY DEF AllocateEpoch
<1> HIDE DEF t
<1>5. targets'[job.slot] = t /\ \A s \in Slot \ { job.slot } : targets'[s] = targets[s]
  BY <1>1, <1>3
<1>6. targets' \in [ Slot -> Target \cup {None} ]
  BY <1>1, <1>3
<1>7. Bound' = Bound \cup { job.slot }
  BY <1>3, <1>5, NoneAssumption DEF Bound
<1>8. ASSUME NEW s \in Bound' \ { job.slot }
      PROVE  s \in Bound /\ targets'[s] = targets[s]
  BY <1>5, <1>7 DEF Bound
<1> QED
  BY <1>3, <1>4, <1>5, <1>6, <1>7, <1>8

EndsIn(s, o) ==
  /\ Sound(android[targets[s].display], targets[s], o)
  /\ android' = [ android EXCEPT ![targets[s].display] = o.android ]
  /\ targets'[s].pointers = o.pointers
  /\ \A u \in Bound \ {s} : targets'[u] = targets[u]

\* A touch changes the pointers of the binding it names and nothing else of any binding.
LEMMA TouchTargets ==
  ASSUME Types, OnTouch
  PROVE  /\ targets' \in [ Slot -> Target \cup {None} ]
         /\ Bound' = Bound
         /\ \A s \in Bound : /\ targets'[s].display = targets[s].display
                             /\ targets'[s].stream = targets[s].stream
                             /\ targets'[s].epoch = targets[s].epoch
         /\ \E s \in Bound : \E o : EndsIn(s, o)
<1>1. /\ targets \in [ Slot -> Target \cup {None} ]
      /\ android \in [ Display -> Touches ]
  BY DEF Types, TypeOK
<1>2. PICK s \in Bound, p \in Pointer :
        LET t == targets[s]
            a == android[t.display]
        IN  Touched(s, PointerDown(a, t, p) \cup PointerMove(a, t, p) \cup PointerUp(a, t, p)
                         \cup Reject(a, t))
  BY DEF OnTouch
<1> DEFINE t == targets[s]
           a == android[t.display]
<1>3. PICK o \in PointerDown(a, t, p) \cup PointerMove(a, t, p) \cup PointerUp(a, t, p)
                   \cup Reject(a, t) :
        /\ targets' = [ targets EXCEPT ![s].pointers = o.pointers ]
        /\ android' = [ android EXCEPT ![t.display] = o.android ]
  BY <1>2 DEF Touched
<1>4. s \in Slot /\ t \in Target /\ Small(t.pointers)
  BY <1>1, BoundHasTarget DEF Types, Bound
<1>5. a \in Touches
  BY <1>1, <1>4 DEF Target
<1> HIDE DEF a
<1>6. Sound(a, t, o)
  BY <1>4, <1>5, TouchIsSound
<1>7. targets'[s] = [ t EXCEPT !.pointers = o.pointers ]
  BY <1>1, <1>3, <1>4
<1>8. /\ targets'[s] \in Target /\ targets'[s].pointers = o.pointers
      /\ targets'[s].display = t.display /\ targets'[s].stream = t.stream
      /\ targets'[s].epoch = t.epoch
  BY <1>4, <1>6, <1>7 DEF Target, Sound
<1>9. \A u \in Slot \ {s} : targets'[u] = targets[u]
  BY <1>1, <1>3, <1>4
<1>10. targets' \in [ Slot -> Target \cup {None} ]
  <2>1. \A u \in Slot : targets'[u] \in Target \cup {None}
    BY <1>1, <1>8, <1>9
  <2>2. DOMAIN targets' = Slot /\ targets' = [ u \in Slot |-> targets'[u] ]
    BY <1>1, <1>3
  <2> QED
    BY <2>1, <2>2
<1>11. Bound' = Bound
  BY <1>4, <1>8, <1>9, NoneAssumption DEF Bound
<1>12. \A u \in Bound \ {s} : targets'[u] = targets[u]
  BY <1>9 DEF Bound
<1> QED
  BY <1>3, <1>6, <1>8, <1>10, <1>11, <1>12 DEF a, EndsIn

(* The answer to a bind (handleBind).                                      *)
LEMMA AnswerTypes ==
  ASSUME job \in Job, NEW e \in 0 .. MaxEpoch, Answer(e)
  PROVE  /\ job' \in Job /\ server' = "writing"
         /\ job'.slot = job.slot /\ job'.epoch = e /\ (job'.applied <=> e # 0)
         /\ UNCHANGED << activeOutput, listener, change, invalidated, displays, notices, changes,
                        hostUp, hostBound, hostDead >>
<1> DEFINE applied == e # 0
<1>1. job' = [ job EXCEPT !.epoch = e, !.applied = applied ] /\ applied \in BOOLEAN
  BY DEF Answer
<1>2. job'.applied = applied /\ job'.epoch = e /\ job'.slot = job.slot /\ job' \in Job
  <2> HIDE DEF applied
  <2> QED
    BY <1>1 DEF Job
<1> QED
  BY <1>2 DEF Answer, listenerVars, displayVars, hostVars

(* TypeOK holds in every reachable state.                                  *)
THEOREM BrokerTypes == Spec => []Types
<1>1. Init => Types
  <2> SUFFICES ASSUME Init PROVE Types
    OBVIOUS
  <2>1. /\ Bound = {}
        /\ targets \in [ Slot -> Target \cup {None} ]
    BY DEF Init, Bound
  <2>2. nextEpoch \in 1 .. MaxEpoch + 1 /\ changes \in 0 .. MaxChanges
        /\ hostBound \in [ Slot -> 0 .. MaxEpoch ]
    BY InputAssumption DEF Init, InputAssumption
  <2>3. notices \in Seq([ display : Display, removed : BOOLEAN ])
    BY EmptySeq DEF Init
  <2>4. android \in [ Display -> Touches ]
    BY DEF Init, Untouched, Touches
  <2>5. displays \in [ Display -> Geometry \cup {None} ]
    BY DEF Init
  <2>6. \A s \in Slot : targets[s] = None
    BY DEF Init
  <2> QED
    BY <2>1, <2>2, <2>3, <2>4, <2>5, <2>6 DEF Types, TypeOK, Init
<1>2. Types /\ [Next]_vars => Types'
  <2> SUFFICES ASSUME Types, [Next]_vars PROVE Types'
    OBVIOUS
  <2> USE DEF Types, TypeOK, serverVars, listenerVars, displayVars, hostVars
  <2>1. CASE Accept
    BY <2>1, InputAssumption DEF Accept, Bound, InputAssumption
  <2>2. CASE ResolveBind
    BY <2>2, InputAssumption DEF ResolveBind, Bound, Job, InputAssumption
  <2>3. CASE BindUnchanged
    <3>1. targets[job.slot].epoch \in 0 .. MaxEpoch
      BY <2>3, BoundHasTarget DEF BindUnchanged, Bound, Target, Epoch
    <3> QED
      BY <2>3, <3>1, AnswerTypes DEF BindUnchanged, Bound
  <2>4. CASE BindRefused
    <3>1. 0 \in 0 .. MaxEpoch
      BY InputAssumption DEF InputAssumption
    <3> QED
      BY <2>4, <3>1, AnswerTypes DEF BindRefused, Bound
  <2>5. CASE BindApplied
    <3>0. nextEpoch \in 0 .. MaxEpoch /\ nextEpoch' \in 1 .. MaxEpoch + 1
      BY <2>5, InputAssumption DEF BindApplied, InputAssumption
    <3>1. /\ job' \in Job /\ server' = "writing"
          /\ UNCHANGED << activeOutput, listenerVars, displayVars, hostVars >>
      BY <2>5, <3>0, AnswerTypes DEF BindApplied, AllocateEpoch
    <3>2. android' \in [ Display -> Touches ]
      BY <2>5, CancelAllIsSound DEF BindApplied, CancelReplaced
    <3>3. targets' \in [ Slot -> Target \cup {None} ] /\ \A s \in Bound' : Small(targets'[s].pointers)
      BY <2>5, BindTargets, NoPointersAreSmall
    <3> QED
      BY <3>0, <3>1, <3>2, <3>3, SmallTypes
  <2>6. CASE Unbind
    <3>1. PICK s \in Slot :
            /\ job' = [ slot |-> s, stream |-> None, display |-> None, geometry |-> None, epoch |-> 0,
                        applied |-> s \in Bound ]
            /\ CancelAll(Bound \cap {s})
            /\ Forget({s})
      BY <2>6 DEF Unbind
    <3>2. job' \in Job
      BY <3>1, InputAssumption DEF Job, InputAssumption
    <3>3. android' \in [ Display -> Touches ]
      BY <3>1, CancelAllIsSound
    <3>4. targets' \in [ Slot -> Target \cup {None} ] /\ \A u \in Bound' : Small(targets'[u].pointers)
      BY <3>1, ForgetTargets
    <3> QED
      BY <2>6, <3>2, <3>3, <3>4, SmallTypes DEF Unbind
  <2>7. CASE WriteResponse
    BY <2>7, InputAssumption DEF WriteResponse, Bound, Job, InputAssumption
  <2>8. CASE OnTouch
    <3>0. PICK s \in Bound : \E o : EndsIn(s, o)
      BY <2>8, TouchTargets
    <3>1. PICK o : EndsIn(s, o)
      BY <3>0
    <3>2. android' \in [ Display -> Touches ]
      BY <3>1 DEF EndsIn, Sound
    <3>3. targets' \in [ Slot -> Target \cup {None} ] /\ \A u \in Bound' : Small(targets'[u].pointers)
      BY <2>8, <3>1, TouchTargets DEF EndsIn, Sound, Small
    <3> QED
      BY <2>8, <3>2, <3>3, SmallTypes DEF OnTouch
  <2>9. CASE CloseOutput \/ HostDisconnects
    BY <2>9 DEF CloseOutput, HostDisconnects, Bound
  <2>10. CASE ResetAll
    <3>1. android' \in [ Display -> Touches ]
      BY <2>10, CancelAllIsSound DEF ResetAll
    <3>2. targets' \in [ Slot -> Target \cup {None} ] /\ \A s \in Bound' : Small(targets'[s].pointers)
      BY <2>10, ForgetTargets DEF ResetAll
    <3> QED
      BY <2>10, <3>1, <3>2, SmallTypes DEF ResetAll
  <2>11. CASE FetchDescriptor
    <3>1. /\ Head(notices) \in [ display : Display, removed : BOOLEAN ]
          /\ Tail(notices) \in Seq([ display : Display, removed : BOOLEAN ])
      BY <2>11, HeadTailProperties DEF FetchDescriptor
    <3>2. change' \in Change
      BY <2>11, <3>1 DEF FetchDescriptor, Change
    <3> QED
      BY <2>11, <3>1, <3>2 DEF FetchDescriptor, Bound
  <2>12. CASE HandleDisplayChange
    <3>1. android' \in [ Display -> Touches ]
      BY <2>12, CancelAllIsSound DEF HandleDisplayChange
    <3>2. targets' \in [ Slot -> Target \cup {None} ] /\ \A s \in Bound' : Small(targets'[s].pointers)
      BY <2>12, ForgetTargets DEF HandleDisplayChange
    <3>3. invalidated' \subseteq Epoch
      BY <2>12, BoundHasTarget DEF HandleDisplayChange, Affected, Target, Bound
    <3> QED
      BY <2>12, <3>1, <3>2, <3>3, SmallTypes DEF HandleDisplayChange
  <2>13. CASE OnTargetInvalidated
    BY <2>13 DEF OnTargetInvalidated, Bound
  <2>14. CASE DisplayChanges
    <3>1. PICK d \in Display, g \in Geometry \cup {None} :
       /\ displays' = [ displays EXCEPT ![d] = g ]
       /\ notices' = IF displays[d] = None THEN notices
                     ELSE Append(notices, [ display |-> d, removed |-> g = None ])
       /\ android' = IF g = None THEN [ android EXCEPT ![d] = Untouched ] ELSE android
      BY <2>14 DEF DisplayChanges
    <3>2. [ display |-> d, removed |-> g = None ] \in [ display : Display, removed : BOOLEAN ]
      OBVIOUS
    <3>3. notices' \in Seq([ display : Display, removed : BOOLEAN ])
      BY <3>1, <3>2, AppendProperties
    <3>4. android' \in [ Display -> Touches ]
      BY <3>1 DEF Untouched, Touches
    <3>5. changes' \in 0 .. MaxChanges
      BY <2>14, InputAssumption DEF DisplayChanges, InputAssumption
    <3> QED
      BY <2>14, <3>1, <3>3, <3>4, <3>5 DEF DisplayChanges, Bound
  <2>15. CASE UNCHANGED vars
    BY <2>15 DEF vars, Bound
  <2> QED
    BY <2>1, <2>2, <2>3, <2>4, <2>5, <2>6, <2>7, <2>8, <2>9, <2>10, <2>11, <2>12, <2>13, <2>14,
       <2>15 DEF Next, OperationServer, MainThread
<1> QED
  BY <1>1, <1>2, PTL DEF Spec

-----------------------------------------------------------------------------
(* Leases                                                                  *)

(* What keeps epochs apart: they are handed out in order and never again.  *)
EpochsAreUsedUp == \A s \in Bound : targets[s].epoch < nextEpoch

LeaseInv == ExclusiveLeases /\ EpochsAreUsedUp

(* Forgetting targets, or touching them, takes nobody else's lease.        *)
LEMMA FewerLeases ==
  ASSUME LeaseInv, Types, nextEpoch' = nextEpoch,
         \A s \in Bound' : /\ s \in Bound
                           /\ targets'[s].display = targets[s].display
                           /\ targets'[s].stream = targets[s].stream
                           /\ targets'[s].epoch = targets[s].epoch
  PROVE  LeaseInv'
BY DEF LeaseInv, ExclusiveLeases, EpochsAreUsedUp

\* Every step keeps bindings exclusive and epochs used once.
LEMMA LeaseStep ==
  ASSUME Types, LeaseInv, [Next]_vars
  PROVE  LeaseInv'
<1> USE DEF serverVars, listenerVars, displayVars, hostVars
<1>1. targets \in [ Slot -> Target \cup {None} ] /\ nextEpoch \in Nat
  BY DEF Types, TypeOK
<1>2. CASE BindApplied
  <2>1. /\ nextEpoch' = nextEpoch + 1
        /\ \A s \in Bound \ { job.slot } : /\ targets[s].display # job.display
                                           /\ targets[s].stream # job.stream
    BY <1>2 DEF BindApplied, Busy
  <2>2. \A s \in Bound : targets[s].epoch \in Nat /\ targets[s].epoch < nextEpoch
    BY <1>1, BoundHasTarget DEF LeaseInv, EpochsAreUsedUp, Bound, Target, Epoch
  <2>3. EpochsAreUsedUp'
    BY <1>1, <1>2, <2>1, <2>2, BindTargets DEF EpochsAreUsedUp
  <2>4. ASSUME NEW s \in Bound', NEW u \in Bound', s # u
        PROVE  /\ targets'[s].display # targets'[u].display
               /\ targets'[s].stream # targets'[u].stream
               /\ targets'[s].epoch # targets'[u].epoch
    <3>1. CASE s = job.slot
      BY <1>1, <1>2, <2>1, <2>2, <2>4, <3>1, BindTargets
    <3>2. CASE u = job.slot
      BY <1>1, <1>2, <2>1, <2>2, <2>4, <3>2, BindTargets
    <3>3. CASE s # job.slot /\ u # job.slot
      BY <1>2, <2>4, <3>3, BindTargets DEF LeaseInv, ExclusiveLeases
    <3> QED
      BY <3>1, <3>2, <3>3
  <2> QED
    BY <2>3, <2>4 DEF LeaseInv, ExclusiveLeases
<1>3. CASE Unbind
  <2>1. nextEpoch' = nextEpoch /\ \E s \in Slot : Forget({s})
    BY <1>3 DEF Unbind
  <2> QED
    BY <1>1, <2>1, ForgetTargets, FewerLeases
<1>4. CASE ResetAll
  BY <1>1, <1>4, ForgetTargets, FewerLeases DEF ResetAll
<1>5. CASE HandleDisplayChange
  BY <1>1, <1>5, ForgetTargets, FewerLeases DEF HandleDisplayChange
<1>6. CASE OnTouch
  BY <1>6, TouchTargets, FewerLeases DEF OnTouch
<1>7. CASE \/ Accept \/ ResolveBind \/ BindUnchanged \/ BindRefused \/ WriteResponse \/ CloseOutput
           \/ FetchDescriptor \/ OnTargetInvalidated \/ DisplayChanges \/ HostDisconnects
           \/ UNCHANGED vars
  <2>1. UNCHANGED << targets, nextEpoch >>
    BY <1>7 DEF Accept, ResolveBind, BindUnchanged, BindRefused, WriteResponse, CloseOutput,
                FetchDescriptor, OnTargetInvalidated, DisplayChanges, HostDisconnects, vars
  <2>2. Bound' = Bound
    BY <2>1 DEF Bound
  <2> QED
    BY <2>1, <2>2, FewerLeases
<1> QED
  BY <1>2, <1>3, <1>4, <1>5, <1>6, <1>7 DEF Next, OperationServer, MainThread

(* Epochs are used once, and leases stay exclusive.                        *)
LEMMA BrokerLeases == Spec => [](Types /\ LeaseInv)
<1>1. Init => LeaseInv
  BY DEF Init, LeaseInv, ExclusiveLeases, EpochsAreUsedUp, Bound
<1>2. Types /\ LeaseInv /\ [Next]_vars => LeaseInv'
  BY LeaseStep
<1> QED
  BY <1>1, <1>2, BrokerTypes, PTL DEF Spec

(* No two slots share a display, a stream or an epoch                      *)
(* (InputStateMachine.bind).                                               *)
THEOREM BrokerLeasesAreExclusive == Spec => []ExclusiveLeases
<1>1. LeaseInv => ExclusiveLeases
  BY DEF LeaseInv
<1> QED
  BY <1>1, BrokerLeases, PTL

-----------------------------------------------------------------------------
(* Pointers                                                                *)

(* A display keeps its owner if the slot that owns it keeps its gesture.   *)
LEMMA OwnersStay ==
  ASSUME PointersAreOwned, NEW d \in Display, Held(android[d]),
         \A s \in Bound : targets[s].display = d /\ targets[s].pointers # {} =>
                            s \in Bound' /\ targets'[s] = targets[s]
  PROVE  \E s \in Bound' : targets'[s].display = d /\ targets'[s].pointers = android[d].down
BY DEF PointersAreOwned, Held

(* So ending bindings with a CANCEL for each leaves no pointer behind.     *)
LEMMA CancelledAreOwned ==
  ASSUME Types, PointersAreOwned, NEW slots, CancelAll(slots \cap Bound),
         \A s \in Bound \ slots : s \in Bound' /\ targets'[s] = targets[s]
  PROVE  PointersAreOwned'
<1> SUFFICES ASSUME NEW d \in Display, Held(android'[d])
             PROVE  \E s \in Bound' : targets'[s].display = d /\ targets'[s].pointers = android'[d].down
  BY DEF PointersAreOwned, Held
<1>1. /\ android'[d] = android[d]
      /\ \A s \in slots \cap Bound : targets[s].display = d => targets[s].pointers = {}
  BY CancelAllIsSound DEF Types, TypeOK
<1> QED
  BY <1>1, OwnersStay

\* Every step keeps what Android holds down owned by a binding of that display.
LEMMA PointerStep ==
  ASSUME Types, LeaseInv, PointersAreOwned, [Next]_vars
  PROVE  PointersAreOwned'
<1> USE DEF serverVars, listenerVars, displayVars, hostVars
<1>1. targets \in [ Slot -> Target \cup {None} ] /\ android \in [ Display -> Touches ]
  BY DEF Types, TypeOK
<1>2. CASE BindApplied
  <2>1. CancelAll({ job.slot } \cap Bound)
    <3>1. { job.slot } \cap Bound = Bound \cap { job.slot }
      OBVIOUS
    <3> QED
      BY <1>2, <3>1 DEF BindApplied, CancelReplaced
  <2>2. \A s \in Bound \ { job.slot } : s \in Bound' /\ targets'[s] = targets[s]
    BY <1>2, BindTargets
  <2> QED
    BY <2>1, <2>2, CancelledAreOwned
<1>3. CASE Unbind
  <2>1. PICK s \in Slot : CancelAll(Bound \cap {s}) /\ Forget({s})
    BY <1>3 DEF Unbind
  <2>2. {s} \cap Bound = Bound \cap {s}
    OBVIOUS
  <2> QED
    BY <1>1, <2>1, <2>2, ForgetTargets, CancelledAreOwned
<1>4. CASE ResetAll
  <2>1. Slot \cap Bound = Bound
    BY DEF Bound
  <2> QED
    BY <1>1, <1>4, <2>1, ForgetTargets, CancelledAreOwned DEF ResetAll
<1>5. CASE HandleDisplayChange
  <2>1. Affected \cap Bound = Affected
    BY DEF Affected
  <2> QED
    BY <1>1, <1>5, <2>1, ForgetTargets, CancelledAreOwned DEF HandleDisplayChange
<1>6. CASE OnTouch
  <2>0. PICK s \in Bound : \E o : EndsIn(s, o)
    BY <1>6, TouchTargets
  <2>1. PICK o : EndsIn(s, o)
    BY <2>0
  <2>2. Bound' = Bound /\ targets'[s].display = targets[s].display
    BY <1>6, TouchTargets
  <2>3. targets[s].display \in Display
    BY <1>1, BoundHasTarget DEF Bound, Target
  <2> SUFFICES ASSUME NEW d \in Display, Held(android'[d])
               PROVE  \E u \in Bound' : targets'[u].display = d /\ targets'[u].pointers = android'[d].down
    BY DEF PointersAreOwned, Held
  <2>4. CASE d # targets[s].display
    <3>1. android'[d] = android[d]
      BY <1>1, <2>1, <2>3, <2>4 DEF EndsIn
    <3> QED
      BY <2>1, <2>2, <2>4, <3>1, OwnersStay DEF EndsIn
  <2>5. CASE d = targets[s].display
    <3>1. android'[d] = o.android
      BY <1>1, <2>1, <2>3, <2>5 DEF EndsIn
    <3>2. CASE o.pointers = o.android.down
      BY <2>1, <2>2, <2>5, <3>1, <3>2 DEF EndsIn
    <3>3. CASE o.android = android[d] /\ targets[s].pointers = {}
      <4>1. PICK u \in Bound : targets[u].display = d /\ targets[u].pointers = android[d].down
        BY <3>1, <3>3 DEF PointersAreOwned, Held
      <4>2. u # s
        BY <3>1, <3>3, <4>1 DEF Held
      <4> QED
        BY <2>5, <4>1, <4>2 DEF LeaseInv, ExclusiveLeases
    <3> QED
      BY <2>1, <2>5, <3>1, <3>2, <3>3 DEF EndsIn, Sound
  <2> QED
    BY <2>4, <2>5
<1>7. CASE DisplayChanges
  <2>1. PICK e \in Display : android' = android \/ android' = [ android EXCEPT ![e] = Untouched ]
    BY <1>7 DEF DisplayChanges
  <2>2. UNCHANGED targets /\ Bound' = Bound
    BY <1>7 DEF DisplayChanges, Bound
  <2>3. \A d \in Display : android'[d] = android[d] \/ android'[d] = Untouched
    BY <1>1, <2>1
  <2> QED
    BY <2>2, <2>3 DEF PointersAreOwned, Untouched
<1>8. CASE \/ Accept \/ ResolveBind \/ BindUnchanged \/ BindRefused \/ WriteResponse \/ CloseOutput
           \/ FetchDescriptor \/ OnTargetInvalidated \/ HostDisconnects
           \/ UNCHANGED vars
  <2>1. UNCHANGED << targets, android >>
    BY <1>8 DEF Accept, ResolveBind, BindUnchanged, BindRefused, WriteResponse, CloseOutput,
                FetchDescriptor, OnTargetInvalidated, HostDisconnects, vars
  <2> QED
    BY <2>1 DEF PointersAreOwned, Bound
<1> QED
  BY <1>2, <1>3, <1>4, <1>5, <1>6, <1>7, <1>8 DEF Next, OperationServer, MainThread

(* No pointer stays down that no slot owns (InputStateMachine).            *)
THEOREM BrokerPointersAreOwned == Spec => []PointersAreOwned
<1>1. Init => PointersAreOwned
  BY DEF Init, PointersAreOwned, Untouched
<1>2. Types /\ LeaseInv /\ PointersAreOwned /\ [Next]_vars => PointersAreOwned'
  BY PointerStep
<1> QED
  BY <1>1, <1>2, BrokerLeases, PTL DEF Spec

-----------------------------------------------------------------------------
(* The host                                                                *)

Serving == server \in { "reading", "resolved", "writing" }

(* The epoch the host knows of a slot once it has the response that is     *)
(* still to be written.                                                    *)
Told(s) == IF server = "writing" /\ job.applied /\ s = job.slot THEN job.epoch ELSE hostBound[s]

(* The epochs that are gone for the host, or about to be.                  *)
Ended == invalidated \cup hostDead

HostView ==
  \A s \in Slot : IF s \in Bound THEN Told(s) = targets[s].epoch ELSE Told(s) \in {0} \cup Ended

(* What ends is never bound again, as epochs are used once; and with an    *)
(* output to write to, the host hears of all of it.                        *)
EndedIsOver ==
  /\ \A s \in Bound : targets[s].epoch \notin Ended
  /\ \A e \in Ended : e \in Nat /\ e < nextEpoch

HostInv ==
  /\ activeOutput <=> Serving
  /\ server = "accepting" => Bound = {}
  /\ listener # "reporting" => invalidated = {}
  /\ EndedIsOver
  /\ Serving => HostView

(* A bind: the response tells the epoch under which the slot is bound      *)
(* (handleBind, onBind).                                                   *)
LEMMA BindKeepsHost ==
  ASSUME Types, LeaseInv, HostInv,
         ResolveBind \/ BindUnchanged \/ BindRefused \/ BindApplied
  PROVE  HostInv'
<1> USE DEF serverVars, listenerVars, displayVars, hostVars
<1>1. /\ targets \in [ Slot -> Target \cup {None} ] /\ nextEpoch \in 1 .. MaxEpoch + 1
      /\ server \in { "resolved", "writing" } => job \in Job
      /\ Serving /\ HostView
  BY DEF Types, TypeOK, HostInv, Serving, ResolveBind, BindUnchanged, BindRefused, BindApplied
<1>2. CASE ResolveBind
  <2>1. /\ UNCHANGED << targets, nextEpoch, activeOutput, listenerVars, hostVars >>
        /\ server = "reading" /\ server' = "resolved"
    BY <1>2 DEF ResolveBind
  <2>2. HostView'
    BY <1>1, <2>1 DEF HostView, Told, Bound, Ended
  <2> QED
    BY <2>1, <2>2 DEF HostInv, Serving, EndedIsOver, Ended, Bound
<1>3. CASE BindUnchanged \/ BindRefused
  <2>1. PICK e \in 0 .. MaxEpoch :
          /\ Answer(e)
          /\ e # 0 => job.slot \in Bound /\ e = targets[job.slot].epoch
    <3>1. 0 \in 0 .. MaxEpoch
      BY InputAssumption DEF InputAssumption
    <3>2. CASE BindRefused
      BY <3>1, <3>2 DEF BindRefused
    <3>3. CASE BindUnchanged
      <4>1. targets[job.slot].epoch \in 0 .. MaxEpoch
        BY <1>1, <3>3, BoundHasTarget DEF BindUnchanged, Bound, Target, Epoch
      <4> QED
        BY <3>3, <4>1 DEF BindUnchanged
    <3> QED
      BY <1>3, <3>2, <3>3
  <2>2. /\ server = "resolved" /\ UNCHANGED << targets, nextEpoch >> /\ job \in Job
    BY <1>1, <1>3 DEF BindUnchanged, BindRefused
  <2>3. /\ server' = "writing" /\ job'.slot = job.slot /\ job'.epoch = e
        /\ job'.applied <=> e # 0
        /\ UNCHANGED << activeOutput, listenerVars, hostVars >>
    BY <2>1, <2>2, AnswerTypes
  <2>4. HostView'
    BY <1>1, <2>1, <2>2, <2>3 DEF HostView, Told, Bound, Ended
  <2> QED
    BY <2>2, <2>3, <2>4 DEF HostInv, Serving, EndedIsOver, Ended, Bound
<1>4. CASE BindApplied
  <2>1. /\ server = "resolved" /\ job \in Job /\ nextEpoch' = nextEpoch + 1
        /\ nextEpoch \in 0 .. MaxEpoch /\ Answer(nextEpoch)
    BY <1>1, <1>4 DEF BindApplied, AllocateEpoch
  <2>2. /\ server' = "writing" /\ job'.slot = job.slot /\ job'.epoch = nextEpoch
        /\ job'.applied
        /\ UNCHANGED << activeOutput, listenerVars, hostVars >>
    BY <1>1, <2>1, AnswerTypes
  <2>3. /\ Bound' = Bound \cup { job.slot } /\ job.slot \in Slot
        /\ targets'[job.slot].epoch = nextEpoch
        /\ \A s \in Bound' \ { job.slot } : s \in Bound /\ targets'[s] = targets[s]
    BY <1>4, BindTargets
  <2>4. HostView'
    <3> SUFFICES ASSUME NEW s \in Slot
                 PROVE  IF s \in Bound' THEN Told(s)' = targets'[s].epoch
                                        ELSE Told(s)' \in {0} \cup Ended'
      BY DEF HostView
    <3>1. CASE s = job.slot
      BY <2>2, <2>3, <3>1 DEF Told
    <3>2. CASE s # job.slot
      <4>1. Told(s)' = Told(s) /\ (s \in Bound' <=> s \in Bound) /\ Ended' = Ended
        BY <2>1, <2>2, <2>3, <3>2 DEF Told, Ended
      <4> QED
        BY <1>1, <2>3, <3>2, <4>1 DEF HostView
    <3> QED
      BY <3>1, <3>2
  <2>5. EndedIsOver'
    <3>1. Ended' = Ended
      BY <2>2 DEF Ended
    <3>2. \A f \in Ended : f \in Nat /\ f < nextEpoch
      BY DEF HostInv, EndedIsOver
    <3>3. \A s \in Bound' : targets'[s].epoch \notin Ended
      BY <2>3, <3>2 DEF HostInv, EndedIsOver
    <3> QED
      BY <1>1, <2>1, <3>1, <3>2, <3>3 DEF EndedIsOver
  <2> QED
    BY <2>1, <2>2, <2>4, <2>5 DEF HostInv, Serving
<1> QED
  BY <1>2, <1>3, <1>4

(* Unbind, and the writing of a response (handleUnbind, writeResponse).    *)
LEMMA UnbindKeepsHost ==
  ASSUME Types, HostInv, Unbind \/ WriteResponse
  PROVE  HostInv'
<1> USE DEF serverVars, listenerVars, displayVars, hostVars
<1>1. /\ targets \in [ Slot -> Target \cup {None} ] /\ Serving /\ HostView
      /\ hostBound \in [ Slot -> 0 .. MaxEpoch ]
      /\ server \in { "resolved", "writing" } => job \in Job
  BY DEF Types, TypeOK, HostInv, Serving, Unbind, WriteResponse
<1>2. CASE Unbind
  <2>1. PICK u \in Slot :
          /\ job' = [ slot |-> u, stream |-> None, display |-> None, geometry |-> None, epoch |-> 0,
                      applied |-> u \in Bound ]
          /\ Forget({u})
    BY <1>2 DEF Unbind
  <2> DEFINE applied == u \in Bound
  <2>2. job'.slot = u /\ job'.epoch = 0 /\ job'.applied = applied
    <3> HIDE DEF applied
    <3> QED
      BY <2>1 DEF applied
  <2>3. /\ server = "reading" /\ server' = "writing"
        /\ UNCHANGED << nextEpoch, activeOutput, listenerVars, hostVars >>
    BY <1>2 DEF Unbind
  <2>4. Bound' = Bound \ {u} /\ \A s \in Bound' : s \in Bound /\ targets'[s] = targets[s]
    BY <1>1, <2>1, ForgetTargets
  <2>5. HostView'
    <3> SUFFICES ASSUME NEW s \in Slot
                 PROVE  IF s \in Bound' THEN Told(s)' = targets'[s].epoch
                                        ELSE Told(s)' \in {0} \cup Ended'
      BY DEF HostView
    <3>1. Told(s) = hostBound[s] /\ Ended' = Ended
      BY <2>3 DEF Told, Ended
    <3>2. CASE s = u
      <4>1. s \notin Bound'
        BY <2>4, <3>2
      <4>2. Told(s)' = IF s \in Bound THEN 0 ELSE Told(s)
        BY <2>2, <2>3, <3>1, <3>2 DEF Told
      <4> QED
        BY <1>1, <3>1, <4>1, <4>2 DEF HostView
    <3>3. CASE s # u
      <4>1. Told(s)' = Told(s)
        BY <2>2, <2>3, <3>1, <3>3 DEF Told
      <4> QED
        BY <1>1, <2>4, <3>1, <3>3, <4>1 DEF HostView
    <3> QED
      BY <3>2, <3>3
  <2> QED
    BY <2>3, <2>4, <2>5 DEF HostInv, Serving, EndedIsOver, Ended
<1>3. CASE WriteResponse
  <2>1. /\ server = "writing" /\ server' = "reading" /\ job \in Job
        /\ hostBound' = IF job.applied THEN [ hostBound EXCEPT ![job.slot] = job.epoch ] ELSE hostBound
        /\ UNCHANGED << targets, nextEpoch, activeOutput, listenerVars, hostDead >>
    BY <1>1, <1>3 DEF WriteResponse
  <2>2. \A s \in Slot : Told(s)' = Told(s)
    BY <1>1, <2>1 DEF Told
  <2>3. HostView'
    BY <1>1, <2>1, <2>2 DEF HostView, Bound, Ended
  <2> QED
    BY <2>1, <2>3 DEF HostInv, Serving, EndedIsOver, Ended, Bound
<1> QED
  BY <1>2, <1>3

(* A connection begins with nothing bound, and ends with everything        *)
(* forgotten (serve, resetAll).                                            *)
LEMMA ConnectionKeepsHost ==
  ASSUME Types, HostInv, Accept \/ CloseOutput \/ ResetAll
  PROVE  HostInv'
<1> USE DEF serverVars, listenerVars, displayVars, hostVars
<1>1. targets \in [ Slot -> Target \cup {None} ]
  BY DEF Types, TypeOK
<1>2. CASE Accept
  <2>1. /\ Bound = {} /\ server' = "reading" /\ activeOutput' = TRUE
        /\ hostBound' = [ s \in Slot |-> 0 ] /\ hostDead' = {}
        /\ UNCHANGED << targets, nextEpoch, listenerVars >>
    BY <1>2 DEF Accept, HostInv
  <2>2. HostView'
    BY <2>1 DEF HostView, Told, Bound
  <2> QED
    BY <2>1, <2>2 DEF HostInv, Serving, EndedIsOver, Ended, Bound
<1>3. CASE CloseOutput
  BY <1>3 DEF CloseOutput, HostInv, Serving, EndedIsOver, Ended, Bound
<1>4. CASE ResetAll
  <2>1. Bound' = {}
    BY <1>1, <1>4, ForgetTargets DEF ResetAll, Bound
  <2> QED
    BY <1>4, <2>1 DEF ResetAll, HostInv, Serving, EndedIsOver, Ended
<1> QED
  BY <1>2, <1>3, <1>4

(* A change of a display ends bindings, and their epochs are reported      *)
(* (onDisplayChanged, onTargetInvalidated).                                *)
LEMMA ChangeKeepsHost ==
  ASSUME Types, LeaseInv, HostInv, HandleDisplayChange \/ OnTargetInvalidated
  PROVE  HostInv'
<1> USE DEF serverVars, listenerVars, displayVars, hostVars
<1>1. targets \in [ Slot -> Target \cup {None} ] /\ nextEpoch \in Nat
  BY DEF Types, TypeOK
<1>2. CASE HandleDisplayChange
  <2>1. /\ invalidated = {} /\ invalidated' = { targets[s].epoch : s \in Affected }
        /\ listener' = IF Affected = {} THEN "idle" ELSE "reporting"
        /\ UNCHANGED << nextEpoch, serverVars, hostVars >>
    BY <1>2 DEF HandleDisplayChange, HostInv
  <2>2. /\ Affected \subseteq Bound /\ Bound \subseteq Slot
        /\ Bound' = Bound \ Affected
        /\ \A s \in Bound' : s \in Bound /\ targets'[s] = targets[s]
    BY <1>1, <1>2, ForgetTargets DEF HandleDisplayChange, Affected, Bound
  <2>3. \A s \in Bound : targets[s].epoch \in Nat /\ targets[s].epoch < nextEpoch
    BY <1>1, BoundHasTarget DEF LeaseInv, EpochsAreUsedUp, Bound, Target, Epoch
  <2>4. \A s \in Bound', u \in Affected : targets[s].epoch # targets[u].epoch
    BY <2>2 DEF LeaseInv, ExclusiveLeases
  <2>5. EndedIsOver'
    <3>1. Ended' = { targets[s].epoch : s \in Affected } \cup hostDead /\ hostDead \subseteq Ended
      BY <2>1 DEF Ended
    <3>2. \A s \in Bound' : targets'[s].epoch \notin Ended'
      BY <2>2, <2>4, <3>1 DEF HostInv, EndedIsOver
    <3>3. \A e \in Ended' : e \in Nat /\ e < nextEpoch
      BY <2>2, <2>3, <3>1 DEF HostInv, EndedIsOver
    <3> QED
      BY <2>1, <3>2, <3>3 DEF EndedIsOver
  <2>6. Serving => HostView'
    <3> SUFFICES ASSUME Serving, NEW s \in Slot
                 PROVE  IF s \in Bound' THEN Told(s)' = targets'[s].epoch
                                        ELSE Told(s)' \in {0} \cup Ended'
      BY DEF HostView
    <3>1. /\ Told(s)' = Told(s)
          /\ IF s \in Bound THEN Told(s) = targets[s].epoch ELSE Told(s) \in {0} \cup Ended
          /\ Ended \subseteq Ended'
      BY <2>1 DEF Told, HostInv, HostView, Ended
    <3>2. s \in Affected => targets[s].epoch \in Ended'
      BY <2>1 DEF Ended
    <3> QED
      BY <2>2, <3>1, <3>2
  <2>7. /\ activeOutput' <=> Serving'
        /\ server' = "accepting" => Bound' = {}
        /\ listener' # "reporting" => invalidated' = {}
        /\ Serving' <=> Serving
    BY <2>1, <2>2 DEF HostInv, Serving
  <2> QED
    BY <2>5, <2>6, <2>7 DEF HostInv
<1>3. CASE OnTargetInvalidated
  <2>1. PICK e \in invalidated :
          /\ invalidated' = invalidated \ {e}
          /\ hostDead' = IF activeOutput THEN hostDead \cup {e} ELSE hostDead
    BY <1>3 DEF OnTargetInvalidated
  <2>2. /\ listener' = IF invalidated' = {} THEN "idle" ELSE "reporting"
        /\ UNCHANGED << targets, nextEpoch, serverVars, hostBound >>
    BY <1>3 DEF OnTargetInvalidated
  <2>3. Ended' \subseteq Ended /\ (Serving => Ended' = Ended)
    BY <2>1 DEF Ended, HostInv
  <2>4. Serving => HostView'
    BY <2>2, <2>3 DEF HostInv, HostView, Told, Bound
  <2>5. EndedIsOver'
    BY <2>2, <2>3 DEF HostInv, EndedIsOver, Bound
  <2> QED
    BY <2>2, <2>4, <2>5 DEF HostInv, Serving, Bound
<1> QED
  BY <1>2, <1>3

(* A touch changes no epoch (onTouch).                                     *)
LEMMA TouchKeepsHost ==
  ASSUME Types, HostInv, OnTouch
  PROVE  HostInv'
<1>1. /\ Bound' = Bound /\ \A s \in Bound : targets'[s].epoch = targets[s].epoch
      /\ UNCHANGED << nextEpoch, serverVars, listenerVars, hostVars >>
  BY TouchTargets DEF OnTouch
<1> QED
  BY <1>1 DEF serverVars, listenerVars, hostVars, HostInv, Serving, HostView, Told, EndedIsOver, Ended

(* Once the events in progress are written, the host knows what is bound,  *)
(* under which epoch (OperationServer, InputStateMachine).                 *)
THEOREM BrokerHostKnows == Spec => []HostKnowsItsBindings
<1>1. Init => HostInv
  BY DEF Init, HostInv, Serving, EndedIsOver, Ended, Bound
<1>2. Types /\ LeaseInv /\ HostInv /\ [Next]_vars => HostInv'
  <2> SUFFICES ASSUME Types, LeaseInv, HostInv, [Next]_vars PROVE HostInv'
    OBVIOUS
  <2>1. CASE ResolveBind \/ BindUnchanged \/ BindRefused \/ BindApplied
    BY <2>1, BindKeepsHost
  <2>2. CASE Unbind \/ WriteResponse
    BY <2>2, UnbindKeepsHost
  <2>3. CASE Accept \/ CloseOutput \/ ResetAll
    BY <2>3, ConnectionKeepsHost
  <2>4. CASE HandleDisplayChange \/ OnTargetInvalidated
    BY <2>4, ChangeKeepsHost
  <2>5. CASE OnTouch
    BY <2>5, TouchKeepsHost
  <2>6. CASE FetchDescriptor \/ DisplayChanges \/ HostDisconnects \/ UNCHANGED vars
    <3>1. /\ UNCHANGED << targets, nextEpoch, serverVars, invalidated, hostBound, hostDead >>
          /\ listener' = "reporting" <=> listener = "reporting"
      BY <2>6 DEF FetchDescriptor, DisplayChanges, HostDisconnects, vars, hostVars, listenerVars
    <3> QED
      BY <3>1 DEF serverVars, HostInv, Serving, HostView, Told, EndedIsOver, Ended, Bound
  <2> QED
    BY <2>1, <2>2, <2>3, <2>4, <2>5, <2>6 DEF Next, OperationServer, MainThread
<1>3. HostInv => HostKnowsItsBindings
  <2> SUFFICES ASSUME HostInv, server = "reading", listener # "reporting", NEW s \in Slot
               PROVE  IF s \in Bound
                      THEN hostBound[s] = targets[s].epoch /\ targets[s].epoch \notin hostDead
                      ELSE hostBound[s] = 0 \/ hostBound[s] \in hostDead
    BY DEF HostKnowsItsBindings
  <2>1. Told(s) = hostBound[s] /\ Ended = hostDead
    BY DEF Told, Ended, HostInv
  <2> QED
    BY <2>1 DEF HostInv, Serving, HostView, EndedIsOver
<1> QED
  BY <1>1, <1>2, <1>3, BrokerLeases, PTL DEF Spec

=============================================================================
