------------------------ MODULE ExternalStateFanout ------------------------
(***************************************************************************)
(* The fan-out of external pose and GNSS records: the per-reader FMQs of   *)
(* SimulationStateService (openExternalStateStream, PublishExternalState)  *)
(* and SimulationStateClient::DrainExternalStates.                         *)
(*                                                                         *)
(* A record is its position in the published stream and its discontinuity  *)
(* flag.  An FMQ is memory shared with its reader: the reader keeps        *)
(* draining the queue it opened even after the service has dropped its own *)
(* reference.  A reader process that dies leaves its entry behind; the one *)
(* that replaces it has another pid.                                       *)
(*                                                                         *)
(* Queues are numbered as they are opened.  An entry is only ever added at *)
(* the end of the service's list, so the list is the set of its entries,   *)
(* in the order of their queues.                                           *)
(***************************************************************************)
EXTENDS Integers, Sequences, SequencesExt, FiniteSets

CONSTANTS
  Reader,           \* the HALs that read external state
  MaxReaders,       \* kMaximumExternalStateReaders
  Capacity,         \* kExternalStateFmqCapacity, in records
  MaxRecords,       \* model bound: records published
  MaxOpens          \* model bound: streams opened

ASSUME FanoutLimits ==
  { MaxReaders, Capacity, MaxRecords, MaxOpens } \subseteq Nat \ {0}
ASSUME FanoutReaders == IsFiniteSet(Reader)

VARIABLES
  entries,          \* external_queues_, in order of their queues
  fmq,              \* the contents of each queue ever opened
  opens,            \* queues opened so far: a queue is named by its number
  published,        \* records published so far
  pid,              \* each reader's process id
  pids,             \* process ids handed out so far
  stream,           \* the queue each reader holds, 0 for none
  lastRead,         \* the last record each reader took from its queue, 0 for none
  holeSeen          \* a reader took a record after a hole that was not flagged

publisherVars == << entries, opens, published >>
readerVars == << pid, pids, stream, lastRead, holeSeen >>
fanoutVars == << publisherVars, fmq, readerVars >>

Record == [ n : 1 .. published, disc : BOOLEAN ]
Entry == [ owner : 1 .. pids, queue : 1 .. opens, pending : BOOLEAN ]

FanoutTypeOK ==
  /\ entries \subseteq Entry /\ IsFiniteSet(entries) /\ Cardinality(entries) <= MaxReaders
  /\ fmq \in [ 1 .. MaxOpens -> Seq(Record) ]
  /\ \A q \in 1 .. MaxOpens : Len(fmq[q]) <= Capacity
  /\ opens \in 0 .. MaxOpens
  /\ published \in 0 .. MaxRecords
  /\ pids \in Nat /\ pid \in [ Reader -> 1 .. pids ] /\ IsInjective(pid)
  /\ stream \in [ Reader -> 0 .. opens ]
  /\ lastRead \in [ Reader -> 0 .. published ]
  /\ holeSeen \in BOOLEAN

FanoutInit ==
  /\ entries = {}
  /\ fmq = [ q \in 1 .. MaxOpens |-> << >> ]
  /\ opens = 0
  /\ published = 0
  /\ pid \in { f \in [ Reader -> 1 .. Cardinality(Reader) ] : IsInjective(f) }
  /\ pids = Cardinality(Reader)
  /\ stream = [ r \in Reader |-> 0 ]
  /\ lastRead = [ r \in Reader |-> 0 ]
  /\ holeSeen = FALSE

-----------------------------------------------------------------------------
(* SimulationStateService *)

\* A process replaces its own queue; past the limit the oldest entry goes.
OthersEntries(owner) == { e \in entries : e.owner # owner }

Oldest(list) == CHOOSE e \in list : \A other \in list : e.queue <= other.queue

MakeRoom(list) ==
  IF Cardinality(list) = MaxReaders THEN list \ { Oldest(list) } ELSE list

OpenExternalStateStream_Rejoin(r) ==
  /\ opens < MaxOpens
  /\ opens' = opens + 1
  /\ entries' = MakeRoom(entries) \union { [ owner |-> pid[r], queue |-> opens', pending |-> FALSE ] }
  /\ stream' = [ stream EXCEPT ![r] = opens' ]
  /\ lastRead' = [ lastRead EXCEPT ![r] = 0 ]
  /\ UNCHANGED << published, fmq, pid, pids, holeSeen >>

OpenExternalStateStream(r) ==
  /\ opens < MaxOpens
  /\ opens' = opens + 1
  /\ entries' = MakeRoom(OthersEntries(pid[r]))
                \union { [ owner |-> pid[r], queue |-> opens', pending |-> FALSE ] }
  /\ stream' = [ stream EXCEPT ![r] = opens' ]
  /\ lastRead' = [ lastRead EXCEPT ![r] = 0 ]
  /\ UNCHANGED << published, fmq, pid, pids, holeSeen >>

HasRoom(e) == Len(fmq[e.queue]) < Capacity

\* What publishing the next record makes of a queue.
Written(q, disc) ==
  LET serving == { e \in entries : e.queue = q /\ HasRoom(e) } IN
  IF serving = {} THEN fmq[q]
  ELSE Append(fmq[q], [ n |-> published + 1, disc |-> disc \/ \E e \in serving : e.pending ])

\* A full queue loses the record and remembers it for the next one.
PublishExternalState_Forgets(disc) ==
  /\ published < MaxRecords
  /\ published' = published + 1
  /\ fmq' = [ q \in DOMAIN fmq |-> Written(q, disc) ]
  /\ entries' = { [ e EXCEPT !.pending = FALSE ] : e \in entries }
  /\ UNCHANGED << opens, readerVars >>

PublishExternalState(disc) ==
  /\ published < MaxRecords
  /\ published' = published + 1
  /\ fmq' = [ q \in DOMAIN fmq |-> Written(q, disc) ]
  /\ entries' = { [ e EXCEPT !.pending = ~HasRoom(e) ] : e \in entries }
  /\ UNCHANGED << opens, readerVars >>

-----------------------------------------------------------------------------
(* The readers *)

\* DrainExternalStates takes every complete record in the queue, in order.
Unflagged(r) ==
  LET q == fmq[stream[r]]
      before(i) == IF i = 1 THEN lastRead[r] ELSE q[i - 1].n
  IN  \E i \in DOMAIN q : before(i) # 0 /\ q[i].n # before(i) + 1 /\ ~q[i].disc

DrainExternalStates(r) ==
  /\ stream[r] # 0
  /\ fmq[stream[r]] # << >>
  /\ lastRead' = [ lastRead EXCEPT ![r] = Last(fmq[stream[r]]).n ]
  /\ holeSeen' = (holeSeen \/ Unflagged(r))
  /\ fmq' = [ fmq EXCEPT ![stream[r]] = << >> ]
  /\ UNCHANGED << publisherVars, pid, pids, stream >>

\* A HAL process dies and is started again.
ReaderDies(r) ==
  /\ opens < MaxOpens
  /\ stream[r] # 0
  /\ pids' = pids + 1
  /\ pid' = [ pid EXCEPT ![r] = pids' ]
  /\ stream' = [ stream EXCEPT ![r] = 0 ]
  /\ lastRead' = [ lastRead EXCEPT ![r] = 0 ]
  /\ UNCHANGED << publisherVars, fmq, holeSeen >>

FanoutNext ==
  \/ \E disc \in BOOLEAN : PublishExternalState(disc)
  \/ \E r \in Reader : \/ OpenExternalStateStream(r)
                       \/ DrainExternalStates(r)
                       \/ ReaderDies(r)

FanoutSpec == FanoutInit /\ [][FanoutNext]_fanoutVars

-----------------------------------------------------------------------------
(* Properties *)

\* A reader never takes a record that follows a lost one without being told so,
\* however full its queue has been and whenever it drains (PublishExternalState).
NoSilentLoss == ~holeSeen

\* A living process is served through exactly the queue it is draining: its older
\* queues are gone from the list.
ServedThroughCurrentQueue ==
  \A e \in entries, r \in Reader :
    e.owner = pid[r] /\ stream[r] # 0 => e.queue = stream[r]
=============================================================================
