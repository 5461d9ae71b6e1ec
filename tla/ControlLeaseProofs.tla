------------------------- MODULE ControlLeaseProofs -------------------------
(***************************************************************************)
(* The authority lease of the control channel, for every lease, reconnect  *)
(* interval and poll interval, and every set of domains.                   *)
(*                                                                         *)
(* None of the properties is inductive alone.  That expiry is not early    *)
(* and the worker never sleeps overdue both rest on the deadline and the   *)
(* silence measuring the same span (LeaseClock); that a timed wait fits    *)
(* the lease is what NextReconnectWait and the expiry check before each    *)
(* poll establish (WaitFitsLease); that nothing is orphaned rests on       *)
(* authority always being on a lease while disconnected (OnALease).  The   *)
(* three hold once the lease is settled: while the constructor may undo    *)
(* what a quick worker wrote, there is nothing to hold on to until a       *)
(* mutation was handled (NothingUndone).                                   *)
(***************************************************************************)
EXTENDS ControlLease, TLAPS

LeaseClock ==
  /\ silence = Off <=> deadline = Off
  /\ deadline > 0 => silence = Lease - deadline
  /\ deadline = 0 => silence >= Lease

Disconnected == worker \in { "run", "accepting", "refused", "waiting" }

OnALease ==
  /\ deadline # Off => authority
  /\ controlled \cap InProcess # {} => authority
  /\ Disconnected /\ authority => deadline # Off

WaitFitsLease ==
  /\ worker = "waiting" /\ deadline # Off => silence + timer <= Lease
  /\ worker = "polling" /\ deadline # Off => silence + timer <= Lease + Poll

LeaseInv == LeaseClock /\ OnALease /\ WaitFitsLease

NothingUndone ==
  members # "all" /\ ~early => controlled = {} /\ (members = "deadline" => ~authority)

Inv == TypeOK /\ NothingUndone /\ (Settled => LeaseInv)

-----------------------------------------------------------------------------

\* The three intervals of the channel are positive numbers of ticks.
LEMMA Intervals == Lease \in Nat /\ Reconnect \in Nat /\ Poll \in Nat
                     /\ Lease > 0 /\ Reconnect > 0 /\ Poll > 0
  BY SMT, ControlAssumption DEF ControlAssumption

\* A wait that shortens by no more than what has run stays within what is left.
LEMMA Difference ==
  ASSUME NEW a \in Int, NEW b \in Int, NEW c \in Int, c <= b
  PROVE  (a - b) + c <= a
  OBVIOUS

\* The worker is started.
LEMMA InitInv == Init => Inv
<1> SUFFICES ASSUME Init PROVE Inv
  OBVIOUS
<1>1. TypeOK
  <2>1. timer \in 0 .. Reconnect \cup 0 .. Poll /\ silence \in Off .. MaxSilence
    BY Intervals DEF Init, Off, MaxSilence
  <2>2. controlled \subseteq Domain
    BY DEF Init
  <2> QED
    BY <2>1, <2>2 DEF Init, TypeOK, Phases
<1>2. NothingUndone /\ ~Settled
  BY DEF Init, NothingUndone, Settled
<1> QED
  BY <1>1, <1>2 DEF Inv

\* The constructor finds nothing under control, or the lease is not settled yet.
LEMMA ConstructorInv == ASSUME Inv, Constructor PROVE Inv'
<1> USE DEF Inv
<1>1. CASE ConstructSocket \/ ConstructAuthority
  <2>1. TypeOK'
    BY <1>1 DEF ConstructSocket, ConstructAuthority, TypeOK, leaseVars
  <2>2. NothingUndone' /\ ~Settled'
    BY <1>1 DEF ConstructSocket, ConstructAuthority, NothingUndone, Settled, leaseVars
  <2> QED
    BY <2>1, <2>2
<1>2. CASE ConstructDeadline
  <2>1. /\ members = "deadline" /\ members' = "all" /\ deadline' = Off /\ silence' = Off
        /\ UNCHANGED << worker, purpose, timer, authority, controlled, early, active, cut, stopping,
                        destructor >>
    BY <1>2 DEF ConstructDeadline
  <2>2. TypeOK'
    BY <2>1, Intervals DEF TypeOK, Off, MaxSilence
  <2>3. NothingUndone'
    BY <2>1 DEF NothingUndone
  <2>4. Settled' => LeaseInv'
    <3> SUFFICES ASSUME ~early PROVE LeaseInv'
      BY <2>1 DEF Settled
    <3>1. controlled' = {} /\ ~authority'
      BY <2>1 DEF NothingUndone
    <3> QED
      BY <2>1, <3>1 DEF LeaseInv, LeaseClock, OnALease, WaitFitsLease, Off
  <2> QED
    BY <2>2, <2>3, <2>4
<1> QED
  BY <1>1, <1>2 DEF Constructor

\* The expiry check keeps the clock, and leaves no deadline that has passed.
LEMMA ExpireInv ==
  ASSUME Inv, ExpireLeaseIfNeeded
  PROVE  /\ authority' \in BOOLEAN /\ deadline' \in { Off } \cup 1 .. Lease
         /\ controlled' \subseteq controlled /\ silence' \in Off .. MaxSilence
         /\ early' = early /\ (authority' => authority)
         /\ Settled =>
              /\ LeaseClock' /\ (deadline' # Off => authority')
              /\ controlled' \cap InProcess # {} => authority'
              /\ (authority => deadline # Off) => (authority' => deadline' # Off)
<1> USE Intervals DEF Inv
<1>1. CASE deadline = 0
  <2>1. deadline' = Off /\ authority' = FALSE /\ silence' = Off /\ early' = early
    BY <1>1 DEF ExpireLeaseIfNeeded
  <2>2. PICK unreachable \in SUBSET Remote : controlled' = controlled \ Released(unreachable)
    BY <1>1 DEF ExpireLeaseIfNeeded
  <2>3. controlled' \subseteq controlled
    BY <2>2
  <2>4. controlled' \cap InProcess = {}
    BY <2>2, ControlAssumption DEF TypeOK, Released, Domain, ControlAssumption
  <2>5. LeaseClock' /\ silence' \in Off .. MaxSilence
    BY <2>1 DEF LeaseClock, Off, MaxSilence
  <2> QED
    BY <2>1, <2>3, <2>4, <2>5
<1>2. CASE deadline # 0
  <2>1. UNCHANGED << authority, deadline, controlled, silence, early >>
    BY <1>2 DEF ExpireLeaseIfNeeded, leaseVars
  <2>2. Settled => LeaseClock' /\ (controlled' \cap InProcess # {} => authority')
                     /\ (deadline' # Off => authority')
    BY <2>1 DEF LeaseInv, LeaseClock, OnALease
  <2>3. deadline' \in { Off } \cup 1 .. Lease
    BY <1>2, <2>1 DEF TypeOK, Off
  <2> QED
    BY <2>1, <2>2, <2>3 DEF TypeOK
<1> QED
  BY <1>1, <1>2

-----------------------------------------------------------------------------
(* One lemma per part of the next-state relation *)

\* What the constructor may undo is as before after a step that takes no control.
LEMMA UndoneKept ==
  ASSUME Inv, UNCHANGED << members, early >>, controlled' \subseteq controlled, authority' => authority
  PROVE  NothingUndone' /\ (Settled' <=> Settled)
  BY DEF Inv, NothingUndone, Settled

\* A step that leaves the lease alone.
LEMMA QuietInv ==
  ASSUME Inv, UNCHANGED << authority, deadline, controlled, silence, early, members >>,
         TypeOK', LeaseInv => LeaseInv'
  PROVE  Inv'
  BY UndoneKept DEF Inv

\* The steps of Run outside a connection: exits, accepts and waits.
LEMMA RunInv == ASSUME Inv, Run PROVE Inv'
<1> USE Intervals
<1>1. CASE RunExits \/ AcceptFails \/ AcceptHost \/ AcceptsTooEarly \/ WaitEnds
  <2>1. /\ UNCHANGED << purpose, authority, deadline, controlled, silence, early, members, cut, stopping,
                         destructor >>
        /\ timer' \in { 0, timer } /\ active' \in { TRUE, active }
        /\ worker \in { "run", "accepting", "waiting" }
        /\ worker' \in { "refused", "process", "stuck", "run", "exited" }
    BY <1>1 DEF RunExits, AcceptFails, AcceptHost, AcceptsTooEarly, WaitEnds, leaseVars, stopVars
  <2>2. worker' \in Phases
    BY <2>1 DEF Phases, InConnection
  <2>3. TypeOK'
    <3>1. timer' \in 0 .. Reconnect \cup 0 .. Poll
      BY <2>1 DEF Inv, TypeOK
    <3>2. active' \in BOOLEAN
      BY <2>1 DEF Inv, TypeOK
    <3> QED
      BY <2>1, <2>2, <3>1, <3>2 DEF Inv, TypeOK
  <2>4. LeaseInv => LeaseInv'
    BY <2>1 DEF LeaseInv, LeaseClock, OnALease, WaitFitsLease, Disconnected
  <2> QED
    BY <2>1, <2>3, <2>4, QuietInv
<1>2. CASE RunContinues \/ Retry
  <2>1. /\ worker \in { "run", "refused" } /\ worker' \in { "run", "accepting" } /\ ExpireLeaseIfNeeded
        /\ UNCHANGED << purpose, timer, active, members, cut, stopping, destructor >>
    BY <1>2 DEF RunContinues, Retry, stopVars
  <2>2. TypeOK'
    BY <2>1, ExpireInv DEF Inv, TypeOK, Phases, Off
  <2>3. Settled => LeaseInv'
    <3> SUFFICES ASSUME Settled PROVE LeaseInv'
      OBVIOUS
    <3>1. authority => deadline # Off
      BY <2>1 DEF Inv, LeaseInv, OnALease, Disconnected
    <3>2. OnALease' /\ WaitFitsLease' /\ LeaseClock'
      BY <2>1, <3>1, ExpireInv DEF OnALease, WaitFitsLease, Disconnected
    <3> QED
      BY <3>2 DEF LeaseInv
  <2>4. NothingUndone' /\ (Settled' <=> Settled)
    BY <2>1, ExpireInv, UndoneKept
  <2> QED
    BY <2>2, <2>3, <2>4 DEF Inv
<1>3. CASE WaitToReconnect
  <2>1. /\ worker = "refused" /\ worker' = "waiting"
        /\ UNCHANGED << purpose, authority, deadline, controlled, silence, early, active, members, cut,
                        stopping, destructor >>
    BY <1>3 DEF WaitToReconnect, leaseVars, stopVars
  <2>2. timer' = NextReconnectWait /\ NextReconnectWait > 0
    BY <1>3 DEF WaitToReconnect
  <2>3. deadline # Off => timer' <= deadline /\ deadline > 0
    BY <2>2 DEF Inv, TypeOK, NextReconnectWait, Off
  <2>4. timer' \in 0 .. Reconnect
    BY <2>2 DEF Inv, TypeOK, NextReconnectWait, Off
  <2>5. TypeOK'
    BY <2>1, <2>4 DEF Inv, TypeOK, Phases
  <2>6. LeaseInv => WaitFitsLease'
    <3> SUFFICES ASSUME LeaseInv PROVE WaitFitsLease'
      OBVIOUS
    <3>1. deadline \in Int /\ silence \in Int /\ timer' \in Int
      BY <2>4 DEF Inv, TypeOK, Off, MaxSilence
    <3>2. deadline # Off => silence = Lease - deadline
      BY <2>3 DEF LeaseInv, LeaseClock
    <3>3. worker' = "waiting" /\ deadline' = deadline /\ silence' = silence
      BY <2>1
    <3>4. ASSUME deadline # Off PROVE silence + timer' <= Lease
      <4>1. timer' <= deadline /\ silence = Lease - deadline
        BY <2>3, <3>2, <3>4
      <4>2. deadline \in Int /\ timer' \in Int /\ Lease \in Int
        BY <3>1
      <4> QED
        BY <4>1, <4>2, Difference
    <3> QED
      BY <3>3, <3>4 DEF WaitFitsLease
  <2>7. LeaseInv => LeaseClock' /\ OnALease'
    BY <2>1 DEF LeaseInv, LeaseClock, OnALease, Disconnected
  <2> QED
    BY <2>1, <2>5, <2>6, <2>7, QuietInv DEF LeaseInv
<1> QED
  BY <1>1, <1>2, <1>3 DEF Run

\* The steps of a connection that neither poll nor touch the lease.
ConnectionMoves ==
  /\ ~Disconnected /\ worker' \notin { "run", "accepting", "refused", "waiting", "polling" }
  /\ worker' \in Phases
  /\ purpose' \in { "read", "write" }
  /\ timer' \in { 0, timer }
  /\ UNCHANGED << authority, deadline, controlled, silence, early, active, members, cut, stopping,
                  destructor >>

\* The worker moves on within a connection and touches no lease.
LEMMA MovesInv == ASSUME Inv, ConnectionMoves PROVE Inv'
<1> USE Intervals DEF ConnectionMoves
<1>1. TypeOK'
  BY DEF Inv, TypeOK
<1>2. LeaseInv => LeaseInv'
  BY DEF LeaseInv, LeaseClock, OnALease, WaitFitsLease, Disconnected
<1> QED
  BY <1>1, <1>2, QuietInv

\* The steps of ProcessConnection: reading, answering, expiring, polling.
LEMMA ConnectionInv == ASSUME Inv, ProcessConnection PROVE Inv'
<1> USE Intervals
<1>1. CASE \/ ReadRequest \/ PollReady \/ PollTimesOut \/ HostHangsUp \/ Receive
           \/ Send \/ SendCompletes \/ SendFails \/ HandleQuery \/ HandlerFails
  <2>1. ConnectionMoves
    BY <1>1 DEF ReadRequest, PollReady, PollTimesOut, HostHangsUp, Receive, Send, SendCompletes, SendFails,
                HandleQuery, HandlerFails, ConnectionMoves, Inv, TypeOK, Phases, InConnection,
                Disconnected, leaseVars, stopVars
  <2> QED
    BY <2>1, MovesInv
<1>2. CASE PollSocket
  <2>0. worker = "check" /\ UNCHANGED << purpose, active, members, cut, stopping, destructor >>
    BY <1>2 DEF PollSocket, stopVars
  <2>1. CASE stopping
    <3>1. ConnectionMoves
      BY <1>2, <2>0, <2>1 DEF PollSocket, ConnectionMoves, Inv, TypeOK, Phases, InConnection,
                              Disconnected, leaseVars
    <3> QED
      BY <3>1, MovesInv
  <2>2. CASE ~stopping
    <3>1. timer' = Poll /\ worker' = "polling" /\ ExpireLeaseIfNeeded
      BY <1>2, <2>2 DEF PollSocket
    <3>2. TypeOK'
      BY <2>0, <3>1, ExpireInv DEF Inv, TypeOK, Phases, InConnection, Off
    <3>3. Settled => WaitFitsLease'
      BY <3>1, ExpireInv DEF WaitFitsLease, LeaseClock, Off
    <3>4. Settled => OnALease'
      BY <3>1, ExpireInv DEF OnALease, Disconnected
    <3>5. NothingUndone' /\ (Settled' <=> Settled)
      BY <2>0, <3>1, ExpireInv, UndoneKept
    <3> QED
      BY <3>1, <3>2, <3>3, <3>4, <3>5, ExpireInv DEF Inv, LeaseInv
  <2> QED
    BY <2>1, <2>2 DEF Inv, TypeOK
<1>3. CASE HandleMutation
  <2>1. /\ worker' = "check" /\ purpose' = "write"
        /\ UNCHANGED << timer, active, members, cut, stopping, destructor >>
    BY <1>3 DEF HandleMutation, stopVars
  <2>2. authority' = TRUE /\ deadline' = Off /\ silence' = Off /\ early' = (members # "all")
    BY <1>3 DEF HandleMutation, RefreshLease
  <2>3. controlled' \subseteq Domain
    BY <1>3 DEF HandleMutation, Inv, TypeOK
  <2>4. TypeOK'
    BY <2>1, <2>2, <2>3 DEF Inv, TypeOK, Phases, InConnection, Off, MaxSilence
  <2>5. LeaseInv'
    BY <2>1, <2>2 DEF LeaseInv, LeaseClock, OnALease, WaitFitsLease, Disconnected, Off
  <2>6. NothingUndone'
    BY <2>1, <2>2 DEF NothingUndone
  <2> QED
    BY <2>4, <2>5, <2>6 DEF Inv
<1>4. CASE CloseConnection
  <2>0. /\ active' = FALSE /\ cut' = FALSE /\ UNCHANGED << purpose, timer, members, stopping, destructor >>
        /\ UNCHANGED << authority, controlled, early >>
    BY <1>4 DEF CloseConnection, BeginDisconnectLease, leaseVars
  <2>1. NothingUndone' /\ (Settled' <=> Settled)
    BY <2>0, UndoneKept
  <2>2. CASE stopping
    <3>1. worker' = "exited" /\ UNCHANGED << deadline, silence >>
      BY <1>4, <2>2 DEF CloseConnection, leaseVars
    <3>2. TypeOK'
      BY <2>0, <3>1 DEF Inv, TypeOK, Phases
    <3>3. LeaseInv => LeaseInv'
      BY <2>0, <3>1 DEF LeaseInv, LeaseClock, OnALease, WaitFitsLease, Disconnected
    <3> QED
      BY <2>1, <3>2, <3>3 DEF Inv
  <2>3. CASE ~stopping
    <3>1. worker' = "run"
      BY <1>4, <2>3 DEF CloseConnection
    <3>2. /\ deadline' = IF authority /\ deadline = Off THEN Lease ELSE deadline
          /\ silence' = IF authority /\ silence = Off THEN 0 ELSE silence
      BY <1>4, <2>3 DEF CloseConnection, BeginDisconnectLease, LeaseAfterDisconnect
    <3>3. TypeOK'
      <4>1. silence' \in Off .. MaxSilence
        BY <3>2 DEF Inv, TypeOK, Off, MaxSilence
      <4>2. deadline' \in { Off } \cup 0 .. Lease
        BY <3>2 DEF Inv, TypeOK, Off
      <4> QED
        BY <2>0, <3>1, <4>1, <4>2 DEF Inv, TypeOK, Phases
    <3>4. LeaseInv => LeaseClock'
      BY <3>2 DEF Inv, TypeOK, LeaseInv, LeaseClock, Off
    <3>5. LeaseInv => OnALease' /\ WaitFitsLease'
      BY <2>0, <3>1, <3>2 DEF LeaseInv, OnALease, WaitFitsLease, Disconnected, Off
    <3> QED
      BY <2>1, <3>3, <3>4, <3>5 DEF Inv, LeaseInv
  <2> QED
    BY <2>2, <2>3 DEF Inv, TypeOK
<1> QED
  BY <1>1, <1>2, <1>3, <1>4 DEF ProcessConnection

\* The destructor asks the worker to stop and joins it.
LEMMA DestructorInv == ASSUME Inv, Destructor PROVE Inv'
<1>1. UNCHANGED << worker, purpose, timer, authority, deadline, controlled, silence, early, active, members >>
  BY DEF Destructor, DestroyMarks, DestroyShutdown, DestroyJoins, leaseVars
<1>2. TypeOK'
  BY <1>1 DEF Inv, TypeOK, Destructor, DestroyMarks, DestroyShutdown, DestroyJoins
<1>3. LeaseInv => LeaseInv'
  BY <1>1 DEF LeaseInv, LeaseClock, OnALease, WaitFitsLease, Disconnected
<1> QED
  BY <1>1, <1>2, <1>3, QuietInv

\* A service lets go of what the host controlled in it.
LEMMA ServiceInv == ASSUME Inv, ServiceLets PROVE Inv'
<1>1. /\ controlled' \subseteq controlled
      /\ UNCHANGED << worker, purpose, timer, authority, deadline, silence, early, active, members, cut,
                      stopping, destructor >>
  BY DEF ServiceLets, stopVars
<1>2. TypeOK'
  BY <1>1 DEF Inv, TypeOK
<1>3. LeaseInv => OnALease'
  BY <1>1 DEF LeaseInv, OnALease, Disconnected
<1>4. LeaseInv => LeaseClock' /\ WaitFitsLease'
  BY <1>1 DEF LeaseInv, LeaseClock, WaitFitsLease
<1>5. NothingUndone' /\ (Settled' <=> Settled)
  BY <1>1, UndoneKept
<1> QED
  BY <1>2, <1>3, <1>4, <1>5 DEF Inv, LeaseInv

\* A tick moves the deadline and the silence together.
LEMMA TickInv == ASSUME Inv, Tick PROVE Inv'
<1> USE Intervals
<1>1. UNCHANGED << worker, purpose, authority, controlled, early, active, members, cut, stopping,
                   destructor >>
  BY DEF Tick, stopVars
<1>2. /\ timer' = IF timer > 0 THEN timer - 1 ELSE 0
      /\ deadline' = IF deadline > 0 THEN deadline - 1 ELSE deadline
      /\ silence' = IF silence \in 0 .. MaxSilence - 1 THEN silence + 1 ELSE silence
      /\ worker \in { "waiting", "polling" } => timer > 0
  BY DEF Tick
<1>3. TypeOK'
  BY <1>1, <1>2 DEF Inv, TypeOK, Off, MaxSilence
<1>4. LeaseInv => LeaseClock'
  BY <1>2 DEF Inv, TypeOK, LeaseInv, LeaseClock, Off, MaxSilence
<1>5. LeaseInv => OnALease'
  BY <1>1, <1>2 DEF Inv, TypeOK, LeaseInv, OnALease, Disconnected, Off
<1>6. LeaseInv => WaitFitsLease'
  BY <1>1, <1>2 DEF Inv, TypeOK, LeaseInv, LeaseClock, WaitFitsLease, Off, MaxSilence
<1>7. NothingUndone' /\ (Settled' <=> Settled)
  BY <1>1, UndoneKept
<1> QED
  BY <1>3, <1>4, <1>5, <1>6, <1>7 DEF Inv, LeaseInv

\* Every step of the channel.
LEMMA NextInv == ASSUME Inv, [Next]_vars PROVE Inv'
<1>1. CASE Next
  BY <1>1, ConstructorInv, RunInv, ConnectionInv, DestructorInv, ServiceInv, TickInv DEF Next
<1>2. CASE UNCHANGED vars
  BY <1>2 DEF vars, Inv, TypeOK, NothingUndone, Settled, LeaseInv, LeaseClock, OnALease,
              WaitFitsLease, Disconnected
<1> QED
  BY <1>1, <1>2

-----------------------------------------------------------------------------

\* The strengthened invariant of the control channel's worker (HostControlChannel).
THEOREM LeaseInvariant == Spec => []Inv
<1> QED
  BY InitInv, NextInv, PTL DEF Spec

\* No control without authority, and none without a running lease while no host is
\* connected, whatever the intervals (RefreshLease before the response is written,
\* BeginDisconnectLease).
THEOREM LeaseNoOrphanedControl == Spec => [](TypeOK /\ NoOrphanedControl)
<1>1. Inv => TypeOK /\ NoOrphanedControl
  BY DEF Inv, LeaseInv, OnALease, NoOrphanedControl, Disconnected
<1> QED
  BY <1>1, LeaseInvariant, PTL

\* The worker never sleeps more than one poll past the end of the lease, and never
\* waits for a reconnection past it (NextReconnectWait, PollSocket).
THEOREM LeaseNeverSleepsOverdue == Spec => []NeverSleepsOverdue
<1>1. Inv => NeverSleepsOverdue
  <2> SUFFICES ASSUME Inv, Settled PROVE NeverSleepsOverdue
    BY DEF NeverSleepsOverdue
  <2> USE Intervals
  <2>1. timer \in Nat /\ silence \in Int
    BY DEF Inv, TypeOK, Off, MaxSilence
  <2>2. CASE deadline = Off
    BY <2>1, <2>2 DEF Inv, LeaseInv, LeaseClock, NeverSleepsOverdue, Off
  <2>3. CASE deadline # Off
    BY <2>1, <2>3 DEF Inv, LeaseInv, WaitFitsLease, NeverSleepsOverdue
  <2> QED
    BY <2>2, <2>3
<1> QED
  BY <1>1, LeaseInvariant, PTL

\* Authority ends only after a full lease of silence (ExpireLeaseIfNeeded).
THEOREM LeaseExpiryIsNotEarly == Spec => ExpiryIsNotEarly
<1>1. ASSUME Inv, [Next]_vars, Settled, authority, ~authority' PROVE silence >= Lease
  <2>1. ExpireLeaseIfNeeded => silence >= Lease
    BY <1>1 DEF Inv, LeaseInv, LeaseClock, ExpireLeaseIfNeeded, leaseVars
  <2>2. CASE Run
    BY <1>1, <2>1, <2>2 DEF Run, RunExits, RunContinues, AcceptFails, AcceptHost, AcceptsTooEarly,
                            Retry, WaitToReconnect, WaitEnds, leaseVars
  <2>3. CASE PollSocket
    BY <1>1, <2>1, <2>3 DEF PollSocket, leaseVars
  <2>4. CASE CloseConnection
    BY <1>1, <2>4 DEF CloseConnection, BeginDisconnectLease, leaseVars
  <2>5. CASE HandleMutation
    BY <1>1, <2>5 DEF HandleMutation, RefreshLease
  <2>6. CASE ProcessConnection /\ ~PollSocket /\ ~CloseConnection /\ ~HandleMutation
    BY <1>1, <2>6 DEF ProcessConnection, ReadRequest, PollReady, PollTimesOut, HostHangsUp, Receive,
                      Send, SendCompletes, SendFails, HandleQuery, HandlerFails, leaseVars
  <2>7. CASE Destructor
    BY <1>1, <2>7 DEF Destructor, DestroyMarks, DestroyShutdown, DestroyJoins, leaseVars
  <2>8. CASE ServiceLets \/ Tick \/ UNCHANGED vars
    BY <1>1, <2>8 DEF ServiceLets, Tick, vars
  <2>9. CASE Constructor
    BY <1>1, <2>9 DEF Constructor, ConstructSocket, ConstructAuthority, ConstructDeadline, Settled
  <2> QED
    BY <1>1, <2>2, <2>3, <2>4, <2>5, <2>6, <2>7, <2>8, <2>9 DEF Next
<1>2. Inv /\ [Next]_vars => [Settled /\ authority /\ ~authority' => silence >= Lease]_vars
  BY <1>1
<1> QED
  BY <1>2, LeaseInvariant, PTL DEF Spec, ExpiryIsNotEarly

-----------------------------------------------------------------------------
(* The destructor joins the worker.  What can be said of DestroyReturns    *)
(* without fairness: the worker has at most five turns left, the one call  *)
(* that could keep it from taking them, send(), is on a socket that was    *)
(* shut down unless the destructor has none to shut down, and that comes   *)
(* of the constructor's race with the worker and of nothing else.          *)

UsesSocket == worker \in { "check", "polling", "ready", "handling", "sending" }

\* A socket that was not lost is active as long as the worker uses it.
SocketIsActive ==
  /\ stopping => members = "all"
  /\ destructor # "none" => stopping
  /\ destructor = "joining" /\ UsesSocket => cut \/ ~active

\* The turns the worker takes at most before it returns.
TurnsLeft ==
  [ w \in Phases |->
      IF w \in { "exited", "stuck" } THEN 0
      ELSE IF w \in { "run", "waiting", "closing" } THEN 1
      ELSE IF w \in { "check", "process", "refused" } THEN 2
      ELSE IF w \in { "accepting", "handling", "sending" } THEN 3
      ELSE IF w = "ready" THEN 4
      ELSE 5 ]

JoinsNoBlockedSend == destructor = "joining" /\ worker = "sending" /\ ~OutOfReach => cut

JoinTakesTurns ==
  [][ destructor = "joining" /\ worker' # worker => TurnsLeft[worker'] < TurnsLeft[worker] ]_vars

OnlyTheConstructorLosesIt == [][ ~OutOfReach /\ OutOfReach' => members = "socket" ]_vars

SocketInv == worker \in Phases /\ SocketIsActive

\* A host may be accepted after the destructor has looked for a socket to shut down:
\* the worker then reads stopping_ before it uses the one it got.
LEMMA SocketStep == ASSUME SocketInv, [Next]_vars PROVE SocketInv'
<1> USE DEF SocketInv, SocketIsActive, UsesSocket, Phases, InConnection, stopVars
<1>1. CASE Run
  BY <1>1 DEF Run, RunExits, RunContinues, AcceptFails, AcceptHost, AcceptsTooEarly, Retry,
              WaitToReconnect, WaitEnds
<1>2. CASE ReadRequest \/ PollSocket \/ PollReady \/ PollTimesOut \/ HostHangsUp \/ Receive
  BY <1>2 DEF ReadRequest, PollSocket, PollReady, PollTimesOut, HostHangsUp, Receive
<1>3. CASE Send \/ SendCompletes \/ SendFails \/ HandleMutation \/ HandleQuery \/ HandlerFails
  BY <1>3 DEF Send, SendCompletes, SendFails, HandleMutation, HandleQuery, HandlerFails
<1>4. CASE CloseConnection
  BY <1>4 DEF CloseConnection
<1>5. CASE Destructor
  BY <1>5 DEF Destructor, DestroyMarks, DestroyShutdown, DestroyJoins
<1>6. CASE ServiceLets \/ Tick \/ UNCHANGED vars
  BY <1>6 DEF ServiceLets, Tick, vars
<1>7. CASE Constructor
  BY <1>7 DEF Constructor, ConstructSocket, ConstructAuthority, ConstructDeadline
<1> QED
  BY <1>1, <1>2, <1>3, <1>4, <1>5, <1>6, <1>7 DEF Next, ProcessConnection

\* How many turns are left where.
LEMMA TurnsAre ==
  /\ TurnsLeft["exited"] = 0 /\ TurnsLeft["stuck"] = 0
  /\ TurnsLeft["run"] = 1 /\ TurnsLeft["waiting"] = 1 /\ TurnsLeft["closing"] = 1
  /\ TurnsLeft["check"] = 2 /\ TurnsLeft["process"] = 2 /\ TurnsLeft["refused"] = 2
  /\ TurnsLeft["accepting"] = 3 /\ TurnsLeft["handling"] = 3 /\ TurnsLeft["sending"] = 3
  /\ TurnsLeft["ready"] = 4
  /\ TurnsLeft["polling"] = 5
  BY DEF TurnsLeft, Phases, InConnection

\* While the destructor joins, each turn of the worker brings it nearer to its end.
LEMMA TurnStep ==
  ASSUME SocketInv, [Next]_vars, destructor = "joining", worker' # worker
  PROVE  TurnsLeft[worker'] < TurnsLeft[worker]
<1> USE DEF SocketInv, SocketIsActive
<1>1. CASE Run
  <2>1. \/ worker = "run" /\ worker' = "exited"
        \/ worker = "accepting" /\ worker' \in { "refused", "process" }
        \/ worker = "refused" /\ worker' \in { "run", "waiting" }
        \/ worker = "waiting" /\ worker' = "exited"
    BY <1>1 DEF Run, RunExits, RunContinues, AcceptFails, AcceptHost, AcceptsTooEarly, Retry,
                WaitToReconnect, WaitEnds
  <2> QED
    BY <2>1, TurnsAre
<1>2. CASE ReadRequest \/ PollSocket \/ PollReady \/ PollTimesOut \/ HostHangsUp \/ Receive
  <2>1. \/ worker \in { "process", "check" } /\ worker' = "closing"
        \/ worker = "polling" /\ worker' \in { "ready", "check", "closing" }
        \/ worker = "ready" /\ worker' \in { "check", "handling", "closing" }
    BY <1>2 DEF ReadRequest, PollSocket, PollReady, PollTimesOut, HostHangsUp, Receive
  <2> QED
    BY <2>1, TurnsAre
<1>3. CASE Send \/ SendCompletes \/ SendFails \/ HandleMutation \/ HandleQuery \/ HandlerFails
  <2>1. \/ worker = "ready" /\ worker' = "sending"
        \/ worker = "sending" /\ worker' \in { "check", "process", "closing" }
        \/ worker = "handling" /\ worker' \in { "check", "closing" }
    BY <1>3 DEF Send, SendCompletes, SendFails, HandleMutation, HandleQuery, HandlerFails
  <2> QED
    BY <2>1, TurnsAre
<1>4. CASE CloseConnection
  <2>1. worker = "closing" /\ worker' = "exited"
    BY <1>4 DEF CloseConnection
  <2> QED
    BY <2>1, TurnsAre
<1>5. CASE Constructor \/ Destructor \/ ServiceLets \/ Tick \/ UNCHANGED vars
  BY <1>5 DEF Constructor, ConstructSocket, ConstructAuthority, ConstructDeadline, Destructor,
              DestroyMarks, DestroyShutdown, DestroyJoins, ServiceLets, Tick, vars
<1> QED
  BY <1>1, <1>2, <1>3, <1>4, <1>5 DEF Next, ProcessConnection

\* The worker keeps the socket it made active until it closes it; the constructor, once
\* past that member, takes none.
LEMMA LosesStep ==
  ASSUME [Next]_vars, ~OutOfReach, OutOfReach'
  PROVE  members = "socket"
<1> USE DEF OutOfReach, InConnection
<1>1. CASE Run
  BY <1>1 DEF Run, RunExits, RunContinues, AcceptFails, AcceptHost, AcceptsTooEarly, Retry,
              WaitToReconnect, WaitEnds
<1>2. CASE ReadRequest \/ PollSocket \/ PollReady \/ PollTimesOut \/ HostHangsUp \/ Receive
  BY <1>2 DEF ReadRequest, PollSocket, PollReady, PollTimesOut, HostHangsUp, Receive
<1>3. CASE Send \/ SendCompletes \/ SendFails \/ HandleMutation \/ HandleQuery \/ HandlerFails
  BY <1>3 DEF Send, SendCompletes, SendFails, HandleMutation, HandleQuery, HandlerFails
<1>4. CASE CloseConnection
  BY <1>4 DEF CloseConnection
<1>5. CASE Constructor \/ Destructor \/ ServiceLets \/ Tick \/ UNCHANGED vars
  BY <1>5 DEF Constructor, ConstructSocket, ConstructAuthority, ConstructDeadline, Destructor,
              DestroyMarks, DestroyShutdown, DestroyJoins, ServiceLets, Tick, vars
<1> QED
  BY <1>1, <1>2, <1>3, <1>4, <1>5 DEF Next, ProcessConnection

\* Wherever the worker is when the destructor begins, and whichever host it accepts
\* meanwhile: the destructor waits for at most five turns, none of them in a send()
\* that only the host could end, unless it has no socket by which to reach the worker;
\* and only a constructor that has yet to initialise the socket takes it away (Impl,
\* ~Impl, Run, WriteExact).
THEOREM LeaseDestroyIsBounded ==
  Spec => []JoinsNoBlockedSend /\ JoinTakesTurns /\ OnlyTheConstructorLosesIt
<1>1. Init => SocketInv
  BY DEF Init, SocketInv, SocketIsActive, Phases
<1>2. SocketInv => JoinsNoBlockedSend
  BY DEF SocketInv, SocketIsActive, UsesSocket, OutOfReach, InConnection, JoinsNoBlockedSend
<1>3. SocketInv /\ [Next]_vars =>
        [ destructor = "joining" /\ worker' # worker => TurnsLeft[worker'] < TurnsLeft[worker] ]_vars
  BY TurnStep
<1>4. [Next]_vars => [ ~OutOfReach /\ OutOfReach' => members = "socket" ]_vars
  BY LosesStep
<1> QED
  BY <1>1, <1>2, <1>3, <1>4, SocketStep, PTL DEF Spec, JoinTakesTurns, OnlyTheConstructorLosesIt

-----------------------------------------------------------------------------
(* The clock implements the lease that FHC1 describes.  A lease is held    *)
(* while it has no deadline.  A worker that exits leaves it to run out     *)
(* uncounted: the process is going.  There is none before the constructor  *)
(* returns, and the constructor undoes none as long as no mutation is      *)
(* handled before it returns.                                              *)

HostIsServed == worker \in InConnection

LeaseState ==
  IF members # "all" \/ ~authority THEN "none"
  ELSE IF deadline # Off \/ worker = "exited" THEN "running" ELSE "held"

HostLease == INSTANCE AuthorityLease WITH connected <- HostIsServed, authority <- LeaseState

\* The expiry check, wherever the worker makes it, ends a lease that runs or none.
LEMMA ExpiryKeepsLease ==
  ASSUME Inv, ~early, ExpireLeaseIfNeeded, HostIsServed' = HostIsServed, members' = members,
         worker # "exited", worker' # "exited"
  PROVE  HostLease!Expire \/ UNCHANGED << HostIsServed, LeaseState >>
<1>1. CASE deadline = 0 /\ members = "all"
  <2>1. authority /\ deadline # Off /\ authority' = FALSE
    BY <1>1 DEF ExpireLeaseIfNeeded, Inv, Settled, LeaseInv, OnALease, Off
  <2>2. LeaseState = "running" /\ LeaseState' = "none"
    BY <1>1, <2>1 DEF LeaseState
  <2> QED
    BY <2>2 DEF HostLease!Expire
<1>2. CASE deadline # 0
  <2>1. UNCHANGED << authority, deadline >>
    BY <1>2 DEF ExpireLeaseIfNeeded, leaseVars
  <2> QED
    BY <2>1 DEF LeaseState
<1>3. CASE members # "all"
  BY <1>3 DEF LeaseState
<1> QED
  BY <1>1, <1>2, <1>3

\* Without control to undo, the constructor ends no lease.
LEMMA ConstructorKeepsLease ==
  ASSUME Inv, ~early, Constructor
  PROVE  UNCHANGED << HostIsServed, LeaseState >>
<1>1. worker' = worker /\ members # "all"
  BY DEF Constructor, ConstructSocket, ConstructAuthority, ConstructDeadline
<1>2. members' = "all" => ~authority'
  BY DEF Constructor, ConstructSocket, ConstructAuthority, ConstructDeadline, Inv, NothingUndone
<1> QED
  BY <1>1, <1>2 DEF HostIsServed, LeaseState

\* Run accepts hosts, and expires the lease between connections.
LEMMA RunKeepsLease ==
  ASSUME Inv, ~early, Run
  PROVE  HostLease!Next \/ UNCHANGED << HostIsServed, LeaseState >>
<1> USE DEF HostIsServed, InConnection
<1>1. CASE RunContinues \/ Retry
  <2>1. /\ ExpireLeaseIfNeeded /\ HostIsServed' = HostIsServed /\ members' = members
        /\ worker # "exited" /\ worker' # "exited"
    BY <1>1 DEF RunContinues, Retry, stopVars
  <2> QED
    BY <2>1, ExpiryKeepsLease DEF HostLease!Next
<1>2. CASE RunExits \/ WaitEnds
  <2>1. /\ worker \in { "run", "waiting" } /\ worker' \in { "run", "exited" }
        /\ UNCHANGED << authority, deadline, members >>
    BY <1>2 DEF RunExits, WaitEnds, leaseVars, stopVars
  <2>2. members = "all" /\ authority => deadline # Off
    BY <2>1 DEF Inv, Settled, LeaseInv, OnALease, Disconnected
  <2> QED
    BY <2>1, <2>2 DEF LeaseState
<1>3. CASE AcceptFails \/ WaitToReconnect \/ AcceptsTooEarly
  BY <1>3 DEF AcceptFails, WaitToReconnect, AcceptsTooEarly, leaseVars, stopVars, LeaseState
<1>4. CASE AcceptHost
  <2>1. ~HostIsServed /\ HostIsServed' = TRUE /\ LeaseState' = LeaseState
    BY <1>4 DEF AcceptHost, leaseVars, stopVars, LeaseState
  <2> QED
    BY <2>1 DEF HostLease!HostComes, HostLease!Next
<1> QED
  BY <1>1, <1>2, <1>3, <1>4 DEF Run

\* A connection expires what was left over from before it, renews what it changes,
\* and starts the lease when it ends.
LEMMA ConnectionKeepsLease ==
  ASSUME Inv, ~early, ProcessConnection
  PROVE  HostLease!Next \/ UNCHANGED << HostIsServed, LeaseState >>
<1> USE DEF HostIsServed, InConnection
<1>1. CASE PollSocket
  <2>1. CASE stopping
    BY <1>1, <2>1 DEF PollSocket, leaseVars, stopVars, LeaseState
  <2>2. CASE ~stopping
    <3>1. /\ ExpireLeaseIfNeeded /\ HostIsServed' = HostIsServed /\ members' = members
          /\ worker # "exited" /\ worker' # "exited"
      BY <1>1, <2>2 DEF PollSocket, stopVars
    <3> QED
      BY <3>1, ExpiryKeepsLease DEF HostLease!Next
  <2> QED
    BY <2>1, <2>2
<1>2. CASE HandleMutation
  <2>1. HostIsServed /\ HostIsServed' = HostIsServed /\ members' = members
    BY <1>2 DEF HandleMutation, stopVars
  <2>2. CASE members = "all"
    <3>1. LeaseState' = "held"
      BY <1>2, <2>1, <2>2 DEF HandleMutation, RefreshLease, LeaseState
    <3> QED
      BY <2>1, <3>1 DEF HostLease!Renew, HostLease!Next
  <2>3. CASE members # "all"
    BY <2>1, <2>3 DEF LeaseState
  <2> QED
    BY <2>2, <2>3
<1>3. CASE CloseConnection
  <2>1. /\ worker = "closing" /\ HostIsServed /\ HostIsServed' = FALSE
        /\ members' = members /\ authority' = authority
    BY <1>3 DEF CloseConnection, BeginDisconnectLease, leaseVars
  <2>2. LeaseState' = HostLease!Kept(LeaseState)
    <3>1. CASE stopping
      BY <1>3, <2>1, <3>1 DEF CloseConnection, leaseVars, LeaseState, HostLease!Kept
    <3>2. CASE ~stopping
      <4>1. /\ worker' = "run"
            /\ deadline' = IF authority /\ deadline = Off THEN Lease ELSE deadline
        BY <1>3, <3>2 DEF CloseConnection, BeginDisconnectLease, LeaseAfterDisconnect
      <4>2. Lease # Off
        BY Intervals DEF Off
      <4> QED
        BY <2>1, <4>1, <4>2 DEF LeaseState, HostLease!Kept
    <3> QED
      BY <3>1, <3>2
  <2> QED
    BY <2>1, <2>2 DEF HostLease!HostGoes, HostLease!Next
<1>4. CASE ProcessConnection /\ ~PollSocket /\ ~HandleMutation /\ ~CloseConnection
  BY <1>4 DEF ProcessConnection, ReadRequest, PollReady, PollTimesOut, HostHangsUp, Receive, Send,
              SendCompletes, SendFails, HandleQuery, HandlerFails, leaseVars, stopVars, LeaseState
<1> QED
  BY <1>1, <1>2, <1>3, <1>4

\* Whatever the intervals, and wherever the destructor cuts in: the clock of the
\* control channel implements the lease that requests renew and expiries end, as long
\* as no mutation is handled before the constructor has returned.
THEOREM ClockKeepsLease == Spec /\ []~early => HostLease!Spec
<1>1. Init => HostLease!Init
  BY DEF Init, HostLease!Init, HostIsServed, InConnection, LeaseState
<1>2. ASSUME Inv, ~early, [Next]_vars PROVE HostLease!Next \/ UNCHANGED << HostIsServed, LeaseState >>
  <2>1. CASE Destructor \/ ServiceLets \/ UNCHANGED vars
    BY <2>1 DEF Destructor, DestroyMarks, DestroyShutdown, DestroyJoins, ServiceLets, vars, leaseVars,
                stopVars, HostIsServed, LeaseState
  <2>2. CASE Tick
    <3>1. deadline' # Off <=> deadline # Off
      BY <1>2, <2>2 DEF Tick, Inv, TypeOK, Off
    <3>2. UNCHANGED << worker, authority, members >>
      BY <2>2 DEF Tick, stopVars
    <3> QED
      BY <3>1, <3>2 DEF HostIsServed, LeaseState
  <2> QED
    BY <1>2, <2>1, <2>2, ConstructorKeepsLease, RunKeepsLease, ConnectionKeepsLease DEF Next
<1>3. Inv /\ ~early /\ [Next]_vars => [HostLease!Next]_<< HostIsServed, LeaseState >>
  BY <1>2
<1> QED
  BY <1>1, <1>3, LeaseInvariant, PTL DEF Spec, HostLease!Spec, HostLease!leaseVars
=============================================================================
