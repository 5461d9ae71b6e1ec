---------------------------- MODULE ControlLease ----------------------------
(***************************************************************************)
(* The FHC1 control channel: the worker of control/HostControlChannel.cpp, *)
(* its destructor, and the authority lease that gives the device back to   *)
(* its autonomous behaviour when the host goes away                        *)
(* (control/DeviceControlHandler.cpp and the handlers below it).           *)
(*                                                                         *)
(* What a request says is abstracted to the domain it takes control of or  *)
(* releases.  Time is counted in ticks; it passes at every moment, except  *)
(* that a timed wait whose time is up ends before the next tick.           *)
(*                                                                         *)
(* The worker is started by the constructor's initializer list before the  *)
(* members declared after it are initialised: the active socket with its   *)
(* mutex, the authority and its deadline, in this order.  Until then they  *)
(* hold what the memory held, and a worker that is quicker has its writes  *)
(* undone.  (The uninitialised socket is never read before it is written.) *)
(***************************************************************************)
EXTENDS Integers

CONSTANTS
  Lease,        \* config_.authority_lease, in ticks
  Reconnect,    \* config_.reconnect_interval, in ticks
  Poll,         \* the time one poll() call waits, in ticks
  InProcess,    \* domains whose state lives in this process: displays, simulation
  Remote        \* domains reached over binder: power, radio, Wi-Fi

ASSUME ControlAssumption ==
  /\ { Lease, Reconnect, Poll } \subseteq Nat \ {0}
  /\ InProcess \cap Remote = {}

Off == -1
Domain == InProcess \cup Remote

\* How long it takes before silence is no longer counted (model bound).
MaxSilence == Lease + Poll + 1

VARIABLES
  worker,      \* where the worker is, see Phases
  purpose,     \* what it polls the socket for
  timer,       \* ticks left of its timed wait
  authority,   \* has_authoritative_snapshot_
  deadline,    \* ticks left until lease_deadline_, Off when it has no value
  members,     \* the member the constructor initialises next, "all" when it has returned
  early,       \* history: the last mutation was handled before the constructor returned
  active,      \* active_socket_fd_ >= 0
  cut,         \* the destructor has shut the active socket down
  stopping,    \* stopping_
  destructor,  \* progress of ~Impl
  controlled,  \* the domains under the host's control
  silence      \* history: ticks since the host's first disconnect after its last mutation

vars == << worker, purpose, timer, authority, deadline, members, early, active, cut, stopping,
           destructor, controlled, silence >>

leaseVars == << authority, deadline, controlled, silence, early >>
stopVars == << members, cut, stopping, destructor >>

\* run: top of Run's loop       accepting: past its stop check   refused: the accept failed
\* waiting: in WaitFor
\* process: top of ProcessConnection's loop
\* check: top of PollSocket's loop   polling: in poll()        ready: after a successful poll
\* handling: in the handler   sending: in send()               closing: after ProcessConnection
\* stuck: locking a mutex that was not initialised, and was written to meanwhile
InConnection == { "process", "check", "polling", "ready", "handling", "sending", "closing" }
Phases == { "run", "accepting", "refused", "waiting", "exited", "stuck" } \cup InConnection

TypeOK ==
  /\ worker \in Phases
  /\ purpose \in { "read", "write" }
  /\ timer \in 0 .. Reconnect \cup 0 .. Poll
  /\ authority \in BOOLEAN
  /\ deadline \in { Off } \cup 0 .. Lease
  /\ members \in { "socket", "authority", "deadline", "all" } /\ early \in BOOLEAN
  /\ active \in BOOLEAN /\ cut \in BOOLEAN /\ stopping \in BOOLEAN
  /\ destructor \in { "none", "marked", "joining", "done" }
  /\ controlled \subseteq Domain
  /\ silence \in Off .. MaxSilence

\* worker_ has just been started.
Init ==
  /\ worker = "run" /\ purpose = "read" /\ timer = 0
  /\ members = "socket" /\ early = FALSE
  /\ authority \in BOOLEAN /\ deadline \in { Off } \cup 0 .. Lease
  /\ active = FALSE /\ cut = FALSE /\ stopping = FALSE /\ destructor = "none"
  /\ controlled = {} /\ silence = Off

-----------------------------------------------------------------------------
(* The rest of the constructor *)

ConstructSocket ==
  /\ members = "socket"
  /\ active' = FALSE
  /\ members' = "authority"
  /\ UNCHANGED << worker, purpose, timer, leaseVars, cut, stopping, destructor >>

ConstructAuthority ==
  /\ members = "authority"
  /\ authority' = FALSE
  /\ members' = "deadline"
  /\ UNCHANGED << worker, purpose, timer, deadline, controlled, silence, early, active, cut,
                  stopping, destructor >>

ConstructDeadline ==
  /\ members = "deadline"
  /\ deadline' = Off
  /\ silence' = Off
  /\ members' = "all"
  /\ UNCHANGED << worker, purpose, timer, authority, controlled, early, active, cut, stopping,
                  destructor >>

-----------------------------------------------------------------------------
(* The lease *)

\* OnAuthorityLeaseExpired: a service that does not answer is skipped.
Released(unreachable) == Domain \ unreachable

ExpireLeaseIfNeeded ==
  IF deadline = 0
  THEN /\ deadline' = Off
       /\ authority' = FALSE
       /\ silence' = Off
       /\ \E unreachable \in SUBSET Remote : controlled' = controlled \ Released(unreachable)
       /\ UNCHANGED early
  ELSE UNCHANGED leaseVars

\* A mutation that was applied, or changed nothing, renews the lease.
RefreshLease_KeepsDeadline ==
  /\ authority' = TRUE
  /\ silence' = Off
  /\ UNCHANGED deadline

RefreshLease ==
  /\ authority' = TRUE
  /\ deadline' = Off
  /\ silence' = Off

LeaseAfterDisconnect == IF authority /\ deadline = Off THEN Lease ELSE deadline

BeginDisconnectLease ==
  /\ deadline' = LeaseAfterDisconnect
  /\ silence' = IF authority /\ silence = Off THEN 0 ELSE silence
  /\ UNCHANGED << authority, controlled, early >>

NextReconnectWait_Ignored == Reconnect
NextReconnectWait == IF deadline # Off /\ deadline < Reconnect THEN deadline ELSE Reconnect

-----------------------------------------------------------------------------
(* Run *)

RunExits ==
  /\ worker = "run"
  /\ stopping
  /\ worker' = "exited"
  /\ UNCHANGED << purpose, timer, leaseVars, active, stopVars >>

RunContinues ==
  /\ worker = "run"
  /\ ~stopping
  /\ ExpireLeaseIfNeeded
  /\ worker' = "accepting"
  /\ UNCHANGED << purpose, timer, active, stopVars >>

AcceptFails ==
  /\ worker = "accepting"
  /\ worker' = "refused"
  /\ UNCHANGED << purpose, timer, leaseVars, active, stopVars >>

AcceptHost ==
  /\ worker = "accepting"
  /\ active' = TRUE
  /\ worker' = "process"
  /\ UNCHANGED << purpose, timer, leaseVars, stopVars >>

\* SetActiveSocket on a socket_mutex_ not yet initialised need not return.
AcceptsTooEarly ==
  /\ worker = "accepting" /\ members = "socket"
  /\ worker' = "stuck"
  /\ UNCHANGED << purpose, timer, leaseVars, active, stopVars >>

\* No time left: the lease expires at once instead of a wait.
Retry ==
  /\ worker = "refused"
  /\ NextReconnectWait = 0
  /\ ExpireLeaseIfNeeded
  /\ worker' = "run"
  /\ UNCHANGED << purpose, timer, active, stopVars >>

WaitToReconnect ==
  /\ worker = "refused"
  /\ NextReconnectWait > 0
  /\ timer' = NextReconnectWait
  /\ worker' = "waiting"
  /\ UNCHANGED << purpose, leaseVars, active, stopVars >>

\* A time-out, or the destructor's notification, which the wait may miss: the
\* destructor does not hold wait_mutex_ when it notifies.
WaitEnds ==
  /\ worker = "waiting"
  /\ timer = 0 \/ stopping
  /\ timer' = 0
  /\ worker' = IF stopping THEN "exited" ELSE "run"
  /\ UNCHANGED << purpose, leaseVars, active, stopVars >>

-----------------------------------------------------------------------------
(* ProcessConnection, with ReadExact, WriteExact and PollSocket *)

ReadRequest ==
  /\ worker = "process"
  /\ purpose' = "read"
  /\ worker' = IF stopping THEN "closing" ELSE "check"
  /\ UNCHANGED << timer, leaseVars, active, stopVars >>

PollSocket ==
  /\ worker = "check"
  /\ IF stopping
     THEN worker' = "closing" /\ UNCHANGED << timer, leaseVars >>
     ELSE /\ ExpireLeaseIfNeeded
          /\ timer' = Poll
          /\ worker' = "polling"
  /\ UNCHANGED << purpose, active, stopVars >>

\* The socket is ready, the poll times out, or the peer is gone.
PollReady ==
  /\ worker = "polling"
  /\ timer' = 0
  /\ worker' = "ready"
  /\ UNCHANGED << purpose, leaseVars, active, stopVars >>

PollTimesOut ==
  /\ worker = "polling"
  /\ timer = 0
  /\ worker' = "check"
  /\ UNCHANGED << purpose, timer, leaseVars, active, stopVars >>

HostHangsUp ==
  /\ worker \in { "polling", "ready" }
  /\ timer' = 0
  /\ worker' = "closing"
  /\ UNCHANGED << purpose, leaseVars, active, stopVars >>

\* recv: part of the request, all of it, or a malformed header.
Receive ==
  /\ worker = "ready"
  /\ purpose = "read"
  /\ worker' \in IF cut THEN { "closing" } ELSE { "check", "handling", "closing" }
  /\ UNCHANGED << purpose, timer, leaseVars, active, stopVars >>

\* send blocks until the host has made room for all of it.
Send ==
  /\ worker = "ready"
  /\ purpose = "write"
  /\ worker' = "sending"
  /\ UNCHANGED << purpose, timer, leaseVars, active, stopVars >>

SendCompletes ==
  /\ worker = "sending"
  /\ ~cut
  /\ worker' \in { "check", "process" }
  /\ UNCHANGED << purpose, timer, leaseVars, active, stopVars >>

SendFails ==
  /\ worker = "sending"
  /\ worker' = "closing"
  /\ UNCHANGED << purpose, timer, leaseVars, active, stopVars >>

\* The handler applies a mutation (taking or releasing a domain), and authority is
\* renewed before the response is written: the write may fail.
HandleMutation_AfterWrite ==
  /\ worker = "handling"
  /\ \E d \in Domain : controlled' \in { controlled \cup {d}, controlled \ {d} }
  /\ UNCHANGED << authority, deadline, silence, early >>
  /\ purpose' = "write"
  /\ worker' = "check"
  /\ UNCHANGED << timer, active, stopVars >>

HandleMutation ==
  /\ worker = "handling"
  /\ \E d \in Domain : controlled' \in { controlled \cup {d}, controlled \ {d} }
  /\ RefreshLease
  /\ early' = (members # "all")
  /\ purpose' = "write"
  /\ worker' = "check"
  /\ UNCHANGED << timer, active, stopVars >>

\* A query, a rejected mutation, an encoder configuration or an error response.
HandleQuery ==
  /\ worker = "handling"
  /\ purpose' = "write"
  /\ worker' = "check"
  /\ UNCHANGED << timer, leaseVars, active, stopVars >>

HandlerFails ==
  /\ worker = "handling"
  /\ worker' = "closing"
  /\ UNCHANGED << purpose, timer, leaseVars, active, stopVars >>

\* The loop ends, the socket is cleared; the lease begins unless Run stops.
CloseConnection ==
  /\ worker = "closing"
  /\ active' = FALSE
  /\ cut' = FALSE
  /\ IF stopping
     THEN worker' = "exited" /\ UNCHANGED leaseVars
     ELSE worker' = "run" /\ BeginDisconnectLease
  /\ UNCHANGED << purpose, timer, members, stopping, destructor >>

-----------------------------------------------------------------------------
(* The destructor, the services and time *)

DestroyMarks ==
  /\ destructor = "none" /\ members = "all"
  /\ stopping' = TRUE
  /\ destructor' = "marked"
  /\ UNCHANGED << worker, purpose, timer, leaseVars, members, active, cut >>

DestroyShutdown_Skipped ==
  /\ destructor = "marked"
  /\ destructor' = "joining"
  /\ UNCHANGED << worker, purpose, timer, leaseVars, members, active, cut, stopping >>

DestroyShutdown ==
  /\ destructor = "marked"
  /\ cut' = active
  /\ destructor' = "joining"
  /\ UNCHANGED << worker, purpose, timer, leaseVars, members, active, stopping >>

DestroyJoins ==
  /\ destructor = "joining"
  /\ worker = "exited"
  /\ destructor' = "done"
  /\ UNCHANGED << worker, purpose, timer, leaseVars, members, active, cut, stopping >>

\* A remote service has leases of its own, and forgets everything when it dies.
ServiceLets ==
  /\ \E d \in controlled \cap Remote : controlled' = controlled \ {d}
  /\ UNCHANGED << worker, purpose, timer, authority, deadline, silence, early, active, stopVars >>

Tick ==
  /\ worker \in { "waiting", "polling" } => timer > 0
  /\ timer' = IF timer > 0 THEN timer - 1 ELSE 0
  /\ deadline' = IF deadline > 0 THEN deadline - 1 ELSE deadline
  /\ silence' = IF silence \in 0 .. MaxSilence - 1 THEN silence + 1 ELSE silence
  /\ UNCHANGED << worker, purpose, authority, controlled, early, active, stopVars >>

Constructor == ConstructSocket \/ ConstructAuthority \/ ConstructDeadline

Run ==
  \/ RunExits \/ RunContinues \/ AcceptFails \/ AcceptHost \/ AcceptsTooEarly
  \/ Retry \/ WaitToReconnect \/ WaitEnds

ProcessConnection ==
  \/ ReadRequest \/ PollSocket \/ PollReady \/ PollTimesOut \/ HostHangsUp \/ Receive
  \/ Send \/ SendCompletes \/ SendFails
  \/ HandleMutation \/ HandleQuery \/ HandlerFails
  \/ CloseConnection

Destructor == DestroyMarks \/ DestroyShutdown \/ DestroyJoins

Next == Constructor \/ Run \/ ProcessConnection \/ Destructor \/ ServiceLets \/ Tick

\* The threads run, time passes, and a handler returns.  The host need not do
\* anything, so a send is only sure to end on a socket that was shut down.
Fairness ==
  /\ WF_vars(Run)
  /\ WF_vars(ReadRequest \/ PollSocket \/ PollTimesOut \/ Receive \/ Send \/ CloseConnection)
  /\ WF_vars(HandleMutation \/ HandleQuery \/ HandlerFails)
  /\ WF_vars(cut /\ SendFails)
  /\ WF_vars(DestroyShutdown \/ DestroyJoins)
  /\ WF_vars(Tick)

Spec == Init /\ [][Next]_vars /\ Fairness

-----------------------------------------------------------------------------
(* Properties *)

\* No mutation was handled while the constructor could still undo what it did to the
\* lease, or one was handled since.
Settled == members = "all" /\ ~early

\* The destructor has no socket by which to reach the worker: the constructor took it
\* for uninitialised, or the worker never returned from the mutex.
OutOfReach == worker = "stuck" \/ (worker \in InConnection /\ ~active)

\* Control never outlives authority: while no host is connected, everything the host
\* controls inside this process is on a lease that is running down - also when the
\* answer to the last mutation was never delivered, and whatever the constructor undid
\* before that mutation (HostControlChannel).
NoOrphanedControl ==
  Settled /\ controlled \cap InProcess # {} =>
    /\ authority
    /\ worker \in { "run", "accepting", "refused", "waiting" } => deadline # Off

\* The worker never sleeps past the lease: the wait for a reconnection is cut short, a
\* poll is at most one interval late, and a host that connects and disconnects without
\* a mutation gains no time (NextReconnectWait, PollSocket, BeginDisconnectLease).
NeverSleepsOverdue ==
  Settled =>
    /\ worker = "waiting" => silence <= Lease
    /\ worker = "polling" => silence <= Lease + Poll

\* The lease is never cut short: authority ends only after the full lease without a
\* mutation since the disconnect (ExpireLeaseIfNeeded against the refresh).
ExpiryIsNotEarly ==
  [][ Settled /\ authority /\ ~authority' => silence >= Lease ]_vars

\* The destructor returns whatever the host does: also from a send the host never reads.
\* It may not if it has no socket to shut down, because the worker had accepted a host
\* before the constructor came to that member.
DestroyReturns == stopping /\ ~OutOfReach ~> destructor = "done"
=============================================================================
