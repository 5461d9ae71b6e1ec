--------------------------- MODULE AuthorityLease ---------------------------
(***************************************************************************)
(* The authority lease as FHC1 promises it (docs/protocols/FHC1.md, what a *)
(* snapshot received and a disconnect do to control authority): an applied *)
(* change holds the lease; it runs from the moment the connection ends,    *)
(* over whatever connections follow, until a change is applied again; and  *)
(* only a lease that runs runs out.  How long it runs is ControlLease's    *)
(* business, what is given back when it has is DeviceControl's.  Each is   *)
(* shown to keep to this module, so that both speak of one lease.          *)
(***************************************************************************)

VARIABLES
  connected,    \* is a host connected?
  authority     \* "none", "held", or "running" since the host left

leaseVars == << connected, authority >>

Init == connected = FALSE /\ authority = "none"

Kept(lease) == IF lease = "held" THEN "running" ELSE lease

HostComes == ~connected /\ connected' = TRUE /\ UNCHANGED authority

HostGoes == connected /\ connected' = FALSE /\ authority' = Kept(authority)

\* A change is applied.
Renew == connected /\ authority' = "held" /\ UNCHANGED connected

\* A change is applied, and its answer finds the host gone.
RenewUnheard == connected /\ connected' = FALSE /\ authority' = "running"

\* A host may be connected again meanwhile, if it has changed nothing yet.
Expire == authority = "running" /\ authority' = "none" /\ UNCHANGED connected

Next == HostComes \/ HostGoes \/ Renew \/ RenewUnheard \/ Expire

Spec == Init /\ [][Next]_leaseVars
=============================================================================
