------------------------------ MODULE NameLease ------------------------------
(***************************************************************************)
(* What the reconciler promises about generated names, without lists,      *)
(* plans, requests or failures: a name is leased by at most one floating   *)
(* IP, a floating IP leases at most one name, a lease is only taken on a   *)
(* free name by a floating IP without one, and it ends when the floating   *)
(* IP is gone or because somebody else removed it from DNS.                *)
(***************************************************************************)
EXTENDS Naturals

CONSTANTS LeaseFips, LeaseNames, None

VARIABLES
    life,      \* life[f]: "unborn", "live" or "gone"
    holder,    \* holder[n]: the floating IP that leases name n, or None
    meddling   \* number of actions of other users so far

LeaseVars == <<life, holder, meddling>>

LeaseInit ==
    /\ life = [f \in LeaseFips |-> "unborn"]
    /\ holder = [n \in LeaseNames |-> None]
    /\ meddling = 0

\* The floating IP is allocated, or released for good.
Ages(f) ==
    /\ \/ life[f] = "unborn" /\ life' = [life EXCEPT ![f] = "live"]
       \/ life[f] = "live" /\ life' = [life EXCEPT ![f] = "gone"]
    /\ UNCHANGED <<holder, meddling>>

\* A name is leased.  A floating IP released while it is being served still gets it.
Lease(n, f) ==
    /\ holder[n] = None /\ \A m \in LeaseNames : holder[m] # f
    /\ life[f] # "unborn"
    /\ holder' = [holder EXCEPT ![n] = f]
    /\ UNCHANGED <<life, meddling>>

\* The lease of a floating IP that is gone ends.
Expire(n) ==
    /\ holder[n] # None /\ life[holder[n]] = "gone"
    /\ holder' = [holder EXCEPT ![n] = None]
    /\ UNCHANGED <<life, meddling>>

\* Other users act: leases can be lost, never given or moved.
Meddle ==
    /\ holder' \in [LeaseNames -> LeaseFips \cup {None}]
    /\ \A n \in LeaseNames : holder'[n] \in {holder[n], None}
    /\ meddling' = meddling + 1
    /\ UNCHANGED life

LeaseNext ==
    \/ \E f \in LeaseFips : Ages(f)
    \/ \E n \in LeaseNames : Expire(n) \/ \E f \in LeaseFips : Lease(n, f)
    \/ Meddle

LeaseSpec == LeaseInit /\ [][LeaseNext]_LeaseVars
=============================================================================
