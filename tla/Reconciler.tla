----------------------------- MODULE Reconciler -----------------------------
(***************************************************************************)
(* One reconciler process polling Neutron and writing Designate.           *)
(*                                                                         *)
(* reconcile_once lists the floating IPs, then the zones, then each zone's *)
(* recordsets, plans, and applies the plan one recordset at a time; each   *)
(* recordset costs a zone lookup, a recordset lookup and a write, every    *)
(* one a separate request.  Between any two requests Neutron and other     *)
(* users of Designate may act, a request may fail or be executed with its  *)
(* answer lost, and the process may die and be restarted by systemd.       *)
(*                                                                         *)
(* Descriptions and tags are left to module FloatingIpMetadata.            *)
(***************************************************************************)
EXTENDS ReconciliationPlanner

CONSTANTS
    CreateZones,     \* dns.create_missing_project_zones
    DryRun,          \* controller.dry_run
    Unborn, Gone,    \* a floating IP not allocated yet; released for good
    NoOp,            \* no operation in hand
    MaxFaults,       \* bound: failed requests, lost answers, crashes
    MaxEdits         \* bound: readdressings and actions of other DNS users

ASSUME LifeAssumption == Unborn \notin Addrs /\ Gone \notin Addrs /\ Unborn # Gone
ASSUME OpAssumption == NoOp \notin Ops
ASSUME SwitchAssumption ==
    /\ {CreateZones, DryRun} \subseteq BOOLEAN
    /\ CreateZones => PerProjectZone   \* DnsSettings.validate_project_zone_creation
ASSUME BoundAssumption == MaxFaults \in Nat /\ MaxEdits \in Nat

VARIABLES
    neutron,     \* neutron[f]: Unborn, the address of a live floating IP, or Gone
    zone,        \* zone[z]: the project that owns zone z, or NoZone
    dns,         \* dns[k]: the recordset Designate stores under key k, or Absent
    pc,          \* where the process is: the request it makes next
    seen,        \* floating_ips of this pass
    unlisted,    \* managed zones whose recordsets are still to be listed
    found,       \* managed_records of this pass, until the plan is made
    todo,        \* operations of the plan not begun
    cur,         \* the operation in hand, or the last one applied
    handle,      \* recordset lookup: "none", "held", or "stale" once it was deleted
    clean,       \* error_count = 0 so far
    verdict,     \* how the last pass ended
    disturbed,   \* history: something else acted since this pass began
    faults, edits

process == <<pc, seen, unlisted, found, todo, cur, handle, clean, verdict>>
world   == <<neutron, zone, dns>>
vars    == <<neutron, zone, dns, pc, seen, unlisted, found, todo, cur, handle,
             clean, verdict, disturbed, faults, edits>>

NothingSeen == [f \in Fips |-> NoData]
Live == {f \in Fips : neutron[f] \in Addrs}
ExistingZones == {z \in Zones : zone[z] # NoZone}

\* The base zone of single_zone is made by the operator; project zones appear later.
Init ==
    /\ neutron = [f \in Fips |-> Unborn]
    /\ zone = [z \in Zones |-> IF PerProjectZone THEN NoZone ELSE Service]
    /\ dns = NoRecords
    /\ pc = "idle" /\ seen = NothingSeen /\ unlisted = {} /\ found = NoRecords
    /\ todo = {} /\ cur = NoOp /\ handle = "none"
    /\ clean = TRUE /\ verdict = "none" /\ disturbed = FALSE
    /\ faults = 0 /\ edits = 0

-----------------------------------------------------------------------------
(* Reading: reconcile_once up to the plan *)

\* The pass is over, or dead: nothing of it survives but the verdict.
EndPass(v) ==
    /\ pc' = "idle" /\ verdict' = v
    /\ seen' = NothingSeen /\ unlisted' = {} /\ found' = NoRecords
    /\ todo' = {} /\ cur' = NoOp /\ handle' = "none" /\ clean' = TRUE

\* list_floating_ips: the first read of a pass.
ListFloatingIps ==
    /\ pc = "idle"
    /\ seen' = [f \in Fips |-> IF neutron[f] \in Addrs THEN neutron[f] ELSE NoData]
    /\ pc' = "zones" /\ disturbed' = FALSE /\ verdict' = "none"
    /\ UNCHANGED <<world, unlisted, found, todo, cur, handle, clean, faults, edits>>

\* _managed_zones, at the head of _list_managed_records.
ListZones ==
    /\ pc = "zones"
    /\ unlisted' = ExistingZones
    /\ pc' = "listing"
    /\ UNCHANGED <<world, seen, found, todo, cur, handle, clean, verdict, disturbed,
                   faults, edits>>

\* The managed recordsets of one zone; a zone deleted since it was listed answers 404
\* and list_managed_records raises.
ListZone(z) ==
    /\ pc = "listing" /\ z \in unlisted
    /\ IF zone[z] = NoZone
       THEN EndPass("raised")
       ELSE /\ found' = [k \in Keys |-> IF ZoneOf(k[1]) = z THEN ManagedView(dns, k)
                                                           ELSE found[k]]
            /\ unlisted' = unlisted \ {z}
            /\ UNCHANGED <<pc, seen, todo, cur, handle, clean, verdict>>
    /\ UNCHANGED <<world, disturbed, faults, edits>>

\* planner.plan returns; a dry run logs the plan and applies none of it.
PlanFor(name) ==
    /\ todo' = IF DryRun THEN {} ELSE Plan(seen, found, name)
    /\ pc' = "applying" /\ found' = NoRecords
    /\ UNCHANGED <<world, seen, unlisted, cur, handle, clean, verdict, disturbed,
                   faults, edits>>
CanPlan == pc = "listing" /\ unlisted = {} /\ ~LabelError(seen)
MakePlan == CanPlan /\ \E name \in NameChoices(seen, found) : PlanFor(name)

\* planner.plan raises DomainError; run_forever logs it and waits for the next pass.
\* Five unlucky draws are a fault of this pass; no free name at all is certain failure.
PlanRaises ==
    /\ pc = "listing" /\ unlisted = {}
    /\ \/ /\ LabelError(seen) \/ NameChoices(seen, found) = {}
          /\ UNCHANGED faults
       \/ /\ DrawsCanFail(seen, found) /\ NameChoices(seen, found) # {}
          /\ faults < MaxFaults /\ faults' = faults + 1
    /\ EndPass("raised")
    /\ UNCHANGED <<world, disturbed, edits>>

-----------------------------------------------------------------------------
(* Applying: one record operation at a time *)

\* _apply_records runs creates, then updates, then deletes; a floating IP's A comes
\* right before its TXT.  Across floating IPs the order is that of Neutron's answer.
PhaseRank == [p \in Phases |-> CASE p = "create" -> 1 [] p = "update" -> 2 [] OTHER -> 3]
Mates(o, p) == o.phase = p.phase /\ o.fip = p.fip
Ready(o) ==
    /\ \A p \in todo :
          /\ PhaseRank[o.phase] <= PhaseRank[p.phase]
          /\ p # o /\ Mates(p, o) => o.type = "A"
    /\ cur # NoOp /\ (\E p \in todo : Mates(p, cur)) => Mates(o, cur)

\* Variant with a bug: a failed operation is not counted.
Done_Uncounted(ok) == pc' = "applying" /\ handle' = "none" /\ UNCHANGED clean

\* The operation in hand ends; _apply_records catches and counts a failure.
Done(ok) == pc' = "applying" /\ handle' = "none" /\ clean' = (clean /\ ok)

\* _can_create_project_zone, for create_record and update_record only.
CanCreateZone(o) == CreateZones /\ o.phase # "delete"

\* The zone lookup of create_record, update_record or delete_record.
BeginOp(o) ==
    /\ pc = "applying" /\ o \in todo /\ Ready(o)
    /\ todo' = todo \ {o} /\ cur' = o
    /\ IF zone[ZoneOf(o.name)] # NoZone
       THEN pc' = "finding" /\ UNCHANGED <<handle, clean>>
       ELSE IF CanCreateZone(o)
            THEN pc' = "zoning" /\ UNCHANGED <<handle, clean>>
            ELSE Done(FALSE)
    /\ UNCHANGED <<world, seen, unlisted, found, verdict, disturbed, faults, edits>>

\* Variant with a bug: the zone is created in the project of the service.
ZoneCreated_ByService == [zone EXCEPT ![ZoneOf(cur.name)] = IF @ = NoZone THEN Service ELSE @]

\* _create_project_zone in the project of the record.  If the answer is lost the zones
\* are listed again and the new zone is found: the same outcome.
ZoneCreated ==
    [zone EXCEPT ![ZoneOf(cur.name)] = IF @ = NoZone THEN ProjectOf[cur.fip] ELSE @]
CreateProjectZone ==
    /\ pc = "zoning"
    /\ zone' = ZoneCreated
    /\ pc' = "finding"
    /\ UNCHANGED <<neutron, dns, seen, unlisted, found, todo, cur, handle, clean,
                   verdict, disturbed, faults, edits>>

\* _find_recordset, by name and type only.  Nothing to delete ends a delete.
FindRecordset ==
    /\ pc = "finding"
    /\ IF zone[ZoneOf(cur.name)] = NoZone THEN Done(FALSE)
       ELSE IF dns[Key(cur)] = Absent /\ cur.phase = "delete" THEN Done(TRUE)
       ELSE /\ handle' = IF dns[Key(cur)] = Absent THEN "none" ELSE "held"
            /\ pc' = "writing" /\ UNCHANGED clean
    /\ UNCHANGED <<world, seen, unlisted, found, todo, cur, verdict, disturbed,
                   faults, edits>>

\* What Designate does with the write: a PUT or DELETE of a recordset that is gone
\* (404), a POST where one exists (409) or into a missing zone (404) change nothing.
Accepted ==
    IF handle = "none" THEN dns[Key(cur)] = Absent /\ zone[ZoneOf(cur.name)] # NoZone
                       ELSE handle = "held"
Applied ==
    IF Accepted
    THEN [dns EXCEPT ![Key(cur)] = IF cur.phase = "delete" THEN Absent
                                   ELSE Desired(cur.fip, seen[cur.fip], cur.type)]
    ELSE dns

\* _create_recordset, _update_existing_recordset or _delete_existing_recordset.  A
\* delete of a missing recordset counts as done (ignore_missing, raise_exc=False).
WriteRecordset ==
    /\ pc = "writing"
    /\ dns' = Applied
    /\ Done(Accepted \/ cur.phase = "delete")
    /\ UNCHANGED <<neutron, zone, seen, unlisted, found, todo, cur, verdict, disturbed,
                   faults, edits>>

\* reconcile_once returns.
FinishPass ==
    /\ pc = "applying" /\ todo = {}
    /\ EndPass(IF clean THEN "success" ELSE "failure")
    /\ UNCHANGED <<world, disturbed, faults, edits>>

-----------------------------------------------------------------------------
(* Failures *)

Fault == faults < MaxFaults /\ faults' = faults + 1

\* A listing request fails: reconcile_once raises.
ListFails ==
    /\ pc \in {"idle", "zones", "listing"} /\ (pc = "listing" => unlisted # {})
    /\ EndPass("raised") /\ Fault
    /\ UNCHANGED <<world, disturbed, edits>>

\* _delete_existing_recordset in tenant context passes raise_exc=False: an HTTP error
\* is not raised.
DeletesSilently(o) == o.phase = "delete" /\ PerProjectZone
Outcomes(o) == {FALSE} \cup (IF DeletesSilently(o) THEN {TRUE} ELSE {})

\* The first request of an operation fails (the zone listing).
BeginFails(o) ==
    /\ pc = "applying" /\ o \in todo /\ Ready(o)
    /\ todo' = todo \ {o} /\ cur' = o /\ Done(FALSE) /\ Fault
    /\ UNCHANGED <<world, seen, unlisted, found, verdict, disturbed, edits>>

\* A later request of the operation in hand fails and writes nothing; a zone may have
\* been created when listing the zones again fails too.
RequestFails ==
    /\ pc \in {"zoning", "finding", "writing"}
    /\ zone' \in {zone} \cup (IF pc = "zoning" THEN {ZoneCreated} ELSE {})
    /\ \E ok \in IF pc = "writing" THEN Outcomes(cur) ELSE {FALSE} : Done(ok)
    /\ Fault
    /\ UNCHANGED <<neutron, dns, seen, unlisted, found, todo, cur, verdict, disturbed,
                   edits>>

\* Designate executes the write and the answer is an error or is lost.
AnswerLost ==
    /\ pc = "writing"
    /\ dns' = Applied
    /\ \E ok \in Outcomes(cur) : Done(ok)
    /\ Fault
    /\ UNCHANGED <<neutron, zone, seen, unlisted, found, todo, cur, verdict, disturbed,
                   edits>>

\* The process dies and systemd restarts it (Restart=always): no state survives.
Crash ==
    /\ pc # "idle"
    /\ EndPass("none") /\ Fault
    /\ UNCHANGED <<world, disturbed, edits>>

-----------------------------------------------------------------------------
(* The world outside *)

\* Neutron allocates an address no other live floating IP has.
Allocate(f, a) ==
    /\ neutron[f] = Unborn /\ \A g \in Fips : neutron[g] # a
    /\ neutron' = [neutron EXCEPT ![f] = a]
    /\ disturbed' = TRUE
    /\ UNCHANGED <<zone, dns, process, faults, edits>>

Release(f) ==
    /\ f \in Live
    /\ neutron' = [neutron EXCEPT ![f] = Gone]
    /\ disturbed' = TRUE
    /\ UNCHANGED <<zone, dns, process, faults, edits>>

Edit == edits < MaxEdits /\ edits' = edits + 1 /\ disturbed' = TRUE

Readdress(f, a) ==
    /\ f \in Live /\ \A g \in Fips : neutron[g] # a
    /\ neutron' = [neutron EXCEPT ![f] = a]
    /\ Edit
    /\ UNCHANGED <<zone, dns, process, faults>>

\* Another user deletes the recordsets in S: a held handle among them goes stale.
LoseRecords(S) ==
    /\ dns' = [k \in Keys |-> IF k \in S THEN Absent ELSE dns[k]]
    /\ handle' = IF handle = "held" /\ Key(cur) \in S THEN "stale" ELSE handle

UserDeletes(k) ==
    /\ dns[k] # Absent
    /\ LoseRecords({k}) /\ Edit
    /\ UNCHANGED <<neutron, zone, pc, seen, unlisted, found, todo, cur, clean, verdict,
                   faults>>

\* Another user rewrites a recordset; the ownership marker may go with it.
UserEdits(k) ==
    /\ dns[k] # Absent
    /\ \E o \in {dns[k].owner, Nobody} :
          dns' = [dns EXCEPT ![k] = [data |-> Edited, owner |-> o]]
    /\ Edit
    /\ UNCHANGED <<neutron, zone, process, faults>>

UserCreates(k) ==
    /\ dns[k] = Absent /\ zone[ZoneOf(k[1])] # NoZone
    /\ dns' = [dns EXCEPT ![k] = [data |-> Edited, owner |-> Nobody]]
    /\ Edit
    /\ UNCHANGED <<neutron, zone, process, faults>>

\* A tenant deletes a project zone and everything in it.
UserDropsZone(z) ==
    /\ PerProjectZone /\ zone[z] # NoZone
    /\ zone' = [zone EXCEPT ![z] = NoZone]
    /\ LoseRecords({k \in Keys : ZoneOf(k[1]) = z}) /\ Edit
    /\ UNCHANGED <<neutron, pc, seen, unlisted, found, todo, cur, clean, verdict, faults>>

-----------------------------------------------------------------------------
Worker ==
    \/ ListFloatingIps \/ ListZones \/ \E z \in Zones : ListZone(z)
    \/ MakePlan \/ PlanRaises
    \/ \E o \in todo : BeginOp(o)
    \/ CreateProjectZone \/ FindRecordset \/ WriteRecordset \/ FinishPass

Failures == ListFails \/ (\E o \in todo : BeginFails(o)) \/ RequestFails \/ AnswerLost
            \/ Crash

NeutronActs == \E f \in Fips : Release(f) \/ \E a \in Addrs : Allocate(f, a)
UserActs ==
    \/ \E f \in Fips, a \in Addrs : Readdress(f, a)
    \/ \E k \in Keys : UserDeletes(k) \/ UserEdits(k) \/ UserCreates(k)
    \/ \E z \in Zones : UserDropsZone(z)

Next == Worker \/ Failures \/ NeutronActs \/ UserActs

Spec == Init /\ [][Next]_vars

\* run_forever keeps calling reconcile_once and requests keep being answered once
\* faults have stopped; nothing is assumed of Neutron or of other users.
FairSpec == Spec /\ WF_vars(Worker)
=============================================================================
