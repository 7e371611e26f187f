------------------------ MODULE ReconciliationPlanner ------------------------
(***************************************************************************)
(* ReconciliationPlanner.plan as operators over its two inputs:            *)
(*   seen   the floating IPs listed: seen[f] is an address, or NoData for  *)
(*          a floating IP that was not in the list;                        *)
(*   found  the managed records listed: a recordset per key, or Absent.    *)
(* A plan is a set of operations; the order the service applies them in is *)
(* the relation Ready of module Reconciler.  The data of a written record  *)
(* is a function of seen, so an operation only names its key and its       *)
(* floating IP.                                                            *)
(***************************************************************************)
EXTENDS DnsRecords

Phases == {"create", "update", "delete"}
Ops == [phase : Phases, name : Names, type : Types, fip : Fips]
Key(o) == <<o.name, o.type>>

Listings == [Fips -> Addrs \cup {NoData}]
Listed(seen) == {f \in Fips : seen[f] \in Addrs}

-----------------------------------------------------------------------------
(* _group_managed_records: a group per floating IP.  Where several names     *)
(* carry its marker one of them wins: the last TXT of the listing, or, when  *)
(* no TXT names it, the first A.  The listing has no fixed order, so any of  *)
(* GroupNames can be the group's name.                                       *)
OwnedNames(found, f, t) == {n \in Names : found[<<n, t>>].owner = f}
\* Variant with a bug: a record of the A fallback forms no group.
GroupNames_TxtOnly(found, f) == OwnedNames(found, f, "TXT")
GroupNames(found, f) ==
    IF OwnedNames(found, f, "TXT") # {} THEN OwnedNames(found, f, "TXT")
                                        ELSE OwnedNames(found, f, "A")
Grouped(found) == {f \in Fips : GroupNames(found, f) # {}}

\* Variant with a bug: names in use are not reserved.
UsedNames_None(found) == {}
UsedNames(found) == {n \in Names : \E t \in Types : found[<<n, t>>] # Absent}
NewFips(seen, found) == Listed(seen) \ Grouped(found)

\* The names DnsLabelGenerator and FqdnBuilder can produce for floating IP f.
NamesFor(f) == {n \in Names : PLabel(n) = LabelOf[ProjectOf[f]]}

\* _desired_from_existing and _new_desired_record_set: a grouped floating IP stays
\* at its group's name; a new one gets a drawn name that no managed record uses
\* and no other new one was given in this plan.
NameChoices(seen, found) ==
    {name \in [Listed(seen) \cup Grouped(found) -> Names] :
        /\ \A f \in Grouped(found) : name[f] \in GroupNames(found, f)
        /\ \A f \in NewFips(seen, found) :
              /\ name[f] \in NamesFor(f) \ UsedNames(found)
              /\ \A g \in NewFips(seen, found) \ {f} : name[g] # name[f]}

-----------------------------------------------------------------------------
(* plan raises instead of returning a plan *)

\* generate raised for a listed project, or assert_no_collisions did: two listed
\* projects share a label.
LabelError(seen) ==
    \E f, g \in Listed(seen) :
        \/ LabelOf[ProjectOf[f]] = BadLabel
        \/ /\ ProjectOf[f] # ProjectOf[g]
           /\ LabelOf[ProjectOf[f]] = LabelOf[ProjectOf[g]]

\* All five draws of some new floating IP can hit a taken name.
DrawsCanFail(seen, found) ==
    \E f \in NewFips(seen, found) :
        \/ NamesFor(f) \cap UsedNames(found) # {}
        \/ \E g \in NewFips(seen, found) \ {f} : NamesFor(g) = NamesFor(f)

-----------------------------------------------------------------------------
(* The plan, for the chosen names *)

WantedTypes == IF CreateTxt THEN Types ELSE {"A"}

CreateOps(seen, found, name) ==
    {o \in Ops : /\ o.phase = "create" /\ o.fip \in Listed(seen)
                 /\ o.type \in WantedTypes
                 /\ o.name = name[o.fip]
                 /\ found[Key(o)] = Absent}

\* Variant with a bug: the TXT record is never updated.
UpdateOps_AOnly(seen, found, name) ==
    {o \in Ops : /\ o.phase = "update" /\ o.type = "A" /\ o.fip \in Listed(seen)
                 /\ o.name = name[o.fip]
                 /\ found[Key(o)] # Absent /\ found[Key(o)].data # seen[o.fip]}
\* Variant with a bug: records already right are updated again.
UpdateOps_Always(seen, found, name) ==
    {o \in Ops : /\ o.phase = "update" /\ o.type \in WantedTypes /\ o.fip \in Listed(seen)
                 /\ o.name = name[o.fip]
                 /\ found[Key(o)] # Absent}
UpdateOps(seen, found, name) ==
    {o \in Ops : /\ o.phase = "update" /\ o.fip \in Listed(seen)
                 /\ o.type \in WantedTypes
                 /\ o.name = name[o.fip]
                 /\ found[Key(o)] # Absent
                 /\ found[Key(o)].data # DesiredData(seen[o.fip], o.type)}

\* Variant with a bug: every group is deleted, live or not.
DeleteOps_NoCheck(seen, found, name) ==
    {o \in Ops : /\ DeleteStale
                 /\ o.phase = "delete" /\ o.fip \in Grouped(found)
                 /\ o.name = name[o.fip]
                 /\ found[Key(o)] # Absent}
DeleteOps(seen, found, name) ==
    {o \in Ops : /\ DeleteStale
                 /\ o.phase = "delete" /\ o.fip \in Grouped(found) \ Listed(seen)
                 /\ o.name = name[o.fip]
                 /\ found[Key(o)] # Absent}

Plan(seen, found, name) ==
    CreateOps(seen, found, name) \cup UpdateOps(seen, found, name)
                                 \cup DeleteOps(seen, found, name)
=============================================================================
