----------------------------- MODULE DnsRecords -----------------------------
(***************************************************************************)
(* The data the reconciler works on: floating IPs, generated names, the    *)
(* zones they live in, recordsets, and what makes a recordset "managed".   *)
(*                                                                         *)
(* A recordset is reduced to what the program tells apart:                 *)
(*   data   the content of its records field: an address (A), the exact    *)
(*          ownership text the program writes (Canonical, TXT) or content  *)
(*          somebody else wrote (Edited);                                  *)
(*   owner  the floating IP named by its ownership marker, or Nobody.  For *)
(*          an A recordset the marker is parsed from the description, for  *)
(*          a TXT recordset from the records (a TXT description is never   *)
(*          read for ownership).                                           *)
(* TTLs, identifiers and log texts are left out.                           *)
(***************************************************************************)
EXTENDS Naturals

CONSTANTS
    Fips,            \* Neutron floating IP identifiers (never reused)
    Projects,        \* OpenStack projects
    Addrs,           \* floating IP addresses
    Labels,          \* random labels DnsLabelGenerator can draw
    PLabels,         \* DNS-safe project labels
    ProjectOf,       \* the project that owns a floating IP
    LabelOf,         \* ProjectIdLabelGenerator.generate: a label or BadLabel
    BadLabel,        \* generate raised DomainError
    PerProjectZone,  \* dns.zone_strategy = per_project_zone
    CreateTxt,       \* records.create_txt_metadata
    DeleteStale,     \* cleanup.delete_stale_records
    Base,            \* the zone named base_domain
    Service,         \* the project that owns the base zone
    NoZone,          \* the zone does not exist
    Nobody,          \* no ownership marker
    NoData, Canonical, Edited

ASSUME FipAssumption == Nobody \notin Fips
ASSUME DataAssumption ==
    /\ NoData \notin Addrs /\ Canonical \notin Addrs /\ Edited \notin Addrs
    /\ NoData # Canonical /\ NoData # Edited /\ Canonical # Edited
ASSUME ProjectAssumption ==
    /\ ProjectOf \in [Fips -> Projects]
    /\ LabelOf \in [Projects -> PLabels \cup {BadLabel}]
    /\ BadLabel \notin PLabels
    /\ NoZone \notin Projects /\ Service # NoZone
ASSUME ConfigAssumption == {PerProjectZone, CreateTxt, DeleteStale} \subseteq BOOLEAN

-----------------------------------------------------------------------------
(* Names and zones *)

\* FqdnBuilder.build with the default template: random label, project label,
\* base domain.  Distinct pairs give distinct FQDNs.
Fqdn(label, plabel) == <<label, plabel>>
Names == {Fqdn(l, p) : l \in Labels, p \in PLabels}
PLabel(n) == n[2]

Zones == IF PerProjectZone THEN PLabels ELSE {Base}
ZoneOf(n) == IF PerProjectZone THEN PLabel(n) ELSE Base

Types == {"A", "TXT"}
Keys == Names \X Types          \* GeneratedDnsRecord.identity

-----------------------------------------------------------------------------
(* Recordsets *)

Data == Addrs \cup {Canonical, Edited}
Recordsets == [data : Data, owner : Fips \cup {Nobody}]
Absent == [data |-> NoData, owner |-> Nobody]
NoRecords == [k \in Keys |-> Absent]

\* What DesiredDnsRecordSet.a_record() and txt_record() contain for floating IP f
\* whose listed address is a.  The A recordset carries the marker as description.
DesiredData(a, t) == IF t = "A" THEN a ELSE Canonical
Desired(f, a, t) == [data |-> DesiredData(a, t), owner |-> f]

\* The floating IP a name belongs to, as the adapter reads it: the TXT text first,
\* the A description only where no owned TXT exists.
Owner(dns, n) ==
    IF dns[<<n, "TXT">>].owner # Nobody THEN dns[<<n, "TXT">>].owner
                                        ELSE dns[<<n, "A">>].owner

\* list_managed_records for one recordset: an owned TXT is managed, and so is every A
\* beside it, whatever its own description says; without one, an A needs a marker.
ManagedView(dns, k) ==
    LET n == k[1]
        managed == /\ dns[k] # Absent
                   /\ IF k[2] = "TXT" THEN dns[k].owner # Nobody
                                      ELSE Owner(dns, n) # Nobody
    IN  IF managed THEN [data |-> dns[k].data, owner |-> Owner(dns, n)] ELSE Absent
=============================================================================
