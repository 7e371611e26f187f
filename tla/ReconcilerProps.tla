--------------------------- MODULE ReconcilerProps ---------------------------
(* What Reconciler must satisfy, and the inductive invariant that shows it. *)
EXTENDS Reconciler

\* Every variable has its type.
TypeOK ==
    /\ neutron \in [Fips -> Addrs \cup {Unborn, Gone}]
    /\ zone \in [Zones -> Projects \cup {Service, NoZone}]
    /\ dns \in [Keys -> Recordsets \cup {Absent}]
    /\ pc \in {"idle", "zones", "listing", "applying", "zoning", "finding", "writing"}
    /\ seen \in Listings
    /\ unlisted \subseteq Zones
    /\ found \in [Keys -> Recordsets \cup {Absent}]
    /\ todo \subseteq Ops /\ cur \in Ops \cup {NoOp}
    /\ pc \in {"zoning", "finding", "writing"} => cur \in Ops
    /\ handle \in {"none", "held", "stale"}
    /\ verdict \in {"none", "raised", "success", "failure"}
    /\ clean \in BOOLEAN /\ disturbed \in BOOLEAN
    /\ faults \in Nat /\ edits \in Nat

-----------------------------------------------------------------------------
(* Names *)

\* A name never carries the markers of two floating IPs and a floating IP never has
\* markers at two names: whatever fails between listing, drawing a name and writing
\* its two recordsets, the next pass finds the name again instead of drawing another.
NamesMatchFips ==
    \A k, l \in Keys :
        dns[k].owner # Nobody /\ dns[l].owner # Nobody
            => (k[1] = l[1] <=> dns[k].owner = dns[l].owner)

\* A delete in the plan is for a floating IP that Neutron has released, even when the
\* plan is old by the time the delete is made.
OnlyStaleDeleted ==
    \A o \in todo \cup ({cur} \ {NoOp}) : o.phase = "delete" => neutron[o.fip] = Gone

\* No step but another user's takes a record away from a live floating IP, or hands it
\* to another one.
LiveRecordsKept ==
    [][UserActs \/ \A k \in Keys : dns[k].owner \in Live => dns'[k].owner = dns[k].owner]_vars

\* Projecting each name to its owner and each address to being alive, the program does
\* nothing a lease of names does not allow.
LifeOf(a) == IF a = Unborn THEN "unborn" ELSE IF a = Gone THEN "gone" ELSE "live"
Lease == INSTANCE NameLease WITH
    LeaseFips <- Fips, LeaseNames <- Names, None <- Nobody,
    life <- [f \in Fips |-> LifeOf(neutron[f])],
    holder <- [n \in Names |-> Owner(dns, n)],
    meddling <- edits
LeasesNames == Lease!LeaseSpec

-----------------------------------------------------------------------------
(* Agreement with Neutron *)

\* Name n serves the live floating IP f: its A recordset is managed and has the address,
\* and its TXT recordset has the ownership text if the program keeps one.
Serves(n, f) ==
    /\ ManagedView(dns, <<n, "A">>) = Desired(f, neutron[f], "A")
    /\ CreateTxt => dns[<<n, "TXT">>] = Desired(f, neutron[f], "TXT")

InSync ==
    /\ \A f \in Live : \E n \in Names : Serves(n, f)
    /\ DeleteStale => \A k \in Keys : dns[k].owner # Nobody => dns[k].owner \in Live

\* A pass that reports success (error_count = 0, exit status 0 with --once) while nothing
\* else acted leaves DNS in agreement with Neutron.
SuccessMeansSync == verdict = "success" /\ ~disturbed /\ ~DryRun => InSync

\* A pass over records that agree with Neutron, and that nothing disturbs, plans nothing:
\* reconciling is idempotent, and no recordset is written again at every pass.
NothingToDo == [][MakePlan /\ InSync /\ ~disturbed => todo' = {}]_vars

\* Once the faults and the other users have stopped, DNS comes to agree with Neutron
\* and stays so: what failed is repaired by later passes.
Converges == <>[]InSync

\* A floating IP whose project shares its label with no other project is served or released
\* in the end, whatever labels the other projects have.
LabelShared(f) == \E p \in Projects \ {ProjectOf[f]} : LabelOf[p] = LabelOf[ProjectOf[f]]
UnaffectedServed ==
    \A f \in Fips : ~LabelShared(f) =>
        (f \in Live ~> (f \notin Live \/ \E n \in Names : Serves(n, f)))

\* In a per-project zone strategy every marked record is in a zone of its project.
InOwnZone ==
    PerProjectZone => \A k \in Keys :
        dns[k].owner # Nobody => zone[ZoneOf(k[1])] = ProjectOf[dns[k].owner]

\* Recordsets at names without any ownership metadata are not the program's: none of
\* its steps changes or deletes one.
UnmanagedUntouched ==
    [][UserActs \/ \A k \in Keys :
          dns[k] # Absent /\ Owner(dns, k[1]) = Nobody => dns'[k] = dns[k]]_vars

-----------------------------------------------------------------------------
(* The inductive invariant *)

\* Floating IP f has, or the pass in progress may still give it, a record at name n.
Claims(n, f) ==
    \/ \E t \in Types : dns[<<n, t>>].owner = f \/ found[<<n, t>>].owner = f
    \/ \E o \in todo \cup {cur} : o # NoOp /\ o.name = n /\ o.fip = f

ClaimsMatch ==
    \A n, m \in Names, f, g \in Fips : Claims(n, f) /\ Claims(m, g) => (n = m <=> f = g)

\* Every claim is of a floating IP that exists or existed.
ClaimsBorn == \A n \in Names, f \in Fips : Claims(n, f) => neutron[f] # Unborn
SeenBorn == \A f \in Listed(seen) : neutron[f] # Unborn

\* Whoever is not in the list of floating IPs but has a record is gone.
UnseenGone ==
    pc \in {"zones", "listing"} =>
        \A n \in Names, f \in Fips : Claims(n, f) /\ f \notin Listed(seen) => neutron[f] = Gone

\* Records are only in zones that exist, and once its zone is listed no marker is missed.
RecordsInZones == \A k \in Keys : dns[k] # Absent => zone[ZoneOf(k[1])] # NoZone
NothingMissed ==
    pc = "listing" =>
        \A k \in Keys : dns[k].owner # Nobody /\ ZoneOf(k[1]) \notin unlisted
                            => found[k].owner = dns[k].owner

\* Each part of the pass's state is only used where the code has it.
PassShape ==
    /\ pc \in {"idle", "zones", "listing"} => todo = {} /\ cur = NoOp
    /\ pc # "listing" => found = NoRecords
    /\ \A o \in todo \cup ({cur} \ {NoOp}) : o.phase # "delete" => o.fip \in Listed(seen)
    /\ handle = "held" => pc = "writing" /\ dns[Key(cur)] # Absent

IInv ==
    /\ TypeOK /\ ClaimsMatch /\ ClaimsBorn /\ SeenBorn /\ UnseenGone
    /\ RecordsInZones /\ NothingMissed /\ PassShape /\ OnlyStaleDeleted
=============================================================================
