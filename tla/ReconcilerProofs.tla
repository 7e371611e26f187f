-------------------------- MODULE ReconcilerProofs --------------------------
(***************************************************************************)
(* IInv is an inductive invariant of Reconciler, for any number of         *)
(* floating IPs, projects, labels, faults and actions of other users.      *)
(* Then who has a name: Reconciler implements NameLease, where every name  *)
(* is mapped to its owner; and records are in zones of their own projects  *)
(* where the labels of different projects differ.                          *)
(***************************************************************************)
EXTENDS ReconcilerProps, TLAPS

-----------------------------------------------------------------------------
(* Data *)

\* An operation's key and zone exist.
LEMMA OpKey ==
    ASSUME NEW o \in Ops
    PROVE  /\ Key(o) \in Keys /\ Key(o)[1] = o.name
           /\ o.name \in Names /\ o.type \in Types /\ o.fip \in Fips /\ o.phase \in Phases
BY DEF Ops, Key, Keys

\* Every name is in one of the managed zones.
LEMMA NameZone == ASSUME NEW n \in Names PROVE ZoneOf(n) \in Zones
BY DEF Names, Fqdn, PLabel, ZoneOf, Zones

\* A key is a name and a type.
LEMMA KeyParts ==
    ASSUME NEW k \in Keys
    PROVE  k[1] \in Names /\ k[2] \in Types /\ k = <<k[1], k[2]>>
BY DEF Keys

\* A recordset's owner, if it has one, is a floating IP.
LEMMA RecordParts ==
    ASSUME NEW r \in Recordsets \cup {Absent}
    PROVE  /\ r.owner \in Fips \cup {Nobody}
           /\ r # Absent => r \in Recordsets /\ r.data \in Data
           /\ Absent.owner = Nobody
BY DEF Recordsets, Absent

\* What the program writes for a listed floating IP is a recordset that it owns.
LEMMA DesiredParts ==
    ASSUME NEW f \in Fips, NEW a \in Addrs, NEW t \in Types
    PROVE  Desired(f, a, t) \in Recordsets /\ Desired(f, a, t).owner = f
BY DEF Desired, DesiredData, Recordsets, Data

\* The adapter's view of a well-typed store is well typed, owned by whoever the name's
\* owner is, and misses no marker where a name has one owner.
LEMMA ViewParts ==
    ASSUME NEW s \in [Keys -> Recordsets \cup {Absent}], NEW k \in Keys
    PROVE  /\ Owner(s, k[1]) \in Fips \cup {Nobody}
           /\ ManagedView(s, k) \in Recordsets \cup {Absent}
           /\ ManagedView(s, k).owner \in {Owner(s, k[1]), Nobody}
           /\ Owner(s, k[1]) # Nobody =>
                 \E t \in Types : s[<<k[1], t>>].owner = Owner(s, k[1])
           /\ s[k].owner # Nobody => ManagedView(s, k).owner = Owner(s, k[1])
<1> DEFINE n == k[1]
<1>1. /\ n \in Names /\ k[2] \in Types /\ k = <<n, k[2]>>
      /\ <<n, "A">> \in Keys /\ <<n, "TXT">> \in Keys
  BY DEF Keys, Types
<1>2. /\ s[k] \in Recordsets \cup {Absent}
      /\ s[<<n, "A">>] \in Recordsets \cup {Absent}
      /\ s[<<n, "TXT">>] \in Recordsets \cup {Absent}
  BY <1>1
<1>3. Owner(s, n) \in Fips \cup {Nobody}
  BY <1>2, RecordParts DEF Owner
<1>4. Owner(s, n) # Nobody => \E t \in Types : s[<<n, t>>].owner = Owner(s, n)
  BY DEF Owner, Types
<1>5. \/ ManagedView(s, k) = Absent
      \/ s[k] # Absent /\ ManagedView(s, k) = [data |-> s[k].data, owner |-> Owner(s, n)]
  BY DEF ManagedView
<1>6. ManagedView(s, k) \in Recordsets \cup {Absent}
  BY <1>2, <1>3, <1>5, RecordParts DEF Recordsets
<1>7. ManagedView(s, k).owner \in {Owner(s, n), Nobody}
  BY <1>5, RecordParts, <1>2
<1>8. ASSUME s[k].owner # Nobody PROVE ManagedView(s, k).owner = Owner(s, n)
  <2>1. s[k] # Absent
    BY <1>8 DEF Absent
  <2>2. CASE k[2] = "TXT"
    BY <1>1, <1>8, <2>1, <2>2 DEF ManagedView
  <2>3. CASE k[2] = "A"
    <3>1. Owner(s, n) # Nobody
      BY <1>1, <1>8, <2>3 DEF Owner
    <3> QED BY <3>1, <2>1, <2>3 DEF ManagedView
  <2> QED BY <1>1, <2>2, <2>3 DEF Types
<1> QED BY <1>3, <1>4, <1>6, <1>7, <1>8

-----------------------------------------------------------------------------
(* Claims *)

\* No step makes a floating IP unborn again, and none brings one back.
LEMMA NeutronStep ==
    ASSUME TypeOK, [Next]_vars, NEW f \in Fips
    PROVE  /\ neutron[f] # Unborn => neutron'[f] # Unborn
           /\ neutron[f] = Gone => neutron'[f] = Gone
<1>1. CASE neutron' = neutron
  BY <1>1
<1>2. ASSUME NEW g \in Fips, Release(g)
      PROVE  /\ neutron[f] # Unborn => neutron'[f] # Unborn
             /\ neutron[f] = Gone => neutron'[f] = Gone
  BY <1>2, LifeAssumption DEF Release, TypeOK
<1>3. ASSUME NEW g \in Fips, NEW a \in Addrs, Allocate(g, a) \/ Readdress(g, a)
      PROVE  /\ neutron[f] # Unborn => neutron'[f] # Unborn
             /\ neutron[f] = Gone => neutron'[f] = Gone
  BY <1>3, LifeAssumption DEF Allocate, Readdress, Live, TypeOK
<1>4. CASE UNCHANGED vars
  BY <1>1, <1>4 DEF vars
<1>5. CASE Worker
  BY <1>1, <1>5 DEF Worker, world, ListFloatingIps, ListZones, ListZone, MakePlan, CanPlan,
     PlanFor, PlanRaises, BeginOp, CreateProjectZone, FindRecordset, WriteRecordset, FinishPass
<1>6. CASE Failures
  BY <1>1, <1>6 DEF Failures, world, ListFails, BeginFails, RequestFails, AnswerLost, Crash
<1>7. CASE NeutronActs
  BY <1>2, <1>3, <1>7 DEF NeutronActs
<1>8. CASE UserActs
  BY <1>1, <1>3, <1>8 DEF UserActs, UserDeletes, UserEdits, UserCreates, UserDropsZone
<1> QED BY <1>4, <1>5, <1>6, <1>7, <1>8 DEF Next

\* A step that adds no claim keeps what IInv says of claims.
LEMMA NoNewClaim ==
    ASSUME ClaimsMatch, ClaimsBorn,
           \A n \in Names, f \in Fips : Claims(n, f)' => Claims(n, f),
           \A f \in Fips : neutron[f] # Unborn => neutron'[f] # Unborn
    PROVE  ClaimsMatch' /\ ClaimsBorn'
BY DEF ClaimsMatch, ClaimsBorn

\* While the process does not touch its own state, claims change with dns alone, and
\* other users can only take markers away.
LEMMA FewerMarks ==
    ASSUME UNCHANGED <<found, todo, cur>>,
           \A k \in Keys : dns'[k].owner \in {dns[k].owner, Nobody},
           NEW n \in Names, NEW f \in Fips, Claims(n, f)'
    PROVE  Claims(n, f)
BY FipAssumption DEF Claims, Keys

\* Names carry the markers of at most one floating IP, and the other way round.
LEMMA OneOwner == ASSUME TypeOK, ClaimsMatch PROVE NamesMatchFips
<1> SUFFICES ASSUME NEW k \in Keys, NEW l \in Keys,
                    dns[k].owner # Nobody, dns[l].owner # Nobody
             PROVE  k[1] = l[1] <=> dns[k].owner = dns[l].owner
  BY DEF NamesMatchFips
<1>1. dns[k].owner \in Fips /\ dns[l].owner \in Fips
  BY RecordParts DEF TypeOK
<1>2. Claims(k[1], dns[k].owner) /\ Claims(l[1], dns[l].owner)
  BY KeyParts DEF Claims
<1> QED BY <1>1, <1>2, KeyParts DEF ClaimsMatch

\* Where names have one owner, the owner of a name is the owner of each marker it carries.
LEMMA OwnerOfMark ==
    ASSUME TypeOK, NamesMatchFips, NEW k \in Keys, dns[k].owner # Nobody
    PROVE  Owner(dns, k[1]) = dns[k].owner
<1>1. k[1] \in Names /\ k[2] \in Types /\ k = <<k[1], k[2]>>
      /\ <<k[1], "A">> \in Keys /\ <<k[1], "TXT">> \in Keys
  BY DEF Keys, Types
<1>2. dns[<<k[1], "TXT">>].owner # Nobody => dns[<<k[1], "TXT">>].owner = dns[k].owner
  BY <1>1 DEF NamesMatchFips
<1>3. dns[<<k[1], "TXT">>].owner = Nobody => k[2] = "A"
  BY <1>1 DEF Types
<1> QED BY <1>1, <1>2, <1>3 DEF Owner

-----------------------------------------------------------------------------
(* Initially, and when a pass begins or ends *)

\* Nothing is listed before a pass.
LEMMA NoneListed == NothingSeen \in Listings /\ Listed(NothingSeen) = {}
BY DataAssumption DEF NothingSeen, Listings, Listed

\* No recordset of an empty store has an owner.
LEMMA NoMarks ==
    /\ NoRecords \in [Keys -> Recordsets \cup {Absent}]
    /\ \A k \in Keys : NoRecords[k] = Absent /\ NoRecords[k].owner = Nobody
BY DEF NoRecords, Absent

\* The initial states satisfy the inductive invariant.
THEOREM InitIInv == Init => IInv
<1> SUFFICES ASSUME Init PROVE IInv
  OBVIOUS
<1> USE DEF Init
<1>1. TypeOK
  BY NoneListed, NoMarks, ProjectAssumption DEF TypeOK
<1>2. \A n \in Names, f \in Fips : ~Claims(n, f)
  BY NoMarks, FipAssumption DEF Claims, Keys
<1>3. ClaimsMatch /\ ClaimsBorn /\ UnseenGone
  BY <1>2 DEF ClaimsMatch, ClaimsBorn, UnseenGone
<1>4. SeenBorn /\ RecordsInZones /\ NothingMissed
  BY NoneListed, NoMarks DEF SeenBorn, RecordsInZones, NothingMissed
<1>5. PassShape /\ OnlyStaleDeleted
  BY DEF PassShape, OnlyStaleDeleted
<1> QED BY <1>1, <1>3, <1>4, <1>5 DEF IInv

\* A pass that ends, by whatever outcome, leaves only what DNS says.
LEMMA EndPassKeeps ==
    ASSUME IInv, NEW v \in {"none", "raised", "success", "failure"}, EndPass(v),
           UNCHANGED <<world, disturbed>>, faults' \in Nat, edits' \in Nat
    PROVE  IInv'
<1> USE DEF EndPass, world
<1>1. TypeOK'
  BY NoneListed, NoMarks DEF IInv, TypeOK
<1>2. \A n \in Names, f \in Fips : Claims(n, f)' => Claims(n, f)
  BY NoMarks, FipAssumption DEF Claims, Keys
<1>3. ClaimsMatch' /\ ClaimsBorn'
  BY <1>2, NoNewClaim DEF IInv
<1>4. SeenBorn' /\ UnseenGone' /\ RecordsInZones' /\ NothingMissed'
  BY NoneListed DEF IInv, SeenBorn, UnseenGone, RecordsInZones, NothingMissed
<1>5. PassShape' /\ OnlyStaleDeleted'
  BY DEF PassShape, OnlyStaleDeleted
<1> QED BY <1>1, <1>3, <1>4, <1>5 DEF IInv

\* The floating IPs listed first are all that have a record and are not gone.
LEMMA ListFloatingIpsKeeps == ASSUME IInv, ListFloatingIps PROVE IInv'
<1> USE DEF ListFloatingIps, world
<1>1. TypeOK'
  BY DEF IInv, TypeOK, Listings
<1>2. \A n \in Names, f \in Fips : Claims(n, f)' <=> Claims(n, f)
  BY DEF Claims
<1>3. ClaimsMatch' /\ ClaimsBorn'
  BY <1>2, NoNewClaim DEF IInv
<1>4. \A f \in Fips : f \in Listed(seen)' <=> neutron[f] \in Addrs
  BY DataAssumption DEF Listed
<1>5. UnseenGone' /\ SeenBorn'
  BY <1>2, <1>3, <1>4, LifeAssumption DEF IInv, TypeOK, ClaimsBorn, UnseenGone, SeenBorn, Listed
<1>6. RecordsInZones' /\ NothingMissed'
  BY DEF IInv, RecordsInZones, NothingMissed
<1>7. PassShape' /\ OnlyStaleDeleted'
  BY DEF IInv, PassShape, OnlyStaleDeleted
<1> QED BY <1>1, <1>3, <1>5, <1>6, <1>7 DEF IInv

\* Every marker is in a zone still to be listed.
LEMMA ListZonesKeeps == ASSUME IInv, ListZones PROVE IInv'
<1> USE DEF ListZones, world
<1>1. TypeOK'
  BY DEF IInv, TypeOK, ExistingZones
<1>2. \A n \in Names, f \in Fips : Claims(n, f)' <=> Claims(n, f)
  BY DEF Claims
<1>3. ClaimsMatch' /\ ClaimsBorn' /\ UnseenGone'
  BY <1>2, NoNewClaim DEF IInv, UnseenGone
<1>4. NothingMissed'
  BY NameZone, KeyParts DEF IInv, RecordsInZones, NothingMissed, ExistingZones, Absent
<1>5. SeenBorn' /\ RecordsInZones' /\ PassShape' /\ OnlyStaleDeleted'
  BY DEF IInv, SeenBorn, RecordsInZones, PassShape, OnlyStaleDeleted
<1> QED BY <1>1, <1>3, <1>4, <1>5 DEF IInv

\* The recordsets of a zone are listed by owner, and every marker in it is seen.
LEMMA ListZoneKeeps == ASSUME IInv, NEW z \in Zones, ListZone(z) PROVE IInv'
<1> USE DEF ListZone, world
<1>1. CASE zone[z] = NoZone
  BY <1>1, EndPassKeeps DEF IInv, TypeOK
<1>2. CASE zone[z] # NoZone
  <2>1. NamesMatchFips
    BY OneOwner DEF IInv
  <2>2. \A k \in Keys : found'[k] = IF ZoneOf(k[1]) = z THEN ManagedView(dns, k) ELSE found[k]
    BY <1>2
  <2>3. TypeOK'
    BY <1>2, ViewParts DEF IInv, TypeOK
  <2>4. \A n \in Names, f \in Fips : Claims(n, f)' => Claims(n, f)
    <3> SUFFICES ASSUME NEW n \in Names, NEW f \in Fips, Claims(n, f)'
                 PROVE  Claims(n, f)
      OBVIOUS
    <3>1. CASE ~\E t \in Types : found'[<<n, t>>].owner = f
      BY <1>2, <3>1 DEF Claims
    <3>2. ASSUME NEW t \in Types, found'[<<n, t>>].owner = f PROVE Claims(n, f)
      <4> DEFINE k == <<n, t>>
      <4>1. k \in Keys /\ k[1] = n
        BY DEF Keys
      <4>2. CASE ZoneOf(n) # z
        BY <3>2, <4>1, <4>2, <2>2 DEF Claims
      <4>3. CASE ZoneOf(n) = z
        <5>1. ManagedView(dns, k).owner = f
          BY <3>2, <4>1, <4>3, <2>2
        <5>2. ManagedView(dns, k).owner \in {Owner(dns, n), Nobody}
          BY <4>1, ViewParts DEF IInv, TypeOK
        <5>3. Owner(dns, n) = f /\ f # Nobody
          BY <5>1, <5>2, FipAssumption
        <5>4. \E u \in Types : dns[<<n, u>>].owner = f
          BY <4>1, <5>3, ViewParts DEF IInv, TypeOK
        <5> QED BY <5>4 DEF Claims
      <4> QED BY <4>2, <4>3
    <3> QED BY <3>1, <3>2
  <2>5. ClaimsMatch' /\ ClaimsBorn'
    BY <1>2, <2>4, NoNewClaim DEF IInv
  <2>6. UnseenGone' /\ SeenBorn'
    BY <1>2, <2>4 DEF IInv, UnseenGone, SeenBorn
  <2>7. NothingMissed'
    BY <1>2, <2>1, <2>2, OwnerOfMark, ViewParts DEF IInv, NothingMissed, TypeOK
  <2>8. RecordsInZones' /\ PassShape' /\ OnlyStaleDeleted'
    BY <1>2 DEF IInv, RecordsInZones, PassShape, OnlyStaleDeleted
  <2> QED BY <2>3, <2>5, <2>6, <2>7, <2>8 DEF IInv
<1> QED BY <1>1, <1>2

-----------------------------------------------------------------------------
(* The plan *)

\* What the operations of a plan are about.
LEMMA PlanParts ==
    ASSUME NEW s, NEW r, NEW name, NEW o \in Plan(s, r, name)
    PROVE  /\ o \in Ops /\ o.name = name[o.fip] /\ o.fip \in Fips
           /\ o.phase # "delete" => o.fip \in Listed(s)
           /\ o.phase = "delete" => o.fip \in Grouped(r) \ Listed(s)
BY DEF Plan, CreateOps, UpdateOps, DeleteOps, Ops

\* A complete listing has every claim of the moment.
LEMMA AllClaimsFound ==
    ASSUME IInv, pc = "listing", unlisted = {}, NEW n \in Names, NEW f \in Fips, Claims(n, f)
    PROVE  \E t \in Types : found[<<n, t>>].owner = f
<1>1. PICK t \in Types : dns[<<n, t>>].owner = f \/ found[<<n, t>>].owner = f
  BY DEF IInv, PassShape, Claims
<1>2. <<n, t>> \in Keys
  BY DEF Keys
<1> QED BY <1>1, <1>2, FipAssumption DEF IInv, NothingMissed

\* Grouped floating IPs keep a name they claim; new ones claim nothing, and get names
\* that nobody claims.
LEMMA ChosenNames ==
    ASSUME IInv, pc = "listing", unlisted = {}, NEW name \in NameChoices(seen, found)
    PROVE  /\ \A f \in Grouped(found) : f \in Fips /\ Claims(name[f], f) /\ name[f] \in Names
           /\ \A f \in NewFips(seen, found), n \in Names : ~Claims(n, f)
           /\ \A f \in NewFips(seen, found), g \in Fips : ~Claims(name[f], g)
           /\ \A f, g \in NewFips(seen, found) : f # g => name[f] # name[g]
<1>1. \A f \in Grouped(found) : name[f] \in GroupNames(found, f) /\ f \in Fips
  BY DEF NameChoices, Grouped
<1>2. ASSUME NEW f \in Fips, NEW n \in GroupNames(found, f)
      PROVE  n \in Names /\ Claims(n, f)
  BY <1>2 DEF GroupNames, OwnedNames, Claims, Types
<1>3. ASSUME NEW f \in NewFips(seen, found), NEW n \in Names, Claims(n, f) PROVE FALSE
  <2>1. f \in Fips /\ f \notin Grouped(found)
    BY DEF NewFips, Listed
  <2>2. PICK t \in Types : found[<<n, t>>].owner = f
    BY <1>3, <2>1, AllClaimsFound
  <2> QED BY <2>1, <2>2 DEF Grouped, GroupNames, OwnedNames, Types
<1>4. ASSUME NEW f \in NewFips(seen, found), NEW g \in Fips, Claims(name[f], g) PROVE FALSE
  <2>1. name[f] \in Names \ UsedNames(found)
    BY DEF NameChoices, NamesFor
  <2>2. PICK t \in Types : found[<<name[f], t>>].owner = g
    BY <1>4, <2>1, AllClaimsFound
  <2>3. found[<<name[f], t>>] # Absent
    BY <2>2, FipAssumption DEF Absent
  <2> QED BY <2>1, <2>3 DEF UsedNames
<1>5. \A f, g \in NewFips(seen, found) : f # g => name[f] # name[g]
  BY DEF NameChoices
<1> QED BY <1>1, <1>2, <1>3, <1>4, <1>5

\* A plan adds at most one claim for each floating IP that had none, on a free name, and
\* deletes only what belongs to floating IPs that are gone.
LEMMA MakePlanKeeps == ASSUME IInv, MakePlan PROVE IInv'
<1> USE DEF MakePlan, CanPlan, PlanFor, world
<1>1. PICK name \in NameChoices(seen, found) :
          todo' = IF DryRun THEN {} ELSE Plan(seen, found, name)
  OBVIOUS
<1>2. \A o \in todo' : o \in Plan(seen, found, name)
  BY <1>1
<1>3. TypeOK'
  BY <1>2, PlanParts, NoMarks DEF IInv, TypeOK
<1>4. ASSUME NEW n \in Names, NEW f \in Fips, Claims(n, f)'
      PROVE  Claims(n, f) \/ (f \in NewFips(seen, found) /\ n = name[f])
  <2>1. CASE \E t \in Types : dns[<<n, t>>].owner = f
    BY <2>1 DEF Claims
  <2>2. CASE \E t \in Types : found'[<<n, t>>].owner = f
    BY <2>2, NoMarks, FipAssumption DEF Keys
  <2>3. ASSUME NEW o \in todo', o.name = n, o.fip = f
        PROVE  Claims(n, f) \/ (f \in NewFips(seen, found) /\ n = name[f])
    <3>1. n = name[f] /\ f \in Listed(seen) \cup Grouped(found)
      BY <1>2, <2>3, PlanParts DEF Ops, Phases
    <3> QED BY <3>1, ChosenNames DEF NewFips
  <2> QED BY <1>4, <2>1, <2>2, <2>3 DEF Claims, IInv, PassShape
<1>5. ClaimsMatch'
  <2> SUFFICES ASSUME NEW n \in Names, NEW m \in Names, NEW f \in Fips, NEW g \in Fips,
                      Claims(n, f)', Claims(m, g)'
               PROVE  n = m <=> f = g
    BY DEF ClaimsMatch
  <2>1. CASE Claims(n, f) /\ Claims(m, g)
    BY <2>1 DEF IInv, ClaimsMatch
  <2>2. CASE Claims(n, f) /\ ~Claims(m, g)
    BY <1>4, <2>2, ChosenNames
  <2>3. CASE ~Claims(n, f) /\ Claims(m, g)
    BY <1>4, <2>3, ChosenNames
  <2>4. CASE ~Claims(n, f) /\ ~Claims(m, g)
    BY <1>4, <2>4, ChosenNames
  <2> QED BY <2>1, <2>2, <2>3, <2>4
<1>6. ClaimsBorn'
  BY <1>4 DEF IInv, ClaimsBorn, SeenBorn, NewFips
<1>7. OnlyStaleDeleted'
  <2> SUFFICES ASSUME NEW o \in todo', o.phase = "delete" PROVE neutron[o.fip] = Gone
    BY DEF IInv, PassShape, OnlyStaleDeleted
  <2>1. o.fip \in Grouped(found) \ Listed(seen)
    BY <1>2, PlanParts
  <2>2. o.fip \in Fips /\ name[o.fip] \in Names /\ Claims(name[o.fip], o.fip)
    BY <2>1, ChosenNames
  <2> QED BY <2>1, <2>2 DEF IInv, UnseenGone
<1>8. PassShape'
  BY <1>2, PlanParts DEF IInv, PassShape
<1>9. SeenBorn' /\ UnseenGone' /\ RecordsInZones' /\ NothingMissed'
  BY DEF IInv, SeenBorn, UnseenGone, RecordsInZones, NothingMissed
<1> QED BY <1>3, <1>5, <1>6, <1>7, <1>8, <1>9 DEF IInv

-----------------------------------------------------------------------------
(* Applying the plan *)

Applying == {"applying", "zoning", "finding", "writing"}

\* Whatever a step of the applying process does, it only uses up claims.
LEMMA ApplyingKeeps ==
    ASSUME IInv, pc \in Applying, pc' \in Applying,
           UNCHANGED <<neutron, seen, unlisted, found>>,
           todo' \subseteq todo, cur' \in todo \cup {cur},
           \A k \in Keys : \/ dns'[k].owner \in {dns[k].owner, Nobody}
                           \/ cur \in Ops /\ k = Key(cur) /\ dns'[k].owner = cur.fip,
           handle' = "held" => pc' = "writing" /\ dns'[Key(cur')] # Absent,
           TypeOK', RecordsInZones'
    PROVE  IInv'
<1>1. ASSUME NEW n \in Names, NEW f \in Fips, Claims(n, f)' PROVE Claims(n, f)
  <2>1. CASE \E o \in todo' \cup {cur'} : o # NoOp /\ o.name = n /\ o.fip = f
    BY <2>1 DEF Claims
  <2>2. CASE \E t \in Types : found'[<<n, t>>].owner = f
    BY <2>2 DEF Claims
  <2>3. ASSUME NEW t \in Types, dns'[<<n, t>>].owner = f PROVE Claims(n, f)
    <3>1. <<n, t>> \in Keys
      BY DEF Keys
    <3>2. CASE dns'[<<n, t>>].owner \in {dns[<<n, t>>].owner, Nobody}
      BY <2>3, <3>2, FipAssumption DEF Claims
    <3>3. CASE cur \in Ops /\ <<n, t>> = Key(cur) /\ dns'[<<n, t>>].owner = cur.fip
      BY <2>3, <3>3, OpAssumption DEF Claims, Key
    <3> QED BY <3>1, <3>2, <3>3
  <2> QED BY <1>1, <2>1, <2>2, <2>3 DEF Claims
<1>2. ClaimsMatch' /\ ClaimsBorn'
  BY <1>1, NoNewClaim DEF IInv
<1>3. SeenBorn' /\ UnseenGone' /\ NothingMissed'
  BY DEF IInv, SeenBorn, UnseenGone, NothingMissed, Applying
<1>4. OnlyStaleDeleted'
  BY DEF IInv, OnlyStaleDeleted
<1>5. PassShape'
  BY DEF IInv, PassShape, Applying
<1> QED BY <1>2, <1>3, <1>4, <1>5 DEF IInv

\* The zone lookup moves an operation from the plan into the hand.
LEMMA BeginOpKeeps ==
    ASSUME IInv, NEW o \in todo, BeginOp(o) \/ BeginFails(o) PROVE IInv'
<1> USE DEF BeginOp, BeginFails, Done, world, Fault
<1>1. TypeOK'
  <2>1. clean' \in BOOLEAN
    BY Zenon DEF IInv, TypeOK
  <2>2. faults' \in Nat
    BY SMT DEF IInv, TypeOK
  <2> QED BY <2>1, <2>2 DEF IInv, TypeOK
<1>2. RecordsInZones'
  BY DEF IInv, RecordsInZones
<1>3. handle' # "held"
  BY DEF IInv, PassShape
<1>4. pc \in Applying /\ pc' \in Applying
  BY DEF Applying
<1> QED BY <1>1, <1>2, <1>3, <1>4, ApplyingKeeps

\* Creating a zone takes no zone away.
LEMMA ZoneCreatedParts ==
    ASSUME IInv, cur \in Ops
    PROVE  /\ ZoneCreated \in [Zones -> Projects \cup {Service, NoZone}]
           /\ \A z \in Zones : zone[z] # NoZone => ZoneCreated[z] # NoZone
BY OpKey, NameZone, ProjectAssumption DEF IInv, TypeOK, ZoneCreated

LEMMA CreateProjectZoneKeeps == ASSUME IInv, CreateProjectZone PROVE IInv'
<1> USE DEF CreateProjectZone
<1>1. TypeOK'
  BY ZoneCreatedParts DEF IInv, TypeOK
<1>2. RecordsInZones'
  BY ZoneCreatedParts, KeyParts, NameZone DEF IInv, TypeOK, RecordsInZones
<1>3. handle' # "held"
  BY DEF IInv, PassShape
<1>4. pc \in Applying /\ pc' \in Applying
  BY DEF Applying
<1> QED BY <1>1, <1>2, <1>3, <1>4, ApplyingKeeps

LEMMA FindRecordsetKeeps == ASSUME IInv, FindRecordset PROVE IInv'
<1> USE DEF FindRecordset, Done, world
<1>1. TypeOK'
  BY DEF IInv, TypeOK
<1>2. RecordsInZones'
  BY DEF IInv, RecordsInZones
<1>3. handle' = "held" => pc' = "writing" /\ dns'[Key(cur')] # Absent
  BY DEF IInv, PassShape
<1>4. pc \in Applying /\ pc' \in Applying
  BY DEF Applying
<1> QED BY <1>1, <1>2, <1>3, <1>4, ApplyingKeeps

\* A write puts the marker of the operation's floating IP under its key or clears it.
LEMMA AppliedParts ==
    ASSUME IInv, pc = "writing"
    PROVE  /\ cur \in Ops
           /\ Applied \in [Keys -> Recordsets \cup {Absent}]
           /\ \A k \in Keys : \/ Applied[k].owner \in {dns[k].owner, Nobody}
                              \/ k = Key(cur) /\ Applied[k].owner = cur.fip
           /\ \A k \in Keys : Applied[k] # Absent => zone[ZoneOf(k[1])] # NoZone
<1>1. cur \in Ops /\ Key(cur) \in Keys /\ Key(cur)[1] = cur.name
  BY OpKey DEF IInv, TypeOK
<1>2. CASE ~Accepted
  BY <1>1, <1>2 DEF Applied, IInv, TypeOK, RecordsInZones
<1>3. CASE Accepted
  <2>1. zone[ZoneOf(cur.name)] # NoZone
    BY <1>1, <1>3 DEF Accepted, IInv, PassShape, RecordsInZones
  <2> DEFINE r == IF cur.phase = "delete" THEN Absent ELSE Desired(cur.fip, seen[cur.fip], cur.type)
  <2>2. r \in Recordsets \cup {Absent} /\ r.owner \in {cur.fip, Nobody}
    <3>1. CASE cur.phase = "delete"
      BY <3>1 DEF Absent
    <3>2. CASE cur.phase # "delete"
      <4>1. cur.fip \in Fips /\ cur.type \in Types /\ seen[cur.fip] \in Addrs
        BY <1>1, <3>2, OpKey, OpAssumption DEF IInv, PassShape, Listed
      <4> QED BY <3>2, <4>1, DesiredParts
    <3> QED BY <3>1, <3>2
  <2>3. Applied = [dns EXCEPT ![Key(cur)] = r]
    BY <1>3 DEF Applied
  <2> HIDE DEF r
  <2>4. dns \in [Keys -> Recordsets \cup {Absent}]
    BY DEF IInv, TypeOK
  <2>5. \A k \in Keys : Applied[k] = IF k = Key(cur) THEN r ELSE dns[k]
    BY <1>1, <2>3, <2>4
  <2> QED BY <1>1, <2>1, <2>2, <2>3, <2>4, <2>5 DEF IInv, RecordsInZones
<1> QED BY <1>2, <1>3

LEMMA WriteRecordsetKeeps ==
    ASSUME IInv, WriteRecordset \/ AnswerLost PROVE IInv'
<1> USE DEF WriteRecordset, AnswerLost, Done, Fault
<1>1. TypeOK'
  <2>1. clean' \in BOOLEAN
    BY Zenon DEF IInv, TypeOK
  <2>2. faults' \in Nat
    BY SMT DEF IInv, TypeOK
  <2> QED BY <2>1, <2>2, AppliedParts DEF IInv, TypeOK
<1>2. RecordsInZones'
  BY AppliedParts DEF RecordsInZones
<1>3. handle' # "held" /\ pc \in Applying /\ pc' \in Applying
  BY DEF Applying
<1> QED BY <1>1, <1>2, <1>3, AppliedParts, ApplyingKeeps

LEMMA RequestFailsKeeps == ASSUME IInv, RequestFails PROVE IInv'
<1> USE DEF RequestFails, Done, Fault
<1>1. cur \in Ops
  BY DEF IInv, TypeOK
<1>2. TypeOK'
  BY <1>1, ZoneCreatedParts DEF IInv, TypeOK, Outcomes
<1>3. RecordsInZones'
  BY <1>1, ZoneCreatedParts, KeyParts, NameZone DEF IInv, TypeOK, RecordsInZones
<1>4. handle' # "held" /\ pc \in Applying /\ pc' \in Applying
  BY DEF Applying
<1> QED BY <1>2, <1>3, <1>4, ApplyingKeeps

-----------------------------------------------------------------------------
(* Failures and the world outside *)

LEMMA EndingsKeep ==
    ASSUME IInv, PlanRaises \/ FinishPass \/ ListFails \/ Crash PROVE IInv'
<1>1. CASE PlanRaises
  BY <1>1, EndPassKeeps DEF PlanRaises, IInv, TypeOK, world
<1>2. CASE FinishPass
  BY <1>2, EndPassKeeps DEF FinishPass, IInv, TypeOK
<1>3. CASE ListFails
  BY <1>3, EndPassKeeps DEF ListFails, Fault, IInv, TypeOK, world
<1>4. CASE Crash
  BY <1>4, EndPassKeeps DEF Crash, Fault, IInv, TypeOK, world
<1> QED BY <1>1, <1>2, <1>3, <1>4

\* While the process does nothing, Neutron and other users take markers away and give
\* none, and what the process has seen stays safe to act on.
LEMMA OutsideKeeps ==
    ASSUME IInv, [Next]_vars,
           UNCHANGED <<pc, seen, unlisted, found, todo, cur, clean, verdict>>,
           \A k \in Keys : dns'[k].owner \in {dns[k].owner, Nobody},
           handle' = "held" => handle = "held" /\ dns'[Key(cur)] # Absent,
           TypeOK', RecordsInZones'
    PROVE  IInv'
<1>1. \A n \in Names, f \in Fips : Claims(n, f)' => Claims(n, f)
  BY FewerMarks
<1>2. \A f \in Fips : /\ neutron[f] # Unborn => neutron'[f] # Unborn
                      /\ neutron[f] = Gone => neutron'[f] = Gone
  BY NeutronStep DEF IInv
<1>3. ClaimsMatch' /\ ClaimsBorn'
  BY <1>1, <1>2, NoNewClaim DEF IInv
<1>4. SeenBorn' /\ UnseenGone'
  BY <1>1, <1>2 DEF IInv, SeenBorn, UnseenGone, Listed
<1>5. NothingMissed'
  BY DEF IInv, NothingMissed
<1>6. PassShape'
  BY DEF IInv, PassShape
<1>7. OnlyStaleDeleted'
  <2>1. \A o \in todo \cup ({cur} \ {NoOp}) : o.fip \in Fips
    BY DEF IInv, TypeOK, Ops
  <2> QED BY <1>2, <2>1 DEF IInv, OnlyStaleDeleted
<1> QED BY <1>3, <1>4, <1>5, <1>6, <1>7 DEF IInv

LEMMA NeutronKeeps ==
    ASSUME IInv, NEW f \in Fips, NEW a \in Addrs,
           Release(f) \/ Allocate(f, a) \/ Readdress(f, a)
    PROVE  IInv'
<1> USE DEF Release, Allocate, Readdress, Edit, process
<1>1. TypeOK'
  <2>1. UNCHANGED <<zone, dns, pc, seen, unlisted, found, todo, cur, handle, clean,
                    verdict, faults>>
    OBVIOUS
  <2>2. neutron' \in [Fips -> Addrs \cup {Unborn, Gone}]
    BY DEF IInv, TypeOK
  <2>3. edits' \in Nat
    BY DEF IInv, TypeOK
  <2>4. disturbed' \in BOOLEAN /\ clean' \in BOOLEAN
    BY <2>1, Zenon DEF IInv, TypeOK
  <2> HIDE DEF Release, Allocate, Readdress, Edit, process
  <2> QED BY <2>1, <2>2, <2>3, <2>4 DEF IInv, TypeOK
<1>2. RecordsInZones'
  BY DEF IInv, RecordsInZones
<1>3. handle' = "held" => handle = "held" /\ dns'[Key(cur)] # Absent
  BY DEF IInv, PassShape
<1>4. Next
  BY DEF Next, NeutronActs, UserActs
<1> QED BY <1>1, <1>2, <1>3, <1>4, OutsideKeeps

\* Losing recordsets makes stale a handle to one of them.
LEMMA LossParts ==
    ASSUME IInv, NEW S, LoseRecords(S)
    PROVE  /\ dns' \in [Keys -> Recordsets \cup {Absent}] /\ handle' \in {"none", "held", "stale"}
           /\ \A k \in Keys : dns'[k] = IF k \in S THEN Absent ELSE dns[k]
           /\ \A k \in Keys : dns'[k].owner \in {dns[k].owner, Nobody}
           /\ handle' = "held" => handle = "held" /\ (cur \in Ops => dns'[Key(cur)] # Absent)
<1> USE DEF LoseRecords
<1>1. /\ dns' \in [Keys -> Recordsets \cup {Absent}]
      /\ \A k \in Keys : dns'[k] = IF k \in S THEN Absent ELSE dns[k]
  BY DEF IInv, TypeOK
<1>2. \A k \in Keys : dns'[k].owner \in {dns[k].owner, Nobody}
  BY <1>1, RecordParts
<1>3. handle' = "held" => handle = "held" /\ (cur \in Ops => dns'[Key(cur)] # Absent)
  BY <1>1, OpKey DEF IInv, PassShape
<1>4. handle' \in {"none", "held", "stale"}
  BY DEF IInv, TypeOK
<1> QED BY <1>1, <1>2, <1>3, <1>4

LEMMA UserDeletesKeeps ==
    ASSUME IInv, NEW k \in Keys, UserDeletes(k) PROVE IInv'
<1> USE DEF UserDeletes, Edit
<1>1. TypeOK' /\ RecordsInZones'
  BY LossParts DEF IInv, TypeOK, RecordsInZones
<1>2. handle' = "held" => handle = "held" /\ dns'[Key(cur)] # Absent
  BY LossParts DEF IInv, TypeOK, PassShape
<1>3. Next
  BY DEF Next, UserActs
<1> QED BY <1>1, <1>2, <1>3, LossParts, OutsideKeeps

LEMMA UserDropsZoneKeeps ==
    ASSUME IInv, NEW z \in Zones, UserDropsZone(z) PROVE IInv'
<1> USE DEF UserDropsZone, Edit
<1> DEFINE S == {k \in Keys : ZoneOf(k[1]) = z}
<1>1. TypeOK'
  BY LossParts DEF IInv, TypeOK
<1>2. RecordsInZones'
  BY LossParts DEF IInv, TypeOK, RecordsInZones
<1>3. handle' = "held" => handle = "held" /\ dns'[Key(cur)] # Absent
  BY LossParts DEF IInv, TypeOK, PassShape
<1>4. Next
  BY DEF Next, UserActs
<1> QED BY <1>1, <1>2, <1>3, <1>4, LossParts, OutsideKeeps

LEMMA UserWritesKeeps ==
    ASSUME IInv, NEW k \in Keys, UserEdits(k) \/ UserCreates(k) PROVE IInv'
<1> USE DEF UserEdits, UserCreates, Edit, process
<1>1. PICK r \in Recordsets : /\ dns' = [dns EXCEPT ![k] = r]
                              /\ r.owner \in {dns[k].owner, Nobody}
  BY RecordParts DEF Recordsets, Data, IInv, TypeOK
<1>2. /\ dns' \in [Keys -> Recordsets \cup {Absent}]
      /\ \A l \in Keys : dns'[l] = IF l = k THEN r ELSE dns[l]
  BY <1>1 DEF IInv, TypeOK
<1>3. r # Absent
  BY DataAssumption DEF Recordsets, Data, Absent
<1>4. TypeOK'
  <2>1. UNCHANGED <<neutron, zone, pc, seen, unlisted, found, todo, cur, handle, clean,
                    verdict, faults>>
    OBVIOUS
  <2>2. edits' \in Nat
    BY DEF IInv, TypeOK
  <2>3. disturbed' \in BOOLEAN /\ clean' \in BOOLEAN
    BY <2>1, Zenon DEF IInv, TypeOK
  <2> HIDE DEF UserEdits, UserCreates, Edit, process
  <2> QED BY <1>2, <2>1, <2>2, <2>3 DEF IInv, TypeOK
<1>5. RecordsInZones'
  BY <1>2 DEF IInv, RecordsInZones
<1>6. handle' = "held" => handle = "held" /\ dns'[Key(cur)] # Absent
  BY <1>2, <1>3, OpKey DEF IInv, TypeOK, PassShape
<1>7. Next
  BY DEF Next, UserActs
<1> QED BY <1>1, <1>2, <1>4, <1>5, <1>6, <1>7, OutsideKeeps

-----------------------------------------------------------------------------
(* The invariant *)

\* Every step keeps the inductive invariant.
THEOREM NextIInv == IInv /\ [Next]_vars => IInv'
<1> SUFFICES ASSUME IInv, [Next]_vars PROVE IInv'
  OBVIOUS
<1>1. CASE Worker
  BY <1>1, ListFloatingIpsKeeps, ListZonesKeeps, ListZoneKeeps, MakePlanKeeps, BeginOpKeeps,
     CreateProjectZoneKeeps, FindRecordsetKeeps, WriteRecordsetKeeps, EndingsKeep DEF Worker
<1>2. CASE Failures
  BY <1>2, BeginOpKeeps, RequestFailsKeeps, WriteRecordsetKeeps, EndingsKeep DEF Failures
<1>3. CASE NeutronActs
  <2>1. ASSUME NEW f \in Fips, Release(f) PROVE IInv'
    <3>1. PICK a \in Addrs : neutron[f] = a
      BY <2>1 DEF Release, Live
    <3> QED BY <2>1, <3>1, NeutronKeeps
  <2> QED BY <1>3, <2>1, NeutronKeeps DEF NeutronActs
<1>4. CASE UserActs
  BY <1>4, NeutronKeeps, UserDeletesKeeps, UserWritesKeeps, UserDropsZoneKeeps DEF UserActs
<1>5. CASE UNCHANGED vars
  BY <1>5 DEF vars, IInv, TypeOK, ClaimsMatch, ClaimsBorn, Claims, SeenBorn, UnseenGone,
     RecordsInZones, NothingMissed, PassShape, OnlyStaleDeleted
<1> QED BY <1>1, <1>2, <1>3, <1>4, <1>5 DEF Next

\* In every reachable state: the types, no claim of a name by two floating IPs, no marker
\* missed by a listing, no delete of what is not gone.
THEOREM Inductive == Spec => []IInv
BY InitIInv, NextIInv, PTL DEF Spec

\* A name never carries the markers of two floating IPs and a floating IP never has
\* markers at two names, whatever fails and whoever else acts.
THEOREM NamesMatch == Spec => []NamesMatchFips
<1>1. IInv => NamesMatchFips
  BY OneOwner DEF IInv
<1> QED BY <1>1, Inductive, PTL

\* A delete is only ever planned or in progress for a floating IP that Neutron released.
THEOREM StaleDeletes == Spec => []OnlyStaleDeleted
<1>1. IInv => OnlyStaleDeleted
  BY DEF IInv
<1> QED BY <1>1, Inductive, PTL

-----------------------------------------------------------------------------
(* Records of live floating IPs *)

\* A write only changes the recordset under its key, and its floating IP is the only one
\* that can own it.
LEMMA WriteParts ==
    ASSUME IInv, pc = "writing"
    PROVE  /\ cur \in Ops /\ Key(cur) \in Keys
           /\ \A k \in Keys : k # Key(cur) => Applied[k] = dns[k]
           /\ dns[Key(cur)].owner \in {cur.fip, Nobody}
           /\ cur.phase = "delete" => Applied[Key(cur)].owner \in {dns[Key(cur)].owner, Nobody}
           /\ cur.phase = "delete" => neutron[cur.fip] = Gone
           /\ cur.phase # "delete" => Applied[Key(cur)].owner \in {dns[Key(cur)].owner, cur.fip}
<1>1. cur \in Ops /\ Key(cur) \in Keys /\ cur.name \in Names /\ cur.fip \in Fips
  BY OpKey DEF IInv, TypeOK
<1>2. \A k \in Keys : k # Key(cur) => Applied[k] = dns[k]
  BY <1>1 DEF Applied, IInv, TypeOK
<1>3. dns[Key(cur)].owner \in {cur.fip, Nobody}
  <2>1. dns[Key(cur)].owner \in Fips \cup {Nobody}
    BY <1>1, RecordParts DEF IInv, TypeOK
  <2>2. Claims(cur.name, cur.fip)
    BY <1>1, OpAssumption DEF Claims
  <2>3. dns[Key(cur)].owner \in Fips => Claims(cur.name, dns[Key(cur)].owner)
    BY <1>1, OpKey DEF Claims, Key
  <2> QED BY <1>1, <2>1, <2>2, <2>3 DEF IInv, ClaimsMatch
<1>4. cur.phase = "delete" => Applied[Key(cur)].owner \in {dns[Key(cur)].owner, Nobody}
  BY <1>1 DEF Applied, IInv, TypeOK, Absent
<1>5. cur.phase = "delete" => neutron[cur.fip] = Gone
  BY <1>1, OpAssumption DEF IInv, OnlyStaleDeleted
<1>6. cur.phase # "delete" => Applied[Key(cur)].owner \in {dns[Key(cur)].owner, cur.fip}
  BY <1>1 DEF Applied, Desired, IInv, TypeOK
<1> QED BY <1>1, <1>2, <1>3, <1>4, <1>5, <1>6

\* The steps that touch recordsets are the writes and the actions of other users.
LEMMA WhoWrites ==
    ASSUME [Next]_vars, dns' # dns
    PROVE  UserActs \/ (pc = "writing" /\ dns' = Applied /\ UNCHANGED <<neutron, edits>>)
<1>1. CASE Worker
  BY <1>1 DEF Worker, world, ListFloatingIps, ListZones, ListZone, MakePlan, CanPlan,
       PlanFor, PlanRaises,
     BeginOp, CreateProjectZone, FindRecordset, WriteRecordset, FinishPass
<1>2. CASE Failures
  BY <1>2 DEF Failures, world, ListFails, BeginFails, RequestFails, AnswerLost, Crash
<1>3. CASE NeutronActs
  BY <1>3 DEF NeutronActs, Release, Allocate
<1>4. CASE UNCHANGED vars
  BY <1>4 DEF vars
<1> QED BY <1>1, <1>2, <1>3, <1>4 DEF Next

\* Only other users take a record away from a live floating IP, or hand it to another.
THEOREM LiveKept == Spec => LiveRecordsKept
<1> DEFINE Kept == \A k \in Keys : dns[k].owner \in Live => dns'[k].owner = dns[k].owner
<1>1. IInv /\ [Next]_vars => [UserActs \/ Kept]_vars
  <2> SUFFICES ASSUME IInv, [Next]_vars, ~UserActs PROVE Kept
    OBVIOUS
  <2>1. CASE dns' = dns
    BY <2>1
  <2>2. CASE dns' # dns
    <3>1. pc = "writing" /\ dns' = Applied
      BY <2>2, WhoWrites
    <3>2. Gone \notin Addrs /\ Nobody \notin Fips
      BY LifeAssumption, FipAssumption
    <3> QED BY <3>1, <3>2, WriteParts DEF Live
  <2> QED BY <2>1, <2>2
<1>2. Spec => [][Next]_vars
  BY DEF Spec
<1> QED BY <1>1, <1>2, Inductive, PTL DEF LiveRecordsKept

-----------------------------------------------------------------------------
(* Names are leased *)

\* The mapped variables.
life == [f \in Fips |-> LifeOf(neutron[f])]
holder == [n \in Names |-> Owner(dns, n)]

\* Initially nobody is born and no name is leased.
LEMMA LeaseStart == ASSUME Init PROVE Lease!LeaseInit
<1>1. \A n \in Names : Owner(dns, n) = Nobody
  BY NoMarks DEF Init, Owner, Keys, Types
<1>2. \A f \in Fips : LifeOf(neutron[f]) = "unborn"
  BY DEF Init, LifeOf
<1> QED BY <1>1, <1>2 DEF Lease!LeaseInit, Init

\* Where no recordset and no life changed, no lease did.
LEMMA LeaseStutters ==
    ASSUME UNCHANGED <<neutron, dns, edits>> PROVE UNCHANGED Lease!LeaseVars
BY DEF Lease!LeaseVars, Owner

\* Allocation and release age a floating IP.
LEMMA LeaseAges ==
    ASSUME TypeOK, NeutronActs PROVE Lease!LeaseNext
<1>1. UNCHANGED <<holder, edits>>
  BY DEF NeutronActs, Release, Allocate, holder, Owner
<1>2. ASSUME NEW f \in Fips, Release(f) PROVE Lease!Ages(f)
  <2>1. neutron[f] \in Addrs /\ neutron' = [neutron EXCEPT ![f] = Gone]
    BY <1>2 DEF Release, Live
  <2>2. life[f] = "live"
    BY <2>1, LifeAssumption DEF life, LifeOf
  <2>3. life' = [life EXCEPT ![f] = "gone"]
    BY <2>1, LifeAssumption DEF life, LifeOf, TypeOK
  <2> QED BY <1>1, <2>2, <2>3 DEF Lease!Ages, life, holder
<1>3. ASSUME NEW f \in Fips, NEW a \in Addrs, Allocate(f, a) PROVE Lease!Ages(f)
  <2>1. neutron[f] = Unborn /\ neutron' = [neutron EXCEPT ![f] = a]
    BY <1>3 DEF Allocate
  <2>2. life[f] = "unborn"
    BY <2>1 DEF life, LifeOf
  <2>3. life' = [life EXCEPT ![f] = "live"]
    BY <2>1, LifeAssumption DEF life, LifeOf, TypeOK
  <2> QED BY <1>1, <2>2, <2>3 DEF Lease!Ages, life, holder
<1> QED BY <1>2, <1>3 DEF NeutronActs, Lease!LeaseNext

\* A name whose markers only disappear keeps its owner or loses it.
LEMMA OwnerOrNobody ==
    ASSUME TypeOK, NamesMatchFips, NEW n \in Names,
           \A k \in Keys : dns'[k].owner \in {dns[k].owner, Nobody}
    PROVE  Owner(dns', n) \in {Owner(dns, n), Nobody}
<1>1. <<n, "A">> \in Keys /\ <<n, "TXT">> \in Keys
  BY DEF Keys, Types
<1>2. dns[<<n, "A">>].owner # Nobody /\ dns[<<n, "TXT">>].owner # Nobody
         => dns[<<n, "A">>].owner = dns[<<n, "TXT">>].owner
  BY <1>1 DEF NamesMatchFips
<1> QED BY <1>1, <1>2 DEF Owner

\* What other users do is meddling.
LEMMA LeaseMeddles ==
    ASSUME IInv, UserActs PROVE Lease!LeaseNext
<1>1. edits' = edits + 1
  BY DEF UserActs, Readdress, UserDeletes, UserEdits, UserCreates, UserDropsZone, Edit
<1>2. UNCHANGED life
  <2>1. ASSUME NEW f \in Fips, NEW a \in Addrs, Readdress(f, a) PROVE life' = life
    BY <2>1, LifeAssumption DEF Readdress, Live, IInv, TypeOK, life, LifeOf
  <2>2. CASE UNCHANGED neutron
    BY <2>2 DEF life
  <2> QED BY <2>1, <2>2 DEF UserActs, UserDeletes, UserEdits, UserCreates, UserDropsZone
<1>3. \A k \in Keys : dns'[k].owner \in {dns[k].owner, Nobody}
  <2>1. ASSUME NEW f \in Fips, NEW a \in Addrs, Readdress(f, a)
        PROVE  \A k \in Keys : dns'[k].owner \in {dns[k].owner, Nobody}
    BY <2>1 DEF Readdress
  <2>2. ASSUME NEW S, LoseRecords(S)
        PROVE  \A k \in Keys : dns'[k].owner \in {dns[k].owner, Nobody}
    BY <2>2, LossParts
  <2>3. ASSUME NEW k \in Keys, UserEdits(k) \/ UserCreates(k)
        PROVE  \A l \in Keys : dns'[l].owner \in {dns[l].owner, Nobody}
    BY <2>3 DEF UserEdits, UserCreates, IInv, TypeOK
  <2> QED BY <2>1, <2>2, <2>3 DEF UserActs, UserDeletes, UserDropsZone
<1>4. NamesMatchFips /\ TypeOK
  BY OneOwner DEF IInv
<1>5. \A n \in Names : Owner(dns', n) \in {Owner(dns, n), Nobody}
                           /\ Owner(dns, n) \in Fips \cup {Nobody}
  <2>1. ASSUME NEW n \in Names PROVE Owner(dns, n) \in Fips \cup {Nobody}
    <3>1. <<n, "A">> \in Keys /\ <<n, "A">>[1] = n
      BY DEF Keys, Types
    <3> QED BY <3>1, <1>4, ViewParts DEF TypeOK
  <2> QED BY <1>3, <1>4, <2>1, OwnerOrNobody
<1>6. holder' \in [Names -> Fips \cup {Nobody}]
        /\ \A n \in Names : holder'[n] \in {holder[n], Nobody}
  BY <1>5 DEF holder
<1> QED BY <1>1, <1>2, <1>6 DEF Lease!LeaseNext, Lease!Meddle, life, holder

\* A write leases the name, or a delete ends a lease, or the lease stays as it is.
LEMMA LeaseWrites ==
    ASSUME IInv, pc = "writing", dns' = Applied, UNCHANGED <<neutron, edits>>
    PROVE  Lease!LeaseNext \/ UNCHANGED Lease!LeaseVars
<1> DEFINE n == cur.name
           f == cur.fip
<1>1. /\ cur \in Ops /\ n \in Names /\ f \in Fips /\ cur.type \in Types
      /\ Key(cur) = <<n, cur.type>>
      /\ \A m \in Names, t \in Types : <<m, t>> \in Keys
  BY OpKey DEF IInv, TypeOK, Key, Keys
<1>2. /\ \A m \in Names, t \in Types : <<m, t>> # Key(cur) => dns'[<<m, t>>] = dns[<<m, t>>]
      /\ dns[Key(cur)].owner \in {f, Nobody}
      /\ cur.phase = "delete" => /\ dns'[Key(cur)].owner \in {dns[Key(cur)].owner, Nobody}
                                 /\ neutron[f] = Gone
      /\ cur.phase # "delete" => dns'[Key(cur)].owner \in {dns[Key(cur)].owner, f}
  BY <1>1, WriteParts
<1>3. /\ \A t \in Types : dns[<<n, t>>].owner \in {f, Nobody}
      /\ \A m \in Names, t \in Types : m # n => dns[<<m, t>>].owner # f
      /\ neutron[f] # Unborn
  <2>1. Claims(n, f)
    BY <1>1, OpAssumption DEF Claims
  <2>2. \A m \in Names, t \in Types : dns[<<m, t>>].owner \in Fips \cup {Nobody}
    BY <1>1, RecordParts DEF IInv, TypeOK
  <2>3. \A m \in Names, g \in Fips : (\E t \in Types : dns[<<m, t>>].owner = g) => Claims(m, g)
    BY DEF Claims
  <2> QED BY <1>1, <2>1, <2>2, <2>3 DEF IInv, ClaimsMatch, ClaimsBorn
<1>4. \A m \in Names : m # n => Owner(dns', m) = Owner(dns, m) /\ Owner(dns, m) # f
  BY <1>1, <1>2, <1>3, FipAssumption DEF Owner, Types
<1>5. Owner(dns, n) \in {f, Nobody} /\ Owner(dns', n) \in {f, Nobody}
  BY <1>1, <1>2, <1>3 DEF Owner, Types
<1>6. UNCHANGED <<life, edits>>
  BY DEF life
<1>7. CASE Owner(dns', n) = Owner(dns, n)
  <2>1. UNCHANGED holder
    BY <1>4, <1>7 DEF holder
  <2> QED BY <1>6, <2>1 DEF Lease!LeaseVars, life, holder
<1>8. CASE Owner(dns, n) = Nobody /\ Owner(dns', n) = f
  <2>1. holder' = [holder EXCEPT ![n] = f] /\ holder[n] = Nobody
    BY <1>1, <1>4, <1>8 DEF holder
  <2>2. \A m \in Names : holder[m] # f
    BY <1>1, <1>4, <1>8, FipAssumption DEF holder
  <2>3. life[f] # "unborn"
    BY <1>1, <1>3 DEF life, LifeOf
  <2>4. Lease!Lease(n, f)
    BY <1>6, <2>1, <2>2, <2>3 DEF Lease!Lease, life, holder
  <2> QED BY <1>1, <2>4 DEF Lease!LeaseNext
<1>9. CASE Owner(dns, n) = f /\ Owner(dns', n) = Nobody
  <2>1. holder' = [holder EXCEPT ![n] = Nobody] /\ holder[n] = f /\ f # Nobody
    BY <1>1, <1>4, <1>9, FipAssumption DEF holder
  <2>2. cur.phase = "delete"
    BY <1>1, <1>2, <1>3, <1>9, FipAssumption DEF Owner, Types
  <2>3. life[f] = "gone"
    BY <1>1, <1>2, <2>2, LifeAssumption DEF life, LifeOf
  <2>4. Lease!Expire(n)
    BY <1>6, <2>1, <2>3 DEF Lease!Expire, life, holder
  <2> QED BY <1>1, <2>4 DEF Lease!LeaseNext
<1> QED BY <1>5, <1>7, <1>8, <1>9

\* Names are leased: one floating IP per name, one name per floating IP, a lease taken only
\* on a free name and ended only for a floating IP that is gone, or by another user.
THEOREM ImplementsLease == Spec => LeasesNames
<1>1. IInv /\ [Next]_vars => [Lease!LeaseNext]_Lease!LeaseVars
  <2> SUFFICES ASSUME IInv, [Next]_vars PROVE Lease!LeaseNext \/ UNCHANGED Lease!LeaseVars
    OBVIOUS
  <2>1. CASE NeutronActs
    BY <2>1, LeaseAges DEF IInv
  <2>2. CASE UserActs
    BY <2>2, LeaseMeddles
  <2>3. CASE ~NeutronActs /\ ~UserActs
    <3>1. UNCHANGED <<neutron, edits>>
      BY <2>3 DEF Next, Worker, Failures, vars, world, ListFloatingIps, ListZones, ListZone,
         MakePlan, CanPlan, PlanFor, PlanRaises, BeginOp, CreateProjectZone,
             FindRecordset, WriteRecordset,
         FinishPass, ListFails, BeginFails, RequestFails, AnswerLost, Crash
    <3>2. CASE dns' = dns
      BY <3>1, <3>2, LeaseStutters
    <3>3. CASE dns' # dns
      BY <2>3, <3>1, <3>3, WhoWrites, LeaseWrites
    <3> QED BY <3>2, <3>3
  <2> QED BY <2>1, <2>2, <2>3
<1>2. Init => Lease!LeaseInit
  BY LeaseStart
<1>3. Spec => Init /\ [][Next]_vars
  BY DEF Spec
<1> QED BY <1>1, <1>2, <1>3, Inductive, PTL DEF LeasesNames, Lease!LeaseSpec

-----------------------------------------------------------------------------
(* Zones *)

LabelsDiffer ==
    \A p, q \in Projects : LabelOf[p] \in PLabels /\ LabelOf[p] = LabelOf[q] => p = q

\* A floating IP only has names under the label of its project, and a zone belongs to the
\* project whose label it has.
OwnNames == \A n \in Names, f \in Fips : Claims(n, f) => n \in NamesFor(f)
OwnZones ==
    PerProjectZone =>
        \A z \in Zones : zone[z] # NoZone => zone[z] \in Projects /\ LabelOf[zone[z]] = z
ZInv == IInv /\ OwnNames /\ OwnZones

\* Where each kind of step may change what the process has found and plans, and the zones.
LEMMA StepShape ==
    ASSUME [Next]_vars
    PROVE  /\ found' \in {found, NoRecords} \/ \E z \in Zones : ListZone(z)
           /\ (todo' \subseteq todo /\ cur' \in todo \cup {cur, NoOp}) \/ MakePlan
           /\ \/ UNCHANGED zone
              \/ pc = "zoning" /\ zone' = ZoneCreated
              \/ \E z \in Zones : PerProjectZone /\ zone' = [zone EXCEPT ![z] = NoZone]
<1>1. CASE Worker
  BY <1>1 DEF Worker, world, ListFloatingIps, ListZones, ListZone, MakePlan, CanPlan, PlanFor,
     PlanRaises, EndPass, BeginOp, Done, CreateProjectZone, FindRecordset, WriteRecordset,
     FinishPass
<1>2. CASE Failures
  BY <1>2 DEF Failures, world, ListFails, BeginFails, RequestFails, AnswerLost, Crash, Done,
     EndPass
<1>3. CASE NeutronActs \/ UNCHANGED vars
  BY <1>3 DEF NeutronActs, Release, Allocate, process, vars
<1>4. CASE UserActs
  BY <1>4 DEF UserActs, Readdress, UserDeletes, UserEdits, UserCreates, UserDropsZone, process
<1> QED BY <1>1, <1>2, <1>3, <1>4 DEF Next

\* Other users give no markers.
LEMMA UserMarks ==
    ASSUME IInv, UserActs, NEW k \in Keys PROVE dns'[k].owner \in {dns[k].owner, Nobody}
<1>1. ASSUME NEW f \in Fips, NEW a \in Addrs, Readdress(f, a)
      PROVE  dns'[k].owner \in {dns[k].owner, Nobody}
  BY <1>1 DEF Readdress
<1>2. ASSUME NEW l \in Keys, UserDeletes(l) PROVE dns'[k].owner \in {dns[k].owner, Nobody}
  BY <1>2, LossParts DEF UserDeletes
<1>3. ASSUME NEW z \in Zones, UserDropsZone(z) PROVE dns'[k].owner \in {dns[k].owner, Nobody}
  BY <1>3, LossParts DEF UserDropsZone
<1>4. ASSUME NEW l \in Keys, UserEdits(l) \/ UserCreates(l)
      PROVE  dns'[k].owner \in {dns[k].owner, Nobody}
  <2>1. PICK r : dns' = [dns EXCEPT ![l] = r] /\ r.owner \in {dns[l].owner, Nobody}
    BY <1>4 DEF UserEdits, UserCreates
  <2> QED BY <2>1 DEF IInv, TypeOK
<1> QED BY <1>1, <1>2, <1>3, <1>4 DEF UserActs

\* Only a plan claims what nobody has claimed.
LEMMA OldClaims ==
    ASSUME IInv, [Next]_vars, ~MakePlan, NEW n \in Names, NEW f \in Fips, Claims(n, f)'
    PROVE  Claims(n, f)
<1>1. ASSUME NEW t \in Types, dns'[<<n, t>>].owner = f PROVE Claims(n, f)
  <2>1. <<n, t>> \in Keys
    BY DEF Keys
  <2>2. CASE dns'[<<n, t>>].owner \in {dns[<<n, t>>].owner, Nobody}
    BY <1>1, <2>2, FipAssumption DEF Claims
  <2>3. CASE pc = "writing" /\ dns' = Applied
    <3>1. CASE <<n, t>> = Key(cur) /\ cur \in Ops /\ cur.fip = f
      BY <3>1, OpAssumption DEF Claims, Key
    <3> QED BY <1>1, <2>1, <2>2, <2>3, <3>1, AppliedParts
  <2> QED BY <2>1, <2>2, <2>3, WhoWrites, UserMarks
<1>2. ASSUME NEW t \in Types, found'[<<n, t>>].owner = f PROVE Claims(n, f)
  <2>1. <<n, t>> \in Keys
    BY DEF Keys
  <2>2. CASE found' = found
    BY <1>2, <2>2 DEF Claims
  <2>3. CASE found' = NoRecords
    BY <1>2, <2>1, <2>3, NoMarks, FipAssumption
  <2>4. ASSUME NEW z \in Zones, ListZone(z), found' # NoRecords PROVE Claims(n, f)
    <3>1. found'[<<n, t>>] \in {found[<<n, t>>], ManagedView(dns, <<n, t>>)}
      BY <2>1, <2>4 DEF ListZone, EndPass
    <3>2. CASE found'[<<n, t>>] = found[<<n, t>>]
      BY <1>2, <3>2 DEF Claims
    <3>3. CASE ManagedView(dns, <<n, t>>).owner = f
      <4>1. Owner(dns, n) = f
        BY <2>1, <3>3, ViewParts, FipAssumption DEF IInv, TypeOK
      <4>2. \E u \in Types : dns[<<n, u>>].owner = f
        BY <4>1, FipAssumption DEF Owner, Types
      <4> QED BY <4>2 DEF Claims
    <3> QED BY <1>2, <3>1, <3>2, <3>3
  <2> QED BY <2>2, <2>3, <2>4, StepShape
<1>3. ASSUME NEW o \in todo' \cup {cur'}, o # NoOp, o.name = n, o.fip = f
      PROVE  Claims(n, f)
  BY <1>3, StepShape DEF Claims
<1> QED BY <1>1, <1>2, <1>3 DEF Claims

\* What is claimed once the plan is made is claimed already, or is the name that was chosen
\* for a listed floating IP.
LEMMA PlannedClaims ==
    ASSUME IInv, CanPlan, NEW name \in NameChoices(seen, found), PlanFor(name),
           NEW n \in Names, NEW f \in Fips, Claims(n, f)'
    PROVE  Claims(n, f) \/ (n = name[f] /\ f \in Listed(seen) \cup Grouped(found))
<1> USE DEF PlanFor, world
<1>1. CASE \E t \in Types : dns'[<<n, t>>].owner = f
  BY <1>1 DEF Claims
<1>2. CASE \E t \in Types : found'[<<n, t>>].owner = f
  BY <1>2, NoMarks, FipAssumption DEF Keys
<1>3. CASE \E o \in todo' \cup {cur'} : o # NoOp /\ o.name = n /\ o.fip = f
  <2>1. cur' = NoOp
    BY DEF CanPlan, IInv, PassShape
  <2>2. PICK o \in Plan(seen, found, name) : o.name = n /\ o.fip = f
    BY <1>3, <2>1
  <2> QED BY <2>2, PlanParts DEF Ops, Phases
<1> QED BY <1>1, <1>2, <1>3 DEF Claims

\* A new claim is on a name under the label of the floating IP's project.
LEMMA NewClaims ==
    ASSUME IInv, [Next]_vars, NEW n \in Names, NEW f \in Fips, Claims(n, f)'
    PROVE  Claims(n, f) \/ n \in NamesFor(f)
<1>1. CASE ~MakePlan
  BY <1>1, OldClaims
<1>2. CASE MakePlan
  <2>1. PICK name \in NameChoices(seen, found) : PlanFor(name)
    BY <1>2 DEF MakePlan
  <2>2. pc = "listing" /\ unlisted = {} /\ CanPlan
    BY <1>2 DEF MakePlan, CanPlan
  <2> SUFFICES ASSUME n = name[f], f \in Listed(seen) \cup Grouped(found)
               PROVE  Claims(n, f) \/ n \in NamesFor(f)
    BY <2>1, <2>2, PlannedClaims
  <2>3. CASE f \in Grouped(found)
    BY <2>2, <2>3, ChosenNames
  <2>4. CASE f \in NewFips(seen, found)
    BY <2>4 DEF NameChoices
  <2> QED BY <2>3, <2>4 DEF NewFips
<1> QED BY <1>1, <1>2

\* Zones are only created for a floating IP's project, under the label of that project.
LEMMA ZonesStep ==
    ASSUME ZInv, [Next]_vars PROVE OwnZones'
<1> SUFFICES ASSUME PerProjectZone, NEW z \in Zones, zone'[z] # NoZone
             PROVE  zone'[z] \in Projects /\ LabelOf[zone'[z]] = z
  BY DEF OwnZones
<1>1. CASE zone'[z] = zone[z]
  BY <1>1 DEF ZInv, OwnZones
<1>2. ASSUME NEW y \in Zones, zone' = [zone EXCEPT ![y] = NoZone] PROVE zone'[z] = zone[z]
  BY <1>2 DEF ZInv, IInv, TypeOK
<1>3. CASE pc = "zoning" /\ zone' = ZoneCreated
  <2>1. cur \in Ops /\ cur.name \in Names /\ cur.fip \in Fips
    BY <1>3, OpKey DEF ZInv, IInv, TypeOK
  <2>2. Claims(cur.name, cur.fip)
    BY <2>1, OpAssumption DEF Claims
  <2>3. ZoneOf(cur.name) = LabelOf[ProjectOf[cur.fip]]
    BY <2>1, <2>2 DEF ZInv, OwnNames, NamesFor, ZoneOf
  <2>4. zone'[z] \in {zone[z]} \/ (z = ZoneOf(cur.name) /\ zone'[z] = ProjectOf[cur.fip])
    BY <1>3 DEF ZoneCreated, ZInv, IInv, TypeOK
  <2> QED BY <1>1, <2>1, <2>3, <2>4, ProjectAssumption
<1> QED BY <1>1, <1>2, <1>3, StepShape

\* With one strategy or the other, a zone that nobody created has no owner.
LEMMA InitZInv == Init => ZInv
<1> SUFFICES ASSUME Init PROVE ZInv
  OBVIOUS
<1>1. IInv
  BY InitIInv
<1>2. OwnNames
  BY NoMarks, FipAssumption DEF Init, OwnNames, Claims, Keys
<1>3. OwnZones
  BY DEF Init, OwnZones
<1> QED BY <1>1, <1>2, <1>3 DEF ZInv

LEMMA NextZInv == ZInv /\ [Next]_vars => ZInv'
<1> SUFFICES ASSUME ZInv, [Next]_vars PROVE ZInv'
  OBVIOUS
<1>1. IInv'
  BY NextIInv DEF ZInv
<1>2. OwnNames'
  BY NewClaims DEF ZInv, OwnNames
<1>3. OwnZones'
  BY ZonesStep
<1> QED BY <1>1, <1>2, <1>3 DEF ZInv

\* Where labels differ, a marked record is always in a zone of its own project, whatever
\* fails, and whoever drops zones in between.
THEOREM OwnZone == ASSUME LabelsDiffer PROVE Spec => []InOwnZone
<1>1. ZInv => InOwnZone
  <2> SUFFICES ASSUME ZInv, PerProjectZone, NEW k \in Keys, dns[k].owner # Nobody
               PROVE  zone[ZoneOf(k[1])] = ProjectOf[dns[k].owner]
    BY DEF InOwnZone
  <2> DEFINE f == dns[k].owner
  <2>1. f \in Fips /\ dns[k] # Absent
    BY RecordParts DEF ZInv, IInv, TypeOK
  <2>2. k[1] \in Names /\ ZoneOf(k[1]) \in Zones
    BY KeyParts, NameZone
  <2>3. Claims(k[1], f)
    BY KeyParts DEF Claims
  <2>4. ZoneOf(k[1]) = LabelOf[ProjectOf[f]]
    BY <2>1, <2>2, <2>3 DEF ZInv, OwnNames, NamesFor, ZoneOf
  <2>5. zone[ZoneOf(k[1])] \in Projects /\ LabelOf[zone[ZoneOf(k[1])]] = ZoneOf(k[1])
    BY <2>1, <2>2 DEF ZInv, OwnZones, IInv, RecordsInZones
  <2>6. ZoneOf(k[1]) \in PLabels /\ ProjectOf[f] \in Projects
    BY <2>1, <2>2, ProjectAssumption DEF Zones
  <2> DEFINE p == zone[ZoneOf(k[1])]
             q == ProjectOf[f]
  <2>7. p \in Projects /\ q \in Projects /\ LabelOf[p] \in PLabels /\ LabelOf[p] = LabelOf[q]
    BY <2>4, <2>5, <2>6
  <2> HIDE DEF p, q
  <2>8. p = q
    BY <2>7 DEF LabelsDiffer
  <2> QED BY <2>8 DEF p, q
<1> QED BY <1>1, InitZInv, NextZInv, PTL DEF Spec
=============================================================================
