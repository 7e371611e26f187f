------------------------------ MODULE SyncProofs ------------------------------
(***************************************************************************)
(* A pass that reports success has left DNS in agreement with Neutron, and *)
(* a pass over records in agreement has nothing to do, for all values of   *)
(* the constants: the first where no failed delete goes unreported, that   *)
(* is outside per_project_zone (the run silentdelete shows why).           *)
(***************************************************************************)
EXTENDS ReconcilerProofs

\* The operations of this pass that are still to be made, or being made.
Open == todo \cup (IF pc \in {"zoning", "finding", "writing"} THEN {cur} ELSE {})

\* The record of type t for floating IP f at name n is still to be written; it is right.
Pending(n, f, t) ==
    \E o \in Open : o.phase # "delete" /\ o.fip = f /\ o.name = n /\ o.type = t
Right(n, f, t) ==
    IF t = "A"
    THEN /\ dns[<<n, "A">>].data = neutron[f]
         /\ \E u \in Types : dns[<<n, u>>].owner = f
    ELSE dns[<<n, "TXT">>] = Desired(f, neutron[f], "TXT")

\* While nobody else acts, the lists of the pass are those of the moment.
SeenNow ==
    ~disturbed /\ pc # "idle" =>
        seen = [f \in Fips |-> IF neutron[f] \in Addrs THEN neutron[f] ELSE NoData]
FoundNow ==
    ~disturbed /\ pc = "listing" =>
        \A k \in Keys : ZoneOf(k[1]) \notin unlisted => found[k] = ManagedView(dns, k)

\* While nobody else acts and nothing has failed, what is not right is still to be done.
Smooth == ~PerProjectZone /\ ~disturbed /\ ~DryRun /\ clean /\ pc \in Applying
ServedSoon ==
    Smooth => \A f \in Live : \E n \in Names :
                  \A t \in WantedTypes : Pending(n, f, t) \/ Right(n, f, t)
DeletedSoon ==
    Smooth /\ DeleteStale =>
        \A k \in Keys : dns[k].owner # Nobody =>
            dns[k].owner \in Live \/ \E o \in Open : o.phase = "delete" /\ Key(o) = k

\* A recordset that was found is only gone if somebody else acted, and nothing is deleted
\* that was not found.
HandleShape ==
    /\ handle = "stale" => disturbed
    /\ handle # "none" => pc = "writing"
    /\ pc = "writing" /\ handle = "none" => cur.phase # "delete"
    /\ pc # "idle" => verdict = "none"

Knows == SeenNow /\ FoundNow /\ HandleShape
Agrees == ~PerProjectZone => SuccessMeansSync
SyncInv == IInv /\ Knows /\ ServedSoon /\ DeletedSoon /\ Agrees

-----------------------------------------------------------------------------
(* Facts about states *)

\* The floating IPs listed are the live ones, at their addresses.
LEMMA ListedLive ==
    ASSUME SyncInv, ~disturbed, pc # "idle"
    PROVE  Listed(seen) = Live /\ \A f \in Live : seen[f] = neutron[f]
BY DataAssumption DEF SyncInv, Knows, SeenNow, Listed, Live

\* What an open operation is about, and for whom.
LEMMA OpenOps ==
    ASSUME IInv, NEW o \in Open
    PROVE  /\ o \in Ops /\ Key(o) \in Keys /\ o.name \in Names /\ o.fip \in Fips
           /\ Claims(o.name, o.fip)
           /\ o.phase # "delete" => o.fip \in Listed(seen)
           /\ o.phase = "delete" => o.fip \notin Live
<1>1. o \in Ops /\ o \in todo \cup {cur}
  BY DEF Open, IInv, TypeOK
<1>2. o # NoOp
  BY <1>1, OpAssumption
<1>3. Claims(o.name, o.fip)
  BY <1>1, <1>2 DEF Claims
<1>4. o.phase # "delete" => o.fip \in Listed(seen)
  BY <1>1, <1>2 DEF IInv, PassShape
<1>5. o.phase = "delete" => o.fip \notin Live
  BY <1>1, <1>2, LifeAssumption DEF IInv, OnlyStaleDeleted, Live
<1> QED BY <1>1, <1>3, <1>4, <1>5, OpKey

\* Who owns a recordset at a name has claimed it, and nobody else has.
LEMMA OneClaim ==
    ASSUME IInv, NEW n \in Names, NEW f \in Fips, NEW g \in Fips, Claims(n, f), Claims(n, g)
    PROVE  f = g
BY DEF IInv, ClaimsMatch

\* A marker is a claim.
LEMMA MarkClaims ==
    ASSUME NEW n \in Names, NEW t \in Types, NEW f \in Fips, dns[<<n, t>>].owner = f
    PROVE  Claims(n, f)
BY DEF Claims

\* What is right, with nothing to be done, serves.
LEMMA RightServes ==
    ASSUME IInv, NEW n \in Names, NEW f \in Live, \A t \in WantedTypes : Right(n, f, t)
    PROVE  Serves(n, f)
<1> DEFINE a == <<n, "A">>
<1>1. a \in Keys /\ f \in Fips /\ neutron[f] \in Addrs
  BY DEF Keys, Types, Live
<1>2. dns[a].data = neutron[f] /\ \E u \in Types : dns[<<n, u>>].owner = f
  BY DEF WantedTypes, Right, Types
<1>3. Owner(dns, n) = f
  <2>1. PICK u \in Types : dns[<<n, u>>].owner = f
    BY <1>2
  <2>2. NamesMatchFips /\ <<n, u>> \in Keys
    BY OneOwner DEF IInv, Keys
  <2> QED BY <1>1, <2>1, <2>2, OwnerOfMark, FipAssumption DEF IInv
<1>4. dns[a] # Absent
  BY <1>1, <1>2, DataAssumption DEF Absent
<1>5. ManagedView(dns, a) = Desired(f, neutron[f], "A")
  BY <1>1, <1>2, <1>3, <1>4, FipAssumption DEF ManagedView, Desired, DesiredData
<1>6. CreateTxt => dns[<<n, "TXT">>] = Desired(f, neutron[f], "TXT")
  BY DEF WantedTypes, Right, Types
<1> QED BY <1>5, <1>6 DEF Serves

-----------------------------------------------------------------------------
(* Applying *)

\* A step of the applying process that fails nothing: each operation is still open, or
\* its recordset is as it should be.
LEMMA Progress ==
    ASSUME SyncInv, pc \in Applying, UNCHANGED <<neutron, disturbed>>, clean' => clean,
           \A o \in Open : \/ o \in Open'
                           \/ o.phase = "delete" /\ dns'[Key(o)].owner = Nobody
                           \/ o.phase # "delete"
                              /\ dns'[Key(o)] = Desired(o.fip, seen[o.fip], o.type),
           \A k \in Keys : \/ dns'[k] = dns[k]
                           \/ /\ cur \in Open /\ k = Key(cur)
                              /\ dns'[k] = IF cur.phase = "delete" THEN Absent
                                           ELSE Desired(cur.fip, seen[cur.fip], cur.type)
    PROVE  ServedSoon' /\ DeletedSoon'
<1> SUFFICES ASSUME Smooth' PROVE ServedSoon' /\ DeletedSoon'
  BY DEF ServedSoon, DeletedSoon
<1>1. Smooth /\ IInv
  BY DEF Smooth, SyncInv
<1>2. Live' = Live /\ Listed(seen) = Live /\ (\A f \in Live : f \in Fips /\ seen[f] = neutron[f])
  BY <1>1, ListedLive DEF Live, Smooth, Applying
\* A recordset of a live floating IP can only be written as that one's.
<1>3. ASSUME NEW n \in Names, NEW t \in Types, NEW f \in Live, Claims(n, f)
      PROVE  dns'[<<n, t>>] = dns[<<n, t>>] \/ dns'[<<n, t>>] = Desired(f, neutron[f], t)
  <2>1. <<n, t>> \in Keys
    BY DEF Keys
  <2>2. CASE cur \in Open /\ <<n, t>> = Key(cur)
    <3>1. cur.name = n /\ cur.type = t /\ Claims(n, cur.fip) /\ cur.fip \in Fips
      BY <1>1, <2>2, OpenOps DEF Key
    <3>2. cur.fip = f
      BY <1>1, <1>2, <1>3, <3>1, OneClaim
    <3>3. cur.phase # "delete"
      BY <1>1, <2>2, <3>2, OpenOps
    <3> QED BY <1>2, <2>1, <2>2, <3>1, <3>2, <3>3
  <2> QED BY <2>1, <2>2
<1>4. ServedSoon'
  <2> SUFFICES ASSUME NEW f \in Live
               PROVE  \E n \in Names : \A t \in WantedTypes :
                          Pending(n, f, t)' \/ Right(n, f, t)'
    BY <1>2 DEF ServedSoon
  <2>1. PICK n \in Names : \A t \in WantedTypes : Pending(n, f, t) \/ Right(n, f, t)
    BY <1>1 DEF SyncInv, ServedSoon
  <2>2. f \in Fips /\ WantedTypes \subseteq {"A", "TXT"} /\ Types = {"A", "TXT"}
    BY <1>2 DEF WantedTypes, Types
  <2>3. ASSUME NEW t \in WantedTypes, Pending(n, f, t)
        PROVE  Pending(n, f, t)' \/ Right(n, f, t)'
    <3>1. PICK o \in Open : o.phase # "delete" /\ o.fip = f /\ o.name = n /\ o.type = t
      BY <2>3 DEF Pending
    <3>2. CASE o \in Open'
      BY <3>1, <3>2 DEF Pending
    <3>3. CASE dns'[Key(o)] = Desired(o.fip, seen[o.fip], o.type)
      <4>1. dns'[<<n, t>>] = Desired(f, neutron[f], t)
        BY <1>2, <3>1, <3>3 DEF Key
      <4> QED BY <2>2, <4>1 DEF Right, Desired, DesiredData
    <3> QED BY <3>1, <3>2, <3>3
  <2>4. ASSUME NEW t \in WantedTypes, Right(n, f, t) PROVE Right(n, f, t)'
    <3>1. CASE t = "A"
      <4>1. PICK u \in Types : dns[<<n, u>>].owner = f
        BY <2>4, <3>1 DEF Right
      <4>2. Claims(n, f)
        BY <2>2, <4>1, MarkClaims
      <4>3. dns'[<<n, u>>].owner = f
        <5>1. dns'[<<n, u>>] = dns[<<n, u>>] \/ dns'[<<n, u>>] = Desired(f, neutron[f], u)
          BY <1>3, <4>2
        <5> QED BY <4>1, <5>1 DEF Desired
      <4>4. dns'[<<n, "A">>].data = neutron[f]
        <5>1. dns[<<n, "A">>].data = neutron[f]
          BY <2>4, <3>1 DEF Right
        <5>2. dns'[<<n, "A">>] = dns[<<n, "A">>]
              \/ dns'[<<n, "A">>] = Desired(f, neutron[f], "A")
          BY <1>3, <2>2, <4>2
        <5> QED BY <5>1, <5>2 DEF Desired, DesiredData
      <4> QED BY <3>1, <4>3, <4>4 DEF Right
    <3>2. CASE t = "TXT"
      <4>1. dns[<<n, "TXT">>] = Desired(f, neutron[f], "TXT")
        BY <2>4, <3>2 DEF Right
      <4>2. dns[<<n, "TXT">>].owner = f /\ "TXT" \in Types
        BY <2>2, <4>1 DEF Desired
      <4>3. Claims(n, f)
        BY <2>2, <4>2, MarkClaims
      <4>4. dns'[<<n, "TXT">>] = dns[<<n, "TXT">>]
            \/ dns'[<<n, "TXT">>] = Desired(f, neutron[f], "TXT")
        BY <1>3, <4>2, <4>3
      <4> QED BY <3>2, <4>1, <4>4 DEF Right
    <3> QED BY <2>2, <3>1, <3>2
  <2> QED BY <2>1, <2>3, <2>4
<1>5. DeletedSoon'
  <2> SUFFICES ASSUME DeleteStale, NEW k \in Keys, dns'[k].owner # Nobody
               PROVE  dns'[k].owner \in Live \/ \E o \in Open' : o.phase = "delete" /\ Key(o) = k
    BY <1>2 DEF DeletedSoon
  <2>1. CASE dns'[k] = dns[k]
    BY <1>1, <2>1 DEF SyncInv, DeletedSoon
  <2>2. CASE cur \in Open /\ dns'[k] = IF cur.phase = "delete" THEN Absent
                                       ELSE Desired(cur.fip, seen[cur.fip], cur.type)
    <3>1. cur.phase # "delete"
      BY <2>2 DEF Absent
    <3> QED BY <1>1, <1>2, <2>2, <3>1, OpenOps DEF Desired
  <2> QED BY <2>1, <2>2
<1> QED BY <1>4, <1>5

\* Once something has failed nothing is claimed of the pass.
LEMMA Failed == ASSUME ~clean' PROVE ServedSoon' /\ DeletedSoon'
BY DEF ServedSoon, DeletedSoon, Smooth

\* The lists stay those of the moment while the process applies its plan.
LEMMA ApplyingKnows ==
    ASSUME SyncInv, pc \in Applying, pc' \in Applying,
           UNCHANGED <<neutron, seen, disturbed, verdict>>,
           handle' = "none" \/ pc' = "writing",
           pc' = "writing" => handle' # "stale" /\ (handle' = "none" => cur'.phase # "delete")
    PROVE  Knows' /\ Agrees'
<1>1. verdict' = "none"
  BY DEF SyncInv, Knows, HandleShape, Applying
<1> QED BY <1>1 DEF SyncInv, Knows, SeenNow, FoundNow, HandleShape, Agrees,
                   SuccessMeansSync, Applying

\* An operation in hand is still open; one whose zone is not found has failed.
LEMMA BeginOpKnows ==
    ASSUME SyncInv, NEW o \in todo, BeginOp(o) \/ BeginFails(o)
    PROVE  Knows' /\ ServedSoon' /\ DeletedSoon' /\ Agrees'
<1> USE DEF BeginOp, BeginFails, Done, world
<1>1. pc = "applying" /\ pc' \in {"applying", "zoning", "finding"} /\ handle' = "none"
  BY DEF SyncInv, Knows, HandleShape
<1>2. Knows' /\ Agrees'
  BY <1>1, ApplyingKnows DEF Applying
<1> SUFFICES ServedSoon' /\ DeletedSoon'
  BY <1>2
<1>3. CASE pc' = "applying"
  BY <1>3, Failed
<1>4. CASE pc' \in {"zoning", "finding"}
  <2>1. UNCHANGED <<neutron, dns, disturbed, clean>> /\ Open' = Open
    BY <1>1, <1>4 DEF Open
  <2> QED BY <1>1, <2>1, Progress DEF Applying
<1> QED BY <1>1, <1>2, <1>3, <1>4

\* Making a zone touches no recordset.
LEMMA CreateProjectZoneKnows ==
    ASSUME SyncInv, CreateProjectZone
    PROVE  Knows' /\ ServedSoon' /\ DeletedSoon' /\ Agrees'
<1> USE DEF CreateProjectZone
<1>1. handle' = "none"
  BY DEF SyncInv, Knows, HandleShape
<1>2. Knows' /\ Agrees'
  BY <1>1, ApplyingKnows DEF Applying
<1>3. UNCHANGED <<neutron, dns, disturbed, clean>> /\ Open' = Open
  BY DEF Open
<1> QED BY <1>2, <1>3, Progress DEF Applying

\* A delete that finds nothing is done.
LEMMA FindRecordsetKnows ==
    ASSUME SyncInv, FindRecordset
    PROVE  Knows' /\ ServedSoon' /\ DeletedSoon' /\ Agrees'
<1> USE DEF FindRecordset, Done, world
<1>1. pc = "finding" /\ pc' \in {"applying", "writing"} /\ UNCHANGED <<neutron, dns, disturbed>>
  OBVIOUS
<1>2. Knows' /\ Agrees'
  BY <1>1, ApplyingKnows DEF Applying
<1> SUFFICES ServedSoon' /\ DeletedSoon'
  BY <1>2
<1>3. CASE pc' = "writing"
  <2>1. Open' = Open /\ UNCHANGED clean
    BY <1>1, <1>3 DEF Open
  <2> QED BY <1>1, <2>1, Progress DEF Applying
<1>4. CASE pc' = "applying" /\ zone[ZoneOf(cur.name)] = NoZone
  BY <1>4, Failed
<1>5. CASE pc' = "applying" /\ zone[ZoneOf(cur.name)] # NoZone
  <2>1. dns[Key(cur)] = Absent /\ cur.phase = "delete" /\ (clean' => clean)
    BY <1>5
  <2>2. Open \subseteq Open' \cup {cur}
    BY <1>1, <1>5 DEF Open
  <2>3. dns[Key(cur)].owner = Nobody
    BY <2>1 DEF Absent
  <2> QED BY <1>1, <2>1, <2>2, <2>3, Progress DEF Applying
<1> QED BY <1>1, <1>2, <1>3, <1>4, <1>5

\* A write that Designate does not accept while nobody else acts cannot happen.
LEMMA WriteRecordsetKnows ==
    ASSUME SyncInv, WriteRecordset
    PROVE  Knows' /\ ServedSoon' /\ DeletedSoon' /\ Agrees'
<1> USE DEF WriteRecordset, Done
<1>1. pc = "writing" /\ pc' = "applying" /\ handle' = "none"
      /\ UNCHANGED <<neutron, seen, disturbed, verdict>>
  OBVIOUS
<1>2. Knows' /\ Agrees'
  BY <1>1, ApplyingKnows DEF Applying
<1> SUFFICES ServedSoon' /\ DeletedSoon'
  BY <1>2
<1>3. CASE ~clean'
  BY <1>3, Failed
<1>4. CASE disturbed
  BY <1>4 DEF ServedSoon, DeletedSoon, Smooth
<1>5. CASE clean' /\ ~disturbed
  <2>1. (clean' => clean) /\ (Accepted \/ cur.phase = "delete")
    BY <1>5
  <2>2. Accepted
    BY <1>1, <1>5, <2>1 DEF Accepted, SyncInv, Knows, HandleShape, IInv, TypeOK
  <2>3. cur \in Open /\ Open \subseteq Open' \cup {cur} /\ IInv
    BY <1>1 DEF Open, SyncInv
  <2>4. Key(cur) \in Keys
    BY <2>3, OpenOps
  <2> DEFINE r == IF cur.phase = "delete" THEN Absent ELSE Desired(cur.fip, seen[cur.fip], cur.type)
  <2>5. \A k \in Keys : dns'[k] = IF k = Key(cur) THEN r ELSE dns[k]
    BY <2>2 DEF Applied, SyncInv, IInv, TypeOK
  <2>6. cur.phase = "delete" => r.owner = Nobody
    BY DEF Absent
  <2>7. \/ cur.phase = "delete" /\ dns'[Key(cur)].owner = Nobody
        \/ cur.phase # "delete" /\ dns'[Key(cur)] = Desired(cur.fip, seen[cur.fip], cur.type)
    BY <2>4, <2>5, <2>6
  <2> QED BY <1>1, <2>1, <2>3, <2>5, <2>7, Progress DEF Applying
<1> QED BY <1>3, <1>4, <1>5

\* Outside per_project_zone no failure goes uncounted.
LEMMA FailuresKnow ==
    ASSUME SyncInv, RequestFails \/ AnswerLost
    PROVE  Knows' /\ ServedSoon' /\ DeletedSoon' /\ Agrees'
<1> USE DEF RequestFails, AnswerLost, Outcomes, DeletesSilently, Done
<1>1. /\ PerProjectZone \/ ~clean'
      /\ pc \in Applying /\ pc' = "applying" /\ handle' = "none"
      /\ UNCHANGED <<neutron, seen, disturbed, verdict>>
  BY DEF Applying
<1>2. ServedSoon' /\ DeletedSoon'
  BY <1>1 DEF ServedSoon, DeletedSoon, Smooth
<1> QED BY <1>1, <1>2, ApplyingKnows DEF Applying

-----------------------------------------------------------------------------
(* Planning *)

\* What a complete listing of the moment shows of each recordset.
LEMMA Found ==
    ASSUME IInv, FoundNow, ~disturbed, pc = "listing", unlisted = {}, NEW k \in Keys
    PROVE  /\ found[k] = ManagedView(dns, k)
           /\ found[k] # Absent => /\ dns[k] # Absent /\ found[k].data = dns[k].data
                                   /\ found[k].owner = Owner(dns, k[1])
                                   /\ found[k].owner \in Fips
                                   /\ Claims(k[1], found[k].owner)
                                   /\ k[2] = "TXT" => dns[k].owner = found[k].owner
<1>1. found[k] = ManagedView(dns, k)
  BY DEF FoundNow
<1>2. k[1] \in Names /\ k[2] \in Types /\ k = <<k[1], k[2]>>
  BY KeyParts
<1> SUFFICES ASSUME found[k] # Absent
             PROVE  /\ dns[k] # Absent /\ found[k].data = dns[k].data
                    /\ found[k].owner = Owner(dns, k[1])
                    /\ found[k].owner \in Fips
                    /\ Claims(k[1], found[k].owner)
                    /\ k[2] = "TXT" => dns[k].owner = found[k].owner
  BY <1>1
<1>3. /\ dns[k] # Absent /\ found[k] = [data |-> dns[k].data, owner |-> Owner(dns, k[1])]
      /\ IF k[2] = "TXT" THEN dns[k].owner # Nobody ELSE Owner(dns, k[1]) # Nobody
  BY <1>1 DEF ManagedView
<1>4. Owner(dns, k[1]) # Nobody /\ (k[2] = "TXT" => dns[k].owner = Owner(dns, k[1]))
  BY <1>2, <1>3 DEF Owner
<1>5. Owner(dns, k[1]) \in Fips /\ \E t \in Types : dns[<<k[1], t>>].owner = Owner(dns, k[1])
  BY <1>4, ViewParts DEF IInv, TypeOK
<1>6. Claims(k[1], Owner(dns, k[1]))
  BY <1>2, <1>5, MarkClaims
<1> QED BY <1>3, <1>4, <1>5, <1>6

\* A plan of the moment's lists has an operation for each record that is not right.
LEMMA PlanServes ==
    ASSUME IInv, Knows, ~disturbed, pc = "listing", unlisted = {},
           Listed(seen) = Live, \A g \in Live : seen[g] = neutron[g],
           NEW name \in NameChoices(seen, found), NEW f \in Live
    PROVE  /\ name[f] \in Names
           /\ \A t \in WantedTypes :
                 \/ \E o \in Plan(seen, found, name) :
                       o.phase # "delete" /\ o.fip = f /\ o.name = name[f] /\ o.type = t
                 \/ Right(name[f], f, t)
<1> DEFINE n == name[f]
<1>1. n \in Names /\ f \in Fips /\ f \in Listed(seen) /\ seen[f] = neutron[f]
  BY DEF NameChoices, Live
<1> SUFFICES ASSUME NEW t \in WantedTypes,
                    ~\E o \in Plan(seen, found, name) :
                        o.phase # "delete" /\ o.fip = f /\ o.name = n /\ o.type = t
             PROVE  Right(n, f, t)
  BY <1>1
<1>2. t \in Types /\ <<n, t>> \in Keys /\ <<n, t>>[1] = n /\ <<n, t>>[2] = t
  BY <1>1 DEF WantedTypes, Types, Keys
<1>3. \A p \in Phases : [phase |-> p, name |-> n, type |-> t, fip |-> f] \in Ops
  BY <1>1, <1>2 DEF Ops
<1>4. found[<<n, t>>] # Absent
  <2> DEFINE o == [phase |-> "create", name |-> n, type |-> t, fip |-> f]
  <2>1. o \in Ops
    BY <1>3 DEF Phases
  <2>2. ASSUME found[<<n, t>>] = Absent PROVE o \in CreateOps(seen, found, name)
    BY <1>1, <2>1, <2>2 DEF CreateOps, Key
  <2> QED BY <2>2 DEF Plan
<1>5. found[<<n, t>>].data = DesiredData(seen[f], t)
  <2> DEFINE o == [phase |-> "update", name |-> n, type |-> t, fip |-> f]
  <2>1. o \in Ops
    BY <1>3 DEF Phases
  <2>2. ASSUME found[<<n, t>>].data # DesiredData(seen[f], t)
        PROVE  o \in UpdateOps(seen, found, name)
    BY <1>1, <1>4, <2>1, <2>2 DEF UpdateOps, Key
  <2> QED BY <2>2 DEF Plan
<1>6. /\ dns[<<n, t>>] # Absent /\ dns[<<n, t>>].data = DesiredData(neutron[f], t)
      /\ found[<<n, t>>].owner = Owner(dns, n) /\ found[<<n, t>>].owner \in Fips
      /\ Claims(n, found[<<n, t>>].owner)
      /\ t = "TXT" => dns[<<n, t>>].owner = found[<<n, t>>].owner
  BY <1>1, <1>2, <1>4, <1>5, Found DEF Knows
<1>7. f \in Grouped(found)
  <2> SUFFICES ASSUME f \in NewFips(seen, found) PROVE FALSE
    BY <1>1 DEF NewFips
  <2> QED BY <1>1, <1>2, <1>4 DEF NameChoices, UsedNames
<1>8. found[<<n, t>>].owner = f
  <2>1. Claims(n, f)
    BY <1>7, ChosenNames
  <2> QED BY <1>1, <1>6, <2>1, OneClaim
<1>9. CASE t = "A"
  <2>1. Owner(dns, n) = f /\ f # Nobody
    BY <1>1, <1>6, <1>8, FipAssumption
  <2>2. \E u \in Types : dns[<<n, u>>].owner = f
    BY <2>1 DEF Owner, Types
  <2> QED BY <1>6, <1>9, <2>2 DEF Right, DesiredData
<1>10. CASE t = "TXT"
  <2>1. dns[<<n, "TXT">>] \in Recordsets
    BY <1>2, <1>6, <1>10 DEF IInv, TypeOK
  <2>2. dns[<<n, "TXT">>].data = Canonical /\ dns[<<n, "TXT">>].owner = f
    BY <1>6, <1>8, <1>10 DEF DesiredData
  <2> QED BY <1>10, <2>1, <2>2 DEF Right, Desired, DesiredData, Recordsets
<1> QED BY <1>2, <1>9, <1>10 DEF Types

\* And one for each record of a floating IP that is gone.
LEMMA PlanDeletes ==
    ASSUME IInv, Knows, ~disturbed, pc = "listing", unlisted = {}, DeleteStale,
           Listed(seen) = Live, NEW name \in NameChoices(seen, found),
           NEW k \in Keys, dns[k].owner # Nobody, dns[k].owner \notin Live
    PROVE  \E o \in Plan(seen, found, name) : o.phase = "delete" /\ Key(o) = k
<1> DEFINE f == dns[k].owner
           o == [phase |-> "delete", name |-> k[1], type |-> k[2], fip |-> f]
<1>1. k[1] \in Names /\ k[2] \in Types /\ k = <<k[1], k[2]>>
  BY KeyParts
<1>2. f \in Fips /\ Claims(k[1], f)
  BY <1>1, RecordParts, MarkClaims DEF IInv, TypeOK
<1>3. found[k].owner = f /\ found[k] # Absent
  <2>1. NamesMatchFips
    BY OneOwner DEF IInv
  <2>2. Owner(dns, k[1]) = f
    BY <2>1, OwnerOfMark DEF IInv
  <2>3. ManagedView(dns, k).owner = f
    BY <2>2, ViewParts DEF IInv, TypeOK
  <2> QED BY <1>2, <2>3, Found, FipAssumption DEF Knows, Absent
<1>4. f \in Grouped(found) \ Listed(seen)
  BY <1>1, <1>2, <1>3 DEF Grouped, GroupNames, OwnedNames, Types
<1>5. name[f] = k[1]
  <2>1. Claims(name[f], f) /\ name[f] \in Names
    BY <1>4, ChosenNames
  <2> QED BY <1>1, <1>2, <2>1 DEF IInv, ClaimsMatch
<1>6. o \in Ops /\ Key(o) = k
  BY <1>1, <1>2 DEF Ops, Phases, Key
<1>7. o \in DeleteOps(seen, found, name)
  BY <1>3, <1>4, <1>5, <1>6 DEF DeleteOps
<1> QED BY <1>6, <1>7 DEF Plan

\* What a plan leaves out was right in the listing, which is that of the moment.
LEMMA MakePlanKnows ==
    ASSUME SyncInv, MakePlan
    PROVE  Knows' /\ ServedSoon' /\ DeletedSoon' /\ Agrees'
<1> USE DEF MakePlan, CanPlan, world
<1>1. PICK name \in NameChoices(seen, found) : PlanFor(name)
  OBVIOUS
<1>2. /\ pc = "listing" /\ unlisted = {} /\ pc' = "applying"
      /\ todo' = IF DryRun THEN {} ELSE Plan(seen, found, name)
      /\ UNCHANGED <<neutron, zone, dns, seen, unlisted, handle, clean, verdict, disturbed>>
  BY <1>1 DEF PlanFor
<1>3. Knows' /\ Agrees'
  BY <1>2 DEF SyncInv, Knows, SeenNow, FoundNow, HandleShape, Agrees, SuccessMeansSync
<1> SUFFICES ASSUME Smooth' PROVE ServedSoon' /\ DeletedSoon'
  BY <1>3 DEF ServedSoon, DeletedSoon
<1>4. ~disturbed /\ Open' = Plan(seen, found, name)
  BY <1>2 DEF Smooth, Open
<1>5. /\ Listed(seen) = Live /\ \A f \in Live : seen[f] = neutron[f]
      /\ IInv /\ Knows /\ Live' = Live
  BY <1>2, <1>4, ListedLive DEF SyncInv, Live
<1>6. \A n, f, t : Right(n, f, t)' <=> Right(n, f, t)
  BY <1>2 DEF Right
<1>7. ServedSoon'
  <2> SUFFICES ASSUME NEW f \in Live
               PROVE  \E n \in Names : \A t \in WantedTypes :
                          Pending(n, f, t)' \/ Right(n, f, t)'
    BY <1>5 DEF ServedSoon
  <2>1. name[f] \in Names
    BY <1>1, <1>2, <1>4, <1>5, PlanServes
  <2>2. \A t \in WantedTypes : Pending(name[f], f, t)' \/ Right(name[f], f, t)'
    BY <1>1, <1>2, <1>4, <1>5, <1>6, PlanServes DEF Pending
  <2> QED BY <2>1, <2>2
<1>8. DeletedSoon'
  BY <1>2, <1>4, <1>5, PlanDeletes DEF DeletedSoon
<1> QED BY <1>7, <1>8

-----------------------------------------------------------------------------
(* The other steps *)

\* A pass begins with the list of the moment.
LEMMA ListFloatingIpsKnows ==
    ASSUME SyncInv, ListFloatingIps
    PROVE  Knows' /\ ServedSoon' /\ DeletedSoon' /\ Agrees'
BY DEF SyncInv, Knows, ListFloatingIps, SeenNow, FoundNow, HandleShape, ServedSoon,
       DeletedSoon, Smooth, Applying, Agrees, SuccessMeansSync, world

\* A zone that does not exist has no recordset to be listed.
LEMMA ListZonesKnows ==
    ASSUME SyncInv, ListZones
    PROVE  Knows' /\ ServedSoon' /\ DeletedSoon' /\ Agrees'
<1> USE DEF ListZones, world
<1>1. FoundNow'
  <2> SUFFICES ASSUME NEW k \in Keys, zone[ZoneOf(k[1])] = NoZone
               PROVE  found[k] = ManagedView(dns, k)
    BY KeyParts, NameZone DEF FoundNow, ExistingZones, ManagedView, Owner
  <2>1. dns[k] = Absent
    BY DEF SyncInv, IInv, RecordsInZones
  <2>2. found[k] = Absent
    BY NoMarks DEF SyncInv, IInv, PassShape
  <2> QED BY <2>1, <2>2 DEF ManagedView
<1>2. SeenNow' /\ HandleShape' /\ verdict' = "none"
  BY DEF SyncInv, Knows, SeenNow, HandleShape
<1> QED BY <1>1, <1>2 DEF Knows, ServedSoon, DeletedSoon, Smooth, Applying, Agrees,
                           SuccessMeansSync

\* A pass that ends without success leaves nothing to be known.
LEMMA EndPassKnows ==
    ASSUME SyncInv, NEW v, EndPass(v), v # "success"
    PROVE  Knows' /\ ServedSoon' /\ DeletedSoon' /\ Agrees'
BY DEF Knows, EndPass, SeenNow, FoundNow, HandleShape, ServedSoon,
       DeletedSoon, Smooth, Applying, Agrees, SuccessMeansSync

\* One more zone is listed as it is.
LEMMA ListZoneKnows ==
    ASSUME SyncInv, NEW z \in Zones, ListZone(z)
    PROVE  Knows' /\ ServedSoon' /\ DeletedSoon' /\ Agrees'
<1> USE DEF ListZone, world
<1>1. CASE zone[z] = NoZone
  BY <1>1, EndPassKnows
<1>2. CASE zone[z] # NoZone
  <2>1. FoundNow'
    BY <1>2 DEF SyncInv, Knows, FoundNow, ManagedView, Owner
  <2>2. SeenNow' /\ HandleShape' /\ verdict' = "none" /\ pc' = "listing"
    BY <1>2 DEF SyncInv, Knows, SeenNow, HandleShape
  <2> QED BY <2>1, <2>2 DEF Knows, ServedSoon, DeletedSoon, Smooth, Applying, Agrees,
                             SuccessMeansSync
<1> QED BY <1>1, <1>2

\* Nothing is open and nothing has failed: what is not to be done is right.
LEMMA FinishPassKnows ==
    ASSUME SyncInv, FinishPass
    PROVE  Knows' /\ ServedSoon' /\ DeletedSoon' /\ Agrees'
<1> USE DEF FinishPass, world
<1>1. CASE ~clean
  BY <1>1, EndPassKnows
<1>2. CASE clean
  <2>1. Knows' /\ ServedSoon' /\ DeletedSoon'
    BY DEF Knows, EndPass, SeenNow, FoundNow, HandleShape, ServedSoon, DeletedSoon, Smooth,
           Applying
  <2> SUFFICES ASSUME ~PerProjectZone, ~disturbed, ~DryRun PROVE InSync'
    BY <2>1 DEF Agrees, SuccessMeansSync
  <2>2. Smooth /\ Open = {}
    BY <1>2 DEF Smooth, Open, Applying
  <2>3. \A f \in Live : \E n \in Names : Serves(n, f)
    <3> SUFFICES ASSUME NEW f \in Live PROVE \E n \in Names : Serves(n, f)
      OBVIOUS
    <3>1. PICK n \in Names : \A t \in WantedTypes : Right(n, f, t)
      BY <2>2 DEF SyncInv, ServedSoon, Pending
    <3> QED BY <3>1, RightServes DEF SyncInv
  <2>4. DeleteStale => \A k \in Keys : dns[k].owner # Nobody => dns[k].owner \in Live
    BY <2>2 DEF SyncInv, DeletedSoon
  <2> QED BY <2>3, <2>4 DEF InSync, Serves, ManagedView, Owner, Live
<1> QED BY <1>1, <1>2

\* Whatever else acts, the pass it disturbs claims nothing.
LEMMA OutsideKnows ==
    ASSUME SyncInv, disturbed', UNCHANGED <<pc, cur, verdict>>,
           handle' = handle \/ (handle = "held" /\ handle' = "stale")
    PROVE  Knows' /\ ServedSoon' /\ DeletedSoon' /\ Agrees'
BY DEF SyncInv, Knows, SeenNow, FoundNow, HandleShape, ServedSoon, DeletedSoon, Smooth,
       Agrees, SuccessMeansSync

-----------------------------------------------------------------------------
(* The invariant *)

\* Before the first pass nothing is claimed and nothing is known.
THEOREM InitSync == Init => SyncInv
<1> SUFFICES ASSUME Init PROVE SyncInv
  OBVIOUS
<1>1. IInv
  BY InitIInv
<1> QED BY <1>1 DEF Init, SyncInv, Knows, SeenNow, FoundNow, HandleShape, ServedSoon,
                    DeletedSoon, Smooth, Applying, Agrees, SuccessMeansSync

\* Every step keeps SyncInv: no pass reports success over a record it has not made right.
THEOREM NextSync == SyncInv /\ [Next]_vars => SyncInv'
<1> SUFFICES ASSUME SyncInv, [Next]_vars PROVE SyncInv'
  OBVIOUS
<1> DEFINE Kept == Knows' /\ ServedSoon' /\ DeletedSoon' /\ Agrees'
<1> HIDE DEF Kept
<1>1. IInv'
  BY NextIInv DEF SyncInv
<1> SUFFICES Kept
  BY <1>1 DEF SyncInv, Kept
<1>2. CASE Worker
  <2>1. CASE ListFloatingIps \/ ListZones \/ \E z \in Zones : ListZone(z)
    BY <2>1, ListFloatingIpsKnows, ListZonesKnows, ListZoneKnows DEF Kept
  <2>2. CASE MakePlan
    BY <2>2, MakePlanKnows DEF Kept
  <2>3. CASE PlanRaises
    BY <2>3, EndPassKnows DEF Kept, PlanRaises
  <2>4. CASE \E o \in todo : BeginOp(o)
    BY <2>4, BeginOpKnows DEF Kept
  <2>5. CASE CreateProjectZone \/ FindRecordset \/ WriteRecordset
    BY <2>5, CreateProjectZoneKnows, FindRecordsetKnows, WriteRecordsetKnows DEF Kept
  <2>6. CASE FinishPass
    BY <2>6, FinishPassKnows DEF Kept
  <2> QED BY <1>2, <2>1, <2>2, <2>3, <2>4, <2>5, <2>6 DEF Worker
<1>3. CASE Failures
  <2>1. CASE ListFails \/ Crash
    BY <2>1, EndPassKnows DEF Kept, ListFails, Crash
  <2>2. CASE RequestFails \/ AnswerLost
    BY <2>2, FailuresKnow DEF Kept
  <2>3. CASE \E o \in todo : BeginFails(o)
    BY <2>3, BeginOpKnows DEF Kept
  <2> QED BY <1>3, <2>1, <2>2, <2>3 DEF Failures
<1>4. CASE NeutronActs \/ UserActs
  <2>1. /\ disturbed' /\ UNCHANGED <<pc, cur, verdict>>
        /\ handle' = handle \/ (handle = "held" /\ handle' = "stale")
    BY <1>4 DEF NeutronActs, UserActs, Release, Allocate, Readdress, UserDeletes, UserEdits,
                UserCreates, UserDropsZone, LoseRecords, Edit, process
  <2> QED BY <2>1, OutsideKnows DEF Kept
<1>5. CASE UNCHANGED vars
  <2> USE <1>5 DEF vars
  <2>1. Knows'
    BY DEF SyncInv, Knows, SeenNow, FoundNow, HandleShape, ManagedView, Owner
  <2>2. (Smooth' => Smooth) /\ Live' = Live /\ Open' = Open
    BY DEF Smooth, Live, Open
  <2>3. \A n \in Names, f \in Live, t \in WantedTypes :
            (Pending(n, f, t)' <=> Pending(n, f, t)) /\ (Right(n, f, t)' <=> Right(n, f, t))
    BY <2>2 DEF Pending, Right
  <2>4. ServedSoon'
    BY <2>2, <2>3 DEF SyncInv, ServedSoon
  <2>5. DeletedSoon'
    BY <2>2 DEF SyncInv, DeletedSoon
  <2>6. Agrees'
    BY <2>2 DEF SyncInv, Agrees, SuccessMeansSync, InSync, Serves, ManagedView, Owner
  <2> QED BY <2>1, <2>4, <2>5, <2>6 DEF Kept
<1> QED BY <1>2, <1>3, <1>4, <1>5 DEF Next

\* Outside per_project_zone a pass that reports success while nothing else acts has left
\* DNS in agreement with Neutron, whatever failed and whatever the pass started from.
THEOREM SuccessInSync == ASSUME ~PerProjectZone PROVE Spec => []SuccessMeansSync
<1>1. SyncInv => SuccessMeansSync
  BY DEF SyncInv, Agrees
<1> QED BY <1>1, InitSync, NextSync, PTL DEF Spec

\* Every recordset of a state in agreement is listed as it should be.
LEMMA FoundServing ==
    ASSUME SyncInv, InSync, ~disturbed, pc = "listing", unlisted = {},
           NEW name \in NameChoices(seen, found), NEW f \in Listed(seen), NEW t \in WantedTypes
    PROVE  /\ found[<<name[f], t>>] # Absent
           /\ found[<<name[f], t>>].data = DesiredData(seen[f], t)
<1>1. IInv /\ FoundNow /\ f \in Live /\ f \in Fips /\ seen[f] = neutron[f] /\ t \in Types
  BY ListedLive DEF SyncInv, Knows, Live, WantedTypes, Types
<1>2. PICK n \in Names : Serves(n, f)
  BY <1>1 DEF InSync
<1>3. <<n, t>> \in Keys /\ <<n, "A">> \in Keys /\ <<n, "A">>[1] = n /\ f # Nobody
  BY <1>1, FipAssumption DEF Keys, Types
<1>4. found[<<n, "A">>] = Desired(f, neutron[f], "A")
  BY <1>1, <1>2, <1>3 DEF FoundNow, Serves
<1>5. Claims(n, f) /\ f \in Grouped(found)
  <2>1. found[<<n, "A">>].owner = f
    BY <1>4 DEF Desired
  <2> QED BY <1>1, <2>1 DEF Claims, Grouped, GroupNames, OwnedNames, Types
<1>6. name[f] = n
  <2>1. Claims(name[f], f) /\ name[f] \in Names
    BY <1>1, <1>5, ChosenNames
  <2> QED BY <1>1, <1>5, <2>1 DEF IInv, ClaimsMatch
<1>7. CASE t = "A"
  BY <1>1, <1>3, <1>4, <1>6, <1>7 DEF Desired, DesiredData, Absent
<1>8. CASE t = "TXT"
  <2>1. dns[<<n, t>>] = Desired(f, neutron[f], "TXT")
    BY <1>2, <1>8 DEF Serves, WantedTypes
  <2>2. found[<<n, t>>] = ManagedView(dns, <<n, t>>)
    BY <1>1, <1>3 DEF FoundNow
  <2>3. ManagedView(dns, <<n, t>>) = [data |-> Canonical, owner |-> f]
    BY <1>3, <1>8, <2>1 DEF ManagedView, Owner, Desired, DesiredData, Absent
  <2> QED BY <1>3, <1>6, <1>8, <2>2, <2>3 DEF Absent, DesiredData
<1> QED BY <1>1, <1>7, <1>8 DEF Types

\* And every group of the listing belongs to a live floating IP, if stale ones are deleted.
LEMMA GroupsLive ==
    ASSUME SyncInv, InSync, ~disturbed, pc = "listing", unlisted = {}, DeleteStale
    PROVE  Grouped(found) \subseteq Listed(seen)
<1> SUFFICES ASSUME NEW f \in Grouped(found) PROVE f \in Listed(seen)
  OBVIOUS
<1>1. IInv /\ FoundNow /\ Listed(seen) = Live /\ f \in Fips /\ f # Nobody
  BY ListedLive, FipAssumption DEF SyncInv, Knows, Grouped
<1>2. PICK n \in Names, t \in Types : found[<<n, t>>].owner = f
  BY DEF Grouped, GroupNames, OwnedNames, Types
<1>3. <<n, t>> \in Keys /\ <<n, t>>[1] = n /\ <<n, "A">> \in Keys /\ <<n, "TXT">> \in Keys
  BY DEF Keys, Types
<1>4. Owner(dns, n) = f
  BY <1>1, <1>2, <1>3, Found DEF Absent
<1>5. PICK k \in Keys : dns[k].owner = f
  BY <1>3, <1>4 DEF Owner
<1> QED BY <1>1, <1>5 DEF InSync

\* Reconciling is idempotent: a pass over records that agree with Neutron, and that nothing
\* disturbs, plans nothing, under either zone strategy.
THEOREM Idempotent == Spec => NothingToDo
<1>1. SyncInv /\ [Next]_vars => [MakePlan /\ InSync /\ ~disturbed => todo' = {}]_vars
  <2> SUFFICES ASSUME SyncInv, MakePlan, InSync, ~disturbed PROVE todo' = {}
    OBVIOUS
  <2>1. PICK name \in NameChoices(seen, found) :
            todo' = IF DryRun THEN {} ELSE Plan(seen, found, name)
    BY DEF MakePlan, PlanFor
  <2>2. pc = "listing" /\ unlisted = {}
    BY DEF MakePlan, CanPlan
  <2>3. CreateOps(seen, found, name) = {} /\ UpdateOps(seen, found, name) = {}
    BY <2>2, FoundServing DEF CreateOps, UpdateOps, Key
  <2>4. DeleteOps(seen, found, name) = {}
    BY <2>2, GroupsLive DEF DeleteOps
  <2> QED BY <2>1, <2>3, <2>4 DEF Plan
<1>2. Spec => [][Next]_vars
  BY DEF Spec
<1> QED BY <1>1, <1>2, InitSync, NextSync, PTL DEF NothingToDo, Spec
=============================================================================
