---------------------------- MODULE MetadataProofs ----------------------------
(***************************************************************************)
(* Metadata updates take nothing from what was proved of the records and   *)
(* no tag from the users; a pass that reports success has announced the    *)
(* name that serves each floating IP, and a pass over announced names has  *)
(* nothing to announce again, for all values of the constants: success     *)
(* outside per_project_zone, where it also means that records are in sync. *)
(***************************************************************************)
EXTENDS MetadataProps, SyncProofs

-----------------------------------------------------------------------------
(* Records and tags *)

\* Every step with metadata is a step of Reconciler or none of its business.
LEMMA RecordsView == ASSUME MetaNext PROVE [Next]_vars
<1>1. CASE ListWithMetadata
  BY <1>1 DEF ListWithMetadata, Next, Worker
<1>2. CASE PlanWithMetadata
  BY <1>2 DEF PlanWithMetadata, MakePlan, Next, Worker
<1>3. CASE FinishWithMetadata
  BY <1>3 DEF FinishWithMetadata, Next, Worker
<1>4. CASE RecordStep
  BY <1>4 DEF RecordStep, RecordSteps, Next, Worker
<1>5. CASE \E u \in updates : GetIp(u) \/ GetIpFails(u)
  BY <1>5 DEF GetIp, GetIpFails
<1>6. CASE Describe \/ SetTags \/ UpdateFails
  BY <1>6 DEF Describe, SetTags, UpdateFails
<1>7. CASE WorldStep
  BY <1>7 DEF WorldStep, Next
<1>8. CASE \E f \in Fips : UserAnnotates(f)
  BY <1>8 DEF UserAnnotates
<1> QED
  BY <1>1, <1>2, <1>3, <1>4, <1>5, <1>6, <1>7, <1>8 DEF MetaNext

\* The reconciler that writes metadata is, for Designate, the reconciler that does not:
\* all that is proved of Spec holds of it.
THEOREM ImplementsRecords == MetaSpec => Spec
<1>1. MetaInit => Init
  BY DEF MetaInit
<1>2. [MetaNext]_allVars => [Next]_vars
  BY RecordsView DEF allVars
<1> QED BY <1>1, <1>2, PTL DEF MetaSpec, Spec

-----------------------------------------------------------------------------
(* Tags *)

\* While nobody else writes them the tags in hand are those in Neutron, and the update in
\* hand is of a floating IP.
TagsInHand ==
    /\ tags \in [Fips -> SUBSET Tags]
    /\ updates \subseteq Updates /\ upd \in Updates \cup {NoUpdate} /\ got \subseteq Tags
    /\ upd # NoUpdate /\ ~late => got = tags[upd.fip]

\* Steps that leave metadata and the update in hand alone, or drop it.
LEMMA TagsIdle ==
    ASSUME TagsInHand, UNCHANGED tags, updates' \subseteq updates,
           \/ upd' = NoUpdate /\ got' = {}
           \/ UNCHANGED <<upd, got, late>>
    PROVE  TagsInHand'
BY DEF TagsInHand

\* What is planned are updates of floating IPs that were listed.
LEMMA PlannedTyped ==
    ASSUME NEW name \in NameChoices(seen, found) PROVE PlannedUpdates(name) \subseteq Updates
<1> SUFFICES ASSUME NEW f \in Listed(seen) PROVE UpdateOf(f, name[f]) \in Updates
  BY DEF PlannedUpdates
<1>1. f \in Fips
  BY DEF Listed
<1>2. name[f] \in Names
  BY DEF NameChoices
<1>3. (UpdateDescription /\ listed[f].desc # name[f]) \in BOOLEAN
      /\ (UpdateTags /\ ~(Rendered(name[f]) \subseteq listed[f].tags)) \in BOOLEAN
  BY SwitchesAssumption
<1> QED BY <1>1, <1>2, <1>3 DEF UpdateOf, Updates

LEMMA TagsTaken ==
    ASSUME TagsInHand, NEW u \in updates, GetIp(u) PROVE TagsInHand'
<1>1. u \in Updates /\ u.fip \in Fips /\ UNCHANGED tags /\ updates' \subseteq updates
  BY DEF GetIp, TagsInHand, Updates, metadata
<1>2. CASE u.fip \in Live
  <2>1. upd' = u /\ got' = tags[u.fip] /\ ~late'
    BY <1>2 DEF GetIp
  <2> QED BY <1>1, <2>1 DEF TagsInHand
<1>3. CASE u.fip \notin Live
  BY <1>1, <1>3, TagsIdle DEF GetIp, UpdateEnds
<1> QED BY <1>2, <1>3

LEMMA TagsReread == ASSUME TagsInHand, Describe PROVE TagsInHand'
<1>1. upd \in Updates /\ upd.fip \in Fips /\ UNCHANGED <<tags, updates>>
  BY DEF Describe, TagsInHand, Updates
<1>2. CASE upd.fip \in Live /\ upd.tag
  <2>1. upd' = upd /\ got' = tags[upd.fip] /\ ~late'
    BY <1>2 DEF Describe
  <2> QED BY <1>1, <2>1 DEF TagsInHand
<1>3. CASE ~(upd.fip \in Live /\ upd.tag)
  BY <1>1, <1>3, TagsIdle DEF Describe, UpdateEnds
<1> QED BY <1>2, <1>3

\* What set_tags writes is at least what was there, unless somebody else wrote meanwhile.
LEMMA TagsWritten ==
    ASSUME TagsInHand, upd # NoUpdate, step = "tag", tags' = Tagged
    PROVE  /\ tags' \in [Fips -> SUBSET Tags]
           /\ late \/ \A f \in Fips : tags[f] \subseteq tags'[f]
<1>1. upd \in Updates /\ upd.fip \in Fips /\ upd.name \in Names
  BY DEF TagsInHand, Updates
<1>2. Rendered(upd.name) \subseteq Tags
  BY <1>1 DEF Rendered, Label, Names, Fqdn, Tags
<1>3. CASE upd.fip \notin Live
  BY <1>3 DEF Tagged, TagsInHand
<1>4. CASE upd.fip \in Live
  <2> DEFINE new == got \cup Rendered(upd.name)
  <2>1. new \subseteq Tags
    BY <1>2 DEF TagsInHand
  <2>2. tags' = [tags EXCEPT ![upd.fip] = new]
    BY <1>4 DEF Tagged
  <2>3. late \/ tags[upd.fip] \subseteq new
    BY DEF TagsInHand
  <2> HIDE DEF new
  <2> QED BY <1>1, <2>1, <2>2, <2>3 DEF TagsInHand
<1> QED BY <1>3, <1>4

\* A user's tag: what was read is late from now on.
LEMMA TagsAnnotated ==
    ASSUME TagsInHand, NEW f \in Fips, UserAnnotates(f) PROVE TagsInHand'
<1>1. CASE UNCHANGED tags
  <2>1. UNCHANGED <<tags, updates, upd, got>>
    BY <1>1 DEF UserAnnotates, metaPass
  <2>2. late' = late \/ late' = (late \/ (upd # NoUpdate /\ upd.fip = f))
    BY DEF UserAnnotates
  <2>3. ~late' => ~late
    BY <2>2
  <2> QED BY <2>1, <2>3 DEF TagsInHand
<1>2. CASE ~UNCHANGED tags
  <2>1. PICK T \in SUBSET Tags : tags' = [tags EXCEPT ![f] = T]
    <3>1. tags[f] \subseteq Tags /\ UserTag \in Tags
      BY DEF TagsInHand, Tags
    <3>2. CASE tags' = [tags EXCEPT ![f] = @ \cup {UserTag}]
      <4>1. tags' = [tags EXCEPT ![f] = tags[f] \cup {UserTag}]
        BY <3>2 DEF TagsInHand
      <4> QED BY <3>1, <4>1
    <3>3. ASSUME NEW t \in tags[f], tags' = [tags EXCEPT ![f] = @ \ {t}]
          PROVE  \E T \in SUBSET Tags : tags' = [tags EXCEPT ![f] = T]
      <4>1. tags' = [tags EXCEPT ![f] = tags[f] \ {t}]
        BY <3>3 DEF TagsInHand
      <4> QED BY <3>1, <4>1
    <3> QED BY <1>2, <3>2, <3>3 DEF UserAnnotates
  <2>2. late' = (late \/ (upd # NoUpdate /\ upd.fip = f)) /\ UNCHANGED <<updates, upd, got>>
    BY <1>2 DEF UserAnnotates, metaPass
  <2>3. tags' \in [Fips -> SUBSET Tags] /\ \A g \in Fips : g # f => tags'[g] = tags[g]
    BY <2>1 DEF TagsInHand
  <2>4. upd # NoUpdate => upd.fip \in Fips
    BY DEF TagsInHand, Updates
  <2> QED BY <2>2, <2>3, <2>4 DEF TagsInHand
<1> QED BY <1>1, <1>2

LEMMA TagsInHandStep ==
    ASSUME TagsInHand, [MetaNext]_allVars
    PROVE  /\ TagsInHand'
           /\ \/ late \/ \E f \in Fips : UserAnnotates(f)
              \/ \A f \in Fips : tags[f] \subseteq tags'[f]
<1> DEFINE Kept == \A f \in Fips : tags[f] \subseteq tags'[f]
<1>1. ASSUME UNCHANGED tags PROVE Kept
  BY <1>1
<1>2. CASE ListWithMetadata \/ WorldStep \/ UNCHANGED allVars
  <2>1. UNCHANGED <<tags, updates, upd, got, late>>
    BY <1>2 DEF ListWithMetadata, WorldStep, allVars, metaVars, metadata
  <2> QED BY <1>1, <2>1, TagsIdle
<1>3. CASE PlanWithMetadata
  <2>1. UNCHANGED <<tags, upd, got, late>> /\ updates' \subseteq Updates
    BY <1>3, PlannedTyped DEF PlanWithMetadata, metadata
  <2> QED BY <1>1, <2>1 DEF TagsInHand
<1>4. CASE FinishWithMetadata \/ RecordStep
  <2>1. UNCHANGED tags /\ updates' \subseteq updates
        /\ \/ upd' = NoUpdate /\ got' = {}
           \/ UNCHANGED <<upd, got, late>>
    BY <1>4 DEF FinishWithMetadata, RecordStep, Forget, metadata, metaPass
  <2> QED BY <1>1, <2>1, TagsIdle
<1>5. ASSUME NEW u \in updates, GetIp(u) PROVE TagsInHand' /\ Kept
  BY <1>1, <1>5, TagsTaken DEF GetIp, metadata
<1>6. ASSUME NEW u \in updates, GetIpFails(u) PROVE TagsInHand' /\ Kept
  <2>1. UNCHANGED tags /\ updates' \subseteq updates /\ upd' = NoUpdate /\ got' = {}
    BY <1>6 DEF GetIpFails, UpdateEnds, metadata
  <2> QED BY <1>1, <2>1, TagsIdle
<1>7. CASE Describe
  BY <1>1, <1>7, TagsReread DEF Describe
<1>8. CASE SetTags \/ UpdateFails
  <2>1. upd # NoUpdate /\ upd' = NoUpdate /\ got' = {} /\ UNCHANGED updates
        /\ (UNCHANGED tags \/ (step = "tag" /\ tags' = Tagged))
    BY <1>8 DEF SetTags, UpdateFails, UpdateEnds, metadata
  <2>2. CASE UNCHANGED tags
    BY <1>1, <2>1, <2>2, TagsIdle
  <2>3. CASE step = "tag" /\ tags' = Tagged
    <3>1. tags' \in [Fips -> SUBSET Tags] /\ (late \/ Kept)
      BY <2>1, <2>3, TagsWritten
    <3> QED BY <2>1, <3>1 DEF TagsInHand
  <2> QED BY <2>1, <2>2, <2>3
<1>9. CASE \E f \in Fips : UserAnnotates(f)
  BY <1>9, TagsAnnotated
<1> QED
  BY <1>2, <1>3, <1>4, <1>5, <1>6, <1>7, <1>8, <1>9 DEF MetaNext

\* Whatever fails, and whoever else writes, the program only takes away tags that were set
\* between an update's read and its write.
THEOREM NoTagTaken == MetaSpec => TagsKept
<1>1. MetaInit => TagsInHand
  BY DEF MetaInit, TagsInHand
<1>2. TagsInHand /\ [MetaNext]_allVars => TagsInHand'
  BY TagsInHandStep
<1>3. TagsInHand /\ [MetaNext]_allVars =>
        [\/ late \/ \E f \in Fips : UserAnnotates(f)
         \/ \A f \in Fips : tags[f] \subseteq tags'[f]]_allVars
  BY TagsInHandStep
<1>4. MetaSpec => [][MetaNext]_allVars /\ MetaInit
  BY DEF MetaSpec
<1> QED BY <1>1, <1>2, <1>3, <1>4, PTL DEF TagsKept

-----------------------------------------------------------------------------
(* Announcements *)

\* While nobody else acts the descriptions and tags listed are those of the moment.
ListedNow ==
    ~metaDisturbed /\ ~disturbed /\ pc \in {"zones", "listing"} =>
        \A f \in Live : listed[f] = [desc |-> desc[f], tags |-> tags[f]]

\* An update is for something, and in hand only for what is left of it; tags are only late
\* while an update is in hand.
UpdateShape ==
    /\ step = "describe" => upd.describe
    /\ step = "tag" => upd.tag
    /\ \A u \in updates : u.describe \/ u.tag
    /\ late => upd # NoUpdate /\ metaDisturbed

\* The updates of the pass that are still to be made, or being made, give a floating IP no
\* name but the one it claims.
OpenUpdates == updates \cup ({upd} \ {NoUpdate})
NamedAsClaimed ==
    \A u \in OpenUpdates, n \in Names : Claims(n, u.fip) => u.name = n

\* The description, the tags of floating IP f are still to be written.
ToDescribe(f) == (\E u \in updates : u.fip = f /\ u.describe) \/ (step = "describe" /\ upd.fip = f)
ToTag(f) == \E u \in OpenUpdates : u.fip = f /\ u.tag

\* While nobody else acts and no update has failed, what is not announced is still to be.
Quiet == ~disturbed /\ ~metaDisturbed /\ ~DryRun
ToldSoon ==
    Quiet /\ metaClean /\ pc \in Applying =>
        \A f \in Live, n \in Names : Claims(n, f) =>
            /\ UpdateDescription => desc[f] = n \/ ToDescribe(f)
            /\ UpdateTags => Rendered(n) \subseteq tags[f] \/ ToTag(f)

Told == ~PerProjectZone => SuccessMeansAnnounced

AnnInv ==
    /\ SyncInv /\ MetaInv /\ UpdateShape /\ ListedNow /\ NamedAsClaimed /\ ToldSoon /\ Told

-----------------------------------------------------------------------------
(* Names *)

\* A name that serves a floating IP is claimed by it.
LEMMA ServesClaims ==
    ASSUME IInv, NEW n \in Names, NEW f \in Fips, Serves(n, f) PROVE Claims(n, f)
<1>1. <<n, "A">> \in Keys /\ <<n, "A">>[1] = n
  BY DEF Keys, Types
<1>2. ManagedView(dns, <<n, "A">>).owner = f
  BY DEF Serves, Desired
<1>3. Owner(dns, n) = f
  BY <1>1, <1>2, ViewParts, FipAssumption DEF IInv, TypeOK
<1>4. \E t \in Types : dns[<<n, t>>].owner = f
  BY <1>1, <1>3, ViewParts, FipAssumption DEF IInv, TypeOK
<1> QED BY <1>4, MarkClaims

\* A plan names a floating IP as it is named.
LEMMA ClaimedName ==
    ASSUME IInv, pc = "listing", unlisted = {}, NEW name \in NameChoices(seen, found),
           NEW f \in Listed(seen), NEW n \in Names, Claims(n, f)
    PROVE  n = name[f]
<1>1. f \in Fips /\ f \in Grouped(found)
  BY ChosenNames DEF NewFips, Listed
<1>2. Claims(name[f], f) /\ name[f] \in Names
  BY <1>1, ChosenNames
<1> QED BY <1>1, <1>2 DEF IInv, ClaimsMatch

LEMMA PlannedName ==
    ASSUME IInv, CanPlan, NEW name \in NameChoices(seen, found), PlanFor(name),
           NEW f \in Listed(seen), NEW n \in Names, Claims(n, f)'
    PROVE  n = name[f]
<1>1. f \in Fips /\ pc = "listing" /\ unlisted = {}
  BY DEF Listed, CanPlan
<1> QED BY <1>1, PlannedClaims, ClaimedName

-----------------------------------------------------------------------------
(* Steps of Reconciler *)

\* How a step other than a listing of floating IPs or a plan moves a pass on.
LEMMA PassStep ==
    ASSUME [Next]_vars, ~MakePlan, ~ListFloatingIps
    PROVE  /\ pc' \in {"zones", "listing"} => pc \in {"zones", "listing"}
           /\ pc' \in Applying => pc \in Applying
           /\ pc \in Applying => pc' \in Applying \cup {"idle"}
           /\ pc = "applying" /\ todo = {} => pc' = "idle" \/ (pc' = "applying" /\ todo' = {})
           /\ disturbed' \/ UNCHANGED <<disturbed, neutron>>
           /\ pc' = "idle" /\ verdict' = "success" =>
                 FinishPass \/ disturbed' \/ UNCHANGED <<pc, verdict, dns, neutron, disturbed>>
<1> USE DEF Applying
<1>1. CASE Worker
  <2>1. CASE ListZones \/ \E z \in Zones : ListZone(z)
    BY <2>1 DEF ListZones, ListZone, EndPass, world
  <2>2. CASE PlanRaises \/ FinishPass
    BY <2>2 DEF PlanRaises, FinishPass, EndPass, world
  <2>3. CASE \E o \in todo : BeginOp(o)
    BY <2>3 DEF BeginOp, Done, world
  <2>4. CASE CreateProjectZone \/ FindRecordset \/ WriteRecordset
    BY <2>4 DEF CreateProjectZone, FindRecordset, WriteRecordset, Done, world
  <2> QED BY <1>1, <2>1, <2>2, <2>3, <2>4 DEF Worker
<1>2. CASE Failures
  BY <1>2 DEF Failures, world, ListFails, BeginFails, RequestFails, AnswerLost, Crash, Done,
     EndPass
<1>3. CASE NeutronActs \/ UserActs
  BY <1>3 DEF NeutronActs, UserActs, Release, Allocate, Readdress, UserDeletes, UserEdits,
     UserCreates, UserDropsZone, Edit, process
<1>4. CASE UNCHANGED vars
  BY <1>4 DEF vars
<1> QED BY <1>1, <1>2, <1>3, <1>4 DEF Next

\* A pass whose metadata is left alone knows of it what it knew.
LEMMA PassOn ==
    ASSUME AnnInv, SyncInv', [Next]_vars, ~MakePlan, ~ListFloatingIps, ~FinishPass,
           UNCHANGED metaVars, pc' # "idle" \/ pc = "idle"
    PROVE  AnnInv'
<1> USE DEF metaVars
<1>1. MetaInv'
  <2>1. MetaTypeOK'
    BY DEF AnnInv, MetaInv, MetaTypeOK
  <2>2. MetaShape'
    BY PassStep DEF AnnInv, MetaInv, MetaShape, Applying, SyncInv, IInv, TypeOK
  <2> QED BY <2>1, <2>2 DEF MetaInv
<1>2. UpdateShape'
  BY DEF AnnInv, UpdateShape
<1>3. ListedNow'
  BY PassStep DEF AnnInv, ListedNow, Live
<1>4. NamedAsClaimed'
  <2> SUFFICES ASSUME NEW u \in OpenUpdates, NEW n \in Names, Claims(n, u.fip)'
               PROVE  u.name = n
    BY DEF NamedAsClaimed, OpenUpdates
  <2>1. u.fip \in Fips
    BY DEF OpenUpdates, Updates, AnnInv, MetaInv, MetaTypeOK
  <2> QED BY <2>1, OldClaims DEF AnnInv, NamedAsClaimed, SyncInv
<1>5. ToldSoon'
  <2> SUFFICES ASSUME Quiet', metaClean', pc' \in Applying, NEW f \in Live', NEW n \in Names,
                      Claims(n, f)'
               PROVE  /\ UpdateDescription => desc[f] = n \/ ToDescribe(f)
                      /\ UpdateTags => Rendered(n) \subseteq tags[f] \/ ToTag(f)
    BY DEF ToldSoon, ToDescribe, ToTag, OpenUpdates
  <2>1. Quiet /\ metaClean /\ pc \in Applying /\ f \in Live /\ f \in Fips
    BY PassStep DEF Quiet, Live
  <2>2. Claims(n, f)
    BY <2>1, OldClaims DEF AnnInv, SyncInv
  <2> QED BY <2>1, <2>2 DEF AnnInv, ToldSoon
<1>6. Told'
  <2> SUFFICES ASSUME ~PerProjectZone, verdict' = "success", metaVerdict = "success",
                      ~disturbed', ~metaDisturbed, ~DryRun
               PROVE  AllAnnounced'
    BY DEF Told, SuccessMeansAnnounced
  <2>1. pc' = "idle"
    BY DEF SyncInv, Knows, HandleShape
  <2>2. UNCHANGED <<verdict, dns, neutron, disturbed>>
    BY <2>1, PassStep
  <2>3. AllAnnounced
    BY <2>2 DEF AnnInv, Told, SuccessMeansAnnounced
  <2> QED BY <2>2, <2>3, ZenonT(30) DEF AllAnnounced, Live, Serves, ManagedView, Owner, Announces
<1> QED BY <1>1, <1>2, <1>3, <1>4, <1>5, <1>6 DEF AnnInv
-----------------------------------------------------------------------------
(* Steps with metadata *)

\* What is true or false stays so.
LEMMA MetaBooleans ==
    ASSUME MetaTypeOK, [MetaNext]_allVars
    PROVE  metaClean' \in BOOLEAN /\ late' \in BOOLEAN /\ metaDisturbed' \in BOOLEAN
<1> USE DEF MetaTypeOK
<1>1. ASSUME NEW ok, UpdateEnds(ok) PROVE metaClean' \in BOOLEAN /\ late' \in BOOLEAN
  BY <1>1, Zenon DEF UpdateEnds
<1>2. ASSUME Forget PROVE metaClean' \in BOOLEAN /\ late' \in BOOLEAN
  BY <1>2, Zenon DEF Forget
<1>3. CASE ListWithMetadata \/ PlanWithMetadata
  BY <1>3, Zenon DEF ListWithMetadata, PlanWithMetadata
<1>4. CASE FinishWithMetadata
  BY <1>2, <1>4, Zenon DEF FinishWithMetadata
<1>5. CASE RecordStep
  BY <1>2, <1>5, Zenon DEF RecordStep, metaPass
<1>6. CASE \E u \in updates : GetIp(u) \/ GetIpFails(u)
  BY <1>1, <1>6, Zenon DEF GetIp, GetIpFails
<1>7. CASE Describe \/ SetTags \/ UpdateFails
  BY <1>1, <1>7, Zenon DEF Describe, SetTags, UpdateFails
<1>8. CASE WorldStep \/ UNCHANGED allVars
  BY <1>8, Zenon DEF WorldStep, allVars, metaVars
<1>9. CASE \E f \in Fips : UserAnnotates(f)
  BY <1>9, Zenon DEF UserAnnotates, metaPass
<1> QED BY <1>3, <1>4, <1>5, <1>6, <1>7, <1>8, <1>9 DEF MetaNext

\* What is typed: the updates and tags by TagsInHandStep, the rest here.
LEMMA MetaTypeStep == ASSUME MetaInv, [MetaNext]_allVars PROVE MetaTypeOK'
<1>1. tags' \in [Fips -> SUBSET Tags] /\ updates' \subseteq Updates
      /\ upd' \in Updates \cup {NoUpdate} /\ got' \subseteq Tags
  <2>1. TagsInHand
    BY DEF MetaInv, MetaTypeOK, MetaShape, TagsInHand
  <2> QED BY <2>1, TagsInHandStep DEF TagsInHand
<1>2. metaClean' \in BOOLEAN /\ late' \in BOOLEAN /\ metaDisturbed' \in BOOLEAN
  BY MetaBooleans DEF MetaInv
<1> SUFFICES /\ desc' \in [Fips -> Names \cup {Plain}]
             /\ listed' \in [Fips -> [desc : Names \cup {Plain}, tags : SUBSET Tags]]
             /\ step' \in {"none", "describe", "tag"} /\ (upd' = NoUpdate <=> step' = "none")
             /\ metaVerdict' \in {"none", "success", "failure"}
             /\ metaFaults' \in Nat /\ metaEdits' \in Nat
  BY <1>1, <1>2 DEF MetaTypeOK
<1> USE DEF MetaInv, MetaTypeOK
<1>3. Described \in [Fips -> Names \cup {Plain}] \/ upd = NoUpdate
  BY DEF Described, Updates
<1>4. NothingListed \in [Fips -> [desc : Names \cup {Plain}, tags : SUBSET Tags]]
  BY DEF NothingListed
<1>5. CASE ListWithMetadata
  BY <1>4, <1>5 DEF ListWithMetadata, metadata, metaBounds
<1>6. CASE PlanWithMetadata
  BY <1>6 DEF PlanWithMetadata, metadata, metaBounds
<1>7. CASE FinishWithMetadata \/ RecordStep
  BY <1>4, <1>7 DEF FinishWithMetadata, RecordStep, Forget, MetaVerdict, metadata, metaBounds,
     metaPass
<1>8. ASSUME NEW u \in updates, GetIp(u) PROVE MetaTypeOK'
  BY <1>1, <1>2, <1>8, NoUpdateAssumption DEF GetIp, UpdateEnds, metadata, metaBounds
<1>9. ASSUME NEW u \in updates, GetIpFails(u) PROVE MetaTypeOK'
  BY <1>1, <1>2, <1>9 DEF GetIpFails, UpdateEnds, MetaFault, metadata
<1>10. CASE Describe \/ SetTags
  BY <1>3, <1>10 DEF Describe, SetTags, UpdateEnds, metaBounds
<1>11. CASE UpdateFails
  BY <1>3, <1>11 DEF UpdateFails, UpdateEnds, MetaFault, metadata
<1>12. CASE WorldStep \/ UNCHANGED allVars
  BY <1>12 DEF WorldStep, allVars, metaVars
<1>13. ASSUME NEW f \in Fips, UserAnnotates(f) PROVE MetaTypeOK'
  BY <1>1, <1>2, <1>13 DEF UserAnnotates, metaPass
<1> QED
  BY <1>5, <1>6, <1>7, <1>8, <1>9, <1>10, <1>11, <1>12, <1>13 DEF MetaNext, MetaTypeOK

\* A pass that ends has no update left.
LEMMA ForgetTells ==
    ASSUME SyncInv', MetaTypeOK', Forget, pc' = "idle", Told' PROVE AnnInv'
<1> USE DEF Forget
<1>1. MetaShape' /\ UpdateShape' /\ NamedAsClaimed'
  BY DEF MetaShape, UpdateShape, NamedAsClaimed, OpenUpdates
<1>2. ListedNow' /\ ToldSoon'
  BY DEF ListedNow, ToldSoon, Applying
<1> QED BY <1>1, <1>2 DEF AnnInv, MetaInv

\* The other steps of a pass over the records.
LEMMA RecordStepTells ==
    ASSUME AnnInv, SyncInv', MetaTypeOK', RecordStep PROVE AnnInv'
<1>1. Next
  BY DEF RecordStep, RecordSteps, Next, Worker
<1>2. /\ ~MakePlan /\ ~ListFloatingIps
      /\ pc' = "idle" => verdict' \in {"raised", "none"}
  <2>1. CASE RecordSteps
    BY <2>1 DEF RecordSteps, ListZones, ListZone, PlanRaises, BeginOp, CreateProjectZone,
       FindRecordset, WriteRecordset, Done, EndPass, MakePlan, CanPlan, PlanFor, ListFloatingIps
  <2>2. CASE Failures
    BY <2>2 DEF Failures, ListFails, BeginFails, RequestFails, AnswerLost, Crash, Done, EndPass,
       MakePlan, CanPlan, PlanFor, ListFloatingIps
  <2> QED BY <2>1, <2>2 DEF RecordStep
<1>3. CASE pc' = "idle"
  BY <1>2, <1>3, ForgetTells DEF RecordStep, Told, SuccessMeansAnnounced
<1>4. CASE pc' # "idle"
  <2>1. UNCHANGED metaVars
    BY <1>4 DEF RecordStep, metaVars, metadata, metaPass, metaBounds
  <2>2. ~FinishPass
    BY <1>4 DEF FinishPass, EndPass
  <2> QED BY <1>1, <1>2, <1>4, <2>1, <2>2, PassOn
<1> QED BY <1>3, <1>4

\* A pass begins with the descriptions and tags of the moment.
LEMMA ListTells ==
    ASSUME AnnInv, SyncInv', MetaTypeOK', ListWithMetadata PROVE AnnInv'
<1> USE DEF ListWithMetadata, metadata
<1>1. pc = "idle" /\ pc' = "zones" /\ updates' = {} /\ upd' = NoUpdate
          /\ ~late' /\ verdict' = "none"
      /\ step' = "none" /\ Live' = Live
  BY DEF AnnInv, MetaInv, MetaShape, MetaTypeOK, UpdateShape, ListFloatingIps, world, Live
<1>2. MetaShape' /\ UpdateShape' /\ NamedAsClaimed' /\ Told'
  BY <1>1 DEF MetaShape, UpdateShape, NamedAsClaimed, OpenUpdates, Told, SuccessMeansAnnounced
<1>3. ListedNow'
  BY <1>1 DEF ListedNow, Live
<1>4. ToldSoon'
  BY <1>1 DEF ToldSoon, Applying
<1> QED BY <1>2, <1>3, <1>4 DEF AnnInv, MetaInv
\* The plan announces what is not announced yet.
LEMMA PlanTells ==
    ASSUME AnnInv, SyncInv', MetaTypeOK', PlanWithMetadata PROVE AnnInv'
<1> USE DEF PlanWithMetadata, metadata
<1>1. PICK name \in NameChoices(seen, found) :
          PlanFor(name) /\ updates' = IF DryRun THEN {} ELSE PlannedUpdates(name)
  OBVIOUS
<1>2. /\ pc = "listing" /\ unlisted = {} /\ pc' = "applying" /\ IInv
      /\ UNCHANGED <<neutron, seen, disturbed, desc, tags, upd, step, late, metaDisturbed>>
  BY <1>1 DEF CanPlan, PlanFor, world, AnnInv, SyncInv
<1>3. upd = NoUpdate /\ step = "none" /\ verdict' = "none" /\ OpenUpdates' = updates'
  BY <1>2 DEF AnnInv, MetaInv, MetaShape, MetaTypeOK, SyncInv, Knows, HandleShape, OpenUpdates
<1>4. MetaShape' /\ UpdateShape' /\ Told' /\ ListedNow'
  BY <1>1, <1>2, <1>3 DEF MetaShape, AnnInv, UpdateShape, PlannedUpdates, Told,
     SuccessMeansAnnounced, ListedNow
<1>5. NamedAsClaimed'
  <2> SUFFICES ASSUME NEW u \in updates', NEW n \in Names, Claims(n, u.fip)'
               PROVE  u.name = n
    BY <1>3 DEF NamedAsClaimed
  <2>1. PICK f \in Listed(seen) : u = UpdateOf(f, name[f])
    BY <1>1 DEF PlannedUpdates
  <2>2. u.fip = f /\ u.name = name[f]
    BY <2>1 DEF UpdateOf
  <2> QED BY <1>1, <1>2, <2>2, PlannedName
<1>6. ToldSoon'
  <2> SUFFICES ASSUME Quiet, NEW f \in Live, NEW n \in Names, Claims(n, f)'
               PROVE  /\ UpdateDescription => desc[f] = n \/ ToDescribe(f)'
                      /\ UpdateTags => Rendered(n) \subseteq tags[f] \/ ToTag(f)'
    BY <1>2 DEF ToldSoon, Quiet, Live
  <2>1. f \in Listed(seen) /\ listed[f] = [desc |-> desc[f], tags |-> tags[f]]
    BY <1>2, ListedLive DEF AnnInv, ListedNow, Quiet
  <2>2. n = name[f]
    BY <1>1, <1>2, <2>1, PlannedName
  <2> DEFINE u == UpdateOf(f, n)
  <2>3. u.describe \/ u.tag => u \in updates'
    BY <1>1, <2>1, <2>2 DEF PlannedUpdates, Quiet
  <2>4. /\ u.fip = f
        /\ UpdateDescription /\ desc[f] # n => u.describe
        /\ UpdateTags /\ ~(Rendered(n) \subseteq tags[f]) => u.tag
    <3>1. listed[f].desc = desc[f] /\ listed[f].tags = tags[f]
      BY <2>1
    <3>2. /\ u.fip = f
          /\ u.describe = (UpdateDescription /\ listed[f].desc # n)
          /\ u.tag = (UpdateTags /\ ~(Rendered(n) \subseteq listed[f].tags))
      BY Zenon DEF UpdateOf
    <3> HIDE DEF u
    <3> QED BY <3>1, <3>2, Zenon
  <2> HIDE DEF u
  <2> QED BY <1>3, <2>3, <2>4 DEF ToDescribe, ToTag
<1> QED BY <1>4, <1>5, <1>6 DEF AnnInv, MetaInv

\* A pass without failures ends when all is served and nothing is left to be announced.
LEMMA FinishTells ==
    ASSUME AnnInv, SyncInv', MetaTypeOK', FinishWithMetadata PROVE AnnInv'
<1> USE DEF FinishWithMetadata
<1>1. pc = "applying" /\ pc' = "idle" /\ UNCHANGED <<neutron, dns, disturbed>>
  BY DEF FinishPass, EndPass, world
<1> SUFFICES ASSUME ~PerProjectZone, verdict' = "success", metaVerdict' = "success",
                    ~disturbed, ~metaDisturbed, ~DryRun
             PROVE  AllAnnounced'
  BY <1>1, ForgetTells DEF Told, SuccessMeansAnnounced
<1>2. metaClean /\ IInv /\ updates = {} /\ upd = NoUpdate /\ step = "none"
  BY DEF MetaVerdict, AnnInv, SyncInv, MetaInv, MetaTypeOK
<1>3. InSync'
  BY <1>1 DEF SyncInv, Agrees, SuccessMeansSync
<1>4. ASSUME NEW f \in Live PROVE \E n \in Names : Serves(n, f) /\ Announces(f, n)
  <2>1. PICK n \in Names : Serves(n, f)
    BY <1>1, <1>3 DEF InSync, Live, Serves, ManagedView, Owner
  <2>2. Claims(n, f)
    BY <1>2, <2>1, ServesClaims DEF Live
  <2>3. ~ToDescribe(f) /\ ~ToTag(f)
    BY <1>2 DEF ToDescribe, ToTag, OpenUpdates
  <2>4. Announces(f, n)
    BY <1>1, <1>2, <2>2, <2>3 DEF AnnInv, ToldSoon, Quiet, Applying, Announces
  <2> QED BY <2>1, <2>4
<1> QED BY <1>1, <1>4, ZenonT(30) DEF AllAnnounced, Live, Serves, ManagedView, Owner,
                                     Announces, metadata
-----------------------------------------------------------------------------
(* Updates *)

\* A step of an update, or the end of one: who was told is told, and whoever is to be told
\* is still to be, unless it failed.
LEMMA UpdateOn ==
    ASSUME AnnInv, MetaTypeOK', UNCHANGED vars, UNCHANGED metaDisturbed,
           updates # {} \/ upd # NoUpdate, pc = "applying", todo = {},
           upd' # NoUpdate => got' = tags'[upd'.fip],
           UpdateShape', OpenUpdates' \subseteq OpenUpdates,
           metaClean' => /\ metaClean
                         /\ \A f \in Live, n \in Names : Claims(n, f) =>
                               /\ desc[f] = n \/ ToDescribe(f) => desc'[f] = n \/ ToDescribe(f)'
                               /\ Rendered(n) \subseteq tags[f] \/ ToTag(f)
                                    => Rendered(n) \subseteq tags'[f] \/ ToTag(f)'
    PROVE  AnnInv'
<1>1. SyncInv'
  BY NextSync DEF AnnInv
<1>2. (\A n \in Names, f \in Fips : Claims(n, f)' <=> Claims(n, f)) /\ Live' = Live
  BY DEF vars, Claims, Live
<1>3. pc' = "applying" /\ todo' = {}
  BY DEF vars
<1>4. MetaShape' /\ ListedNow' /\ Told'
  <2>1. verdict' = "none"
    BY <1>1, <1>3 DEF SyncInv, Knows, HandleShape
  <2> QED BY <1>3, <2>1 DEF MetaShape, ListedNow, Told, SuccessMeansAnnounced
<1>5. NamedAsClaimed'
  BY <1>2 DEF AnnInv, NamedAsClaimed, OpenUpdates, MetaInv, MetaTypeOK, Updates
<1>6. ToldSoon'
  <2> SUFFICES ASSUME Quiet, metaClean', NEW f \in Live, NEW n \in Names, Claims(n, f)
               PROVE  /\ UpdateDescription => desc'[f] = n \/ ToDescribe(f)'
                      /\ UpdateTags => Rendered(n) \subseteq tags'[f] \/ ToTag(f)'
    BY <1>2 DEF ToldSoon, Quiet, vars, Live
  <2> QED BY DEF AnnInv, ToldSoon, Applying
<1> QED BY <1>1, <1>4, <1>5, <1>6 DEF AnnInv, MetaInv

\* An update in hand is made for a floating IP at the name that it claims.
LEMMA InHand ==
    ASSUME AnnInv, upd # NoUpdate
    PROVE  /\ upd \in Updates /\ upd \in OpenUpdates /\ upd.fip \in Fips
           /\ pc = "applying" /\ todo = {} /\ step \in {"describe", "tag"}
           /\ \A n \in Names : Claims(n, upd.fip) => upd.name = n
BY DEF AnnInv, MetaInv, MetaTypeOK, MetaShape, NamedAsClaimed, OpenUpdates, Updates

LEMMA GetIpTells ==
    ASSUME AnnInv, MetaTypeOK', NEW u \in updates, GetIp(u) PROVE AnnInv'
<1> USE DEF GetIp, metadata
<1>1. /\ UNCHANGED vars /\ pc = "applying" /\ todo = {} /\ updates' = updates \ {u}
      /\ UNCHANGED <<desc, tags, metaDisturbed>> /\ u \in Updates /\ upd = NoUpdate
      /\ step = "none"
  BY DEF RecordsTried, AnnInv, MetaInv, MetaTypeOK
<1>2. CASE u.fip \in Live
  <2>1. /\ upd' = u /\ got' = tags[u.fip] /\ ~late' /\ UNCHANGED metaClean
        /\ step' = IF u.describe THEN "describe" ELSE "tag"
    BY <1>2
  <2>2. UpdateShape' /\ OpenUpdates' \subseteq OpenUpdates
    BY <1>1, <2>1 DEF AnnInv, UpdateShape, OpenUpdates
  <2>3. \A f : (ToDescribe(f) => ToDescribe(f)') /\ (ToTag(f) => ToTag(f)')
    BY <1>1, <2>1, NoUpdateAssumption DEF ToDescribe, ToTag, OpenUpdates
  <2> QED BY <1>1, <2>1, <2>2, <2>3, UpdateOn
<1>3. CASE u.fip \notin Live
  <2>1. upd' = NoUpdate /\ step' = "none" /\ ~late' /\ ~metaClean'
    BY <1>3 DEF UpdateEnds
  <2>2. UpdateShape' /\ OpenUpdates' \subseteq OpenUpdates
    BY <1>1, <2>1 DEF AnnInv, UpdateShape, OpenUpdates
  <2> QED BY <1>1, <2>1, <2>2, UpdateOn
<1> QED BY <1>2, <1>3

\* An update that fails is counted.
LEMMA FailureTells ==
    ASSUME AnnInv, MetaTypeOK', (\E u \in updates : GetIpFails(u)) \/ UpdateFails PROVE AnnInv'
<1>1. /\ UNCHANGED vars /\ UNCHANGED metaDisturbed /\ updates' \subseteq updates
      /\ updates # {} \/ upd # NoUpdate
      /\ upd' = NoUpdate /\ step' = "none" /\ ~late' /\ ~metaClean'
  BY DEF GetIpFails, UpdateFails, UpdateEnds
<1>2. pc = "applying" /\ todo = {}
  BY InHand DEF GetIpFails, UpdateFails, RecordsTried
<1>3. UpdateShape' /\ OpenUpdates' \subseteq OpenUpdates
  BY <1>1 DEF AnnInv, UpdateShape, OpenUpdates
<1> QED BY <1>1, <1>2, <1>3, UpdateOn

\* A description is written before the tags are, and stays while they are.
LEMMA DescribeTells ==
    ASSUME AnnInv, MetaTypeOK', Describe PROVE AnnInv'
<1>1. /\ upd # NoUpdate /\ step = "describe" /\ UNCHANGED <<vars, tags, updates, metaDisturbed>>
      /\ ~late' /\ desc' = Described
  BY DEF Describe, UpdateEnds
<1>2. CASE upd.fip \in Live
  <2>1. /\ \/ upd.tag /\ UNCHANGED upd /\ got' = tags[upd.fip] /\ step' = "tag"
           \/ ~upd.tag /\ upd' = NoUpdate /\ step' = "none"
        /\ metaClean' => metaClean
    BY <1>2 DEF Describe, UpdateEnds
  <2>2. UpdateShape' /\ OpenUpdates' \subseteq OpenUpdates
    BY <1>1, <2>1 DEF AnnInv, UpdateShape, OpenUpdates
  <2>3. ASSUME NEW f \in Live, NEW n \in Names, Claims(n, f), desc[f] = n \/ ToDescribe(f)
        PROVE  desc'[f] = n \/ ToDescribe(f)'
    <3>1. f \in Fips /\ desc \in [Fips -> Names \cup {Plain}]
      BY DEF Live, AnnInv, MetaInv, MetaTypeOK
    <3>2. desc' = [desc EXCEPT ![upd.fip] = upd.name]
      BY <1>1, <1>2 DEF Described
    <3>3. CASE upd.fip = f
      <4>1. upd.name = n
        BY <1>1, <2>3, <3>3, InHand
      <4> QED BY <3>1, <3>2, <3>3, <4>1
    <3>4. CASE upd.fip # f
      BY <1>1, <2>3, <3>1, <3>2, <3>4 DEF ToDescribe
    <3> QED BY <3>3, <3>4
  <2>4. ASSUME NEW f \in Live, ToTag(f) PROVE ToTag(f)'
    <3>1. PICK u \in OpenUpdates : u.fip = f /\ u.tag
      BY <2>4 DEF ToTag
    <3>2. u \in OpenUpdates'
      BY <1>1, <2>1, <3>1 DEF OpenUpdates
    <3> QED BY <3>1, <3>2 DEF ToTag
  <2> QED BY <1>1, <2>1, <2>2, <2>3, <2>4, InHand, UpdateOn
<1>3. CASE upd.fip \notin Live
  <2>1. upd' = NoUpdate /\ step' = "none" /\ ~metaClean'
    BY <1>1, <1>3 DEF Describe, UpdateEnds
  <2>2. UpdateShape' /\ OpenUpdates' \subseteq OpenUpdates
    BY <1>1, <2>1 DEF AnnInv, UpdateShape, OpenUpdates
  <2> QED BY <1>1, <2>1, <2>2, InHand, UpdateOn
<1> QED BY <1>2, <1>3

\* The tags written tell the name that the floating IP claims, and those of others stay.
LEMMA SetTagsTells ==
    ASSUME AnnInv, MetaTypeOK', SetTags PROVE AnnInv'
<1>1. /\ upd # NoUpdate /\ step = "tag" /\ UNCHANGED <<vars, desc, updates, metaDisturbed>>
      /\ upd' = NoUpdate /\ step' = "none" /\ ~late' /\ tags' = Tagged
      /\ metaClean' => metaClean /\ upd.fip \in Live
  BY DEF SetTags, UpdateEnds
<1>2. UpdateShape' /\ OpenUpdates' = updates /\ OpenUpdates' \subseteq OpenUpdates
  BY <1>1 DEF AnnInv, UpdateShape, OpenUpdates
<1>3. ASSUME NEW f \in Live, ToDescribe(f) PROVE ToDescribe(f)'
  BY <1>1, <1>3 DEF ToDescribe
<1>4. ASSUME upd.fip \in Live, NEW f \in Live, NEW n \in Names, Claims(n, f),
             Rendered(n) \subseteq tags[f] \/ ToTag(f)
      PROVE  Rendered(n) \subseteq tags'[f] \/ ToTag(f)'
  <2>1. f \in Fips /\ tags \in [Fips -> SUBSET Tags]
    BY DEF Live, AnnInv, MetaInv, MetaTypeOK
  <2>2. tags' = [tags EXCEPT ![upd.fip] = got \cup Rendered(upd.name)]
    BY <1>1, <1>4 DEF Tagged
  <2>3. CASE upd.fip = f
    <3>1. upd.name = n
      BY <1>1, <1>4, <2>3, InHand
    <3>2. tags'[f] = got \cup Rendered(upd.name)
      BY <2>1, <2>2, <2>3
    <3> QED BY <3>1, <3>2
  <2>4. CASE upd.fip # f
    <3>1. tags'[f] = tags[f]
      BY <2>1, <2>2, <2>4
    <3>2. ASSUME ToTag(f) PROVE ToTag(f)'
      BY <1>2, <2>4, <3>2 DEF ToTag, OpenUpdates
    <3> QED BY <1>4, <3>1, <3>2
  <2> QED BY <2>3, <2>4
<1> QED BY <1>1, <1>2, <1>3, <1>4, InHand, UpdateOn

\* What others write is seen in the next listing.
LEMMA AnnotationTells ==
    ASSUME AnnInv, MetaTypeOK', NEW f \in Fips, UserAnnotates(f) PROVE AnnInv'
<1>1. /\ UNCHANGED <<vars, metaPass>> /\ metaDisturbed' = TRUE
      /\ late' => late \/ upd # NoUpdate
      /\ ~late' => ~late /\ (upd # NoUpdate => tags'[upd.fip] = tags[upd.fip])
  <2>1. \/ tags' = tags /\ late' = late
        \/ late' = (late \/ (upd # NoUpdate /\ upd.fip = f))
    BY DEF UserAnnotates
  <2>2. \A g \in Fips : g # f => tags'[g] = tags[g]
    BY DEF UserAnnotates, AnnInv, MetaInv, MetaTypeOK
  <2>3. upd # NoUpdate => upd.fip \in Fips
    BY InHand
  <2>4. UNCHANGED <<vars, metaPass>> /\ metaDisturbed' = TRUE
    BY DEF UserAnnotates
  <2>5. (late' => late \/ upd # NoUpdate) /\ (~late' => ~late)
    <3>1. late \in BOOLEAN /\ late' \in BOOLEAN
      BY DEF AnnInv, MetaInv, MetaTypeOK
    <3>2. CASE late' = late
      BY <3>1, <3>2
    <3>3. CASE late' = (late \/ (upd # NoUpdate /\ upd.fip = f))
      BY <3>3
    <3> QED BY <2>1, <3>2, <3>3
  <2>6. ~late' /\ upd # NoUpdate => tags' = tags \/ upd.fip # f
    BY <2>1, Zenon
  <2> QED BY <2>2, <2>3, <2>4, <2>5, <2>6
<1> USE <1>1 DEF metaPass
<1>2. SyncInv'
  BY NextSync DEF AnnInv
<1>3. MetaShape' /\ UpdateShape'
  BY DEF AnnInv, MetaInv, MetaShape, UpdateShape, vars
<1>4. NamedAsClaimed'
  BY DEF AnnInv, NamedAsClaimed, OpenUpdates, Claims, vars
<1>5. ListedNow' /\ ToldSoon' /\ Told'
  BY DEF ListedNow, ToldSoon, Quiet, Told, SuccessMeansAnnounced
<1> QED BY <1>2, <1>3, <1>4, <1>5 DEF AnnInv, MetaInv

-----------------------------------------------------------------------------
(* The invariant *)

\* Before the first pass nothing is announced and nothing is to be.
THEOREM InitAnn == MetaInit => AnnInv
<1> SUFFICES ASSUME MetaInit PROVE AnnInv
  OBVIOUS
<1>1. SyncInv
  BY InitSync DEF MetaInit
<1>2. MetaTypeOK
  BY DEF MetaInit, MetaTypeOK, NothingListed
<1>3. pc = "idle" /\ verdict = "none"
  BY DEF MetaInit, Init
<1> QED BY <1>1, <1>2, <1>3 DEF MetaInit, AnnInv, MetaInv, MetaShape, UpdateShape, ListedNow,
           NamedAsClaimed, OpenUpdates, ToldSoon, Applying, Told, SuccessMeansAnnounced

\* Every step keeps AnnInv: no pass reports success over a name it has not announced.
THEOREM NextAnn == AnnInv /\ [MetaNext]_allVars => AnnInv'
<1> SUFFICES ASSUME AnnInv, [MetaNext]_allVars PROVE AnnInv'
  OBVIOUS
<1>1. MetaTypeOK'
  BY MetaTypeStep DEF AnnInv
<1>2. SyncInv'
  BY RecordsView, NextSync DEF AnnInv, allVars
<1>3. CASE ListWithMetadata
  BY <1>1, <1>2, <1>3, ListTells
<1>4. CASE PlanWithMetadata
  BY <1>1, <1>2, <1>4, PlanTells
<1>5. CASE FinishWithMetadata
  BY <1>1, <1>2, <1>5, FinishTells
<1>6. CASE RecordStep
  BY <1>1, <1>2, <1>6, RecordStepTells
<1>7. CASE (\E u \in updates : GetIp(u) \/ GetIpFails(u)) \/ UpdateFails
  BY <1>1, <1>7, GetIpTells, FailureTells
<1>8. CASE Describe \/ SetTags
  BY <1>1, <1>8, DescribeTells, SetTagsTells
<1>9. CASE WorldStep
  <2>1. UNCHANGED metaVars /\ Next /\ UNCHANGED pc /\ (disturbed' = TRUE)
    BY <1>9 DEF WorldStep, Next, NeutronActs, UserActs, Release, Allocate, Readdress,
       UserDeletes, UserEdits, UserCreates, UserDropsZone, Edit, process
  <2>2. ~MakePlan /\ ~ListFloatingIps /\ ~FinishPass
    BY <2>1 DEF MakePlan, CanPlan, PlanFor, ListFloatingIps, FinishPass, EndPass
  <2> QED BY <1>2, <2>1, <2>2, PassOn
<1>10. CASE UNCHANGED allVars
  <2>1. UNCHANGED <<vars, metaVars>>
    BY <1>10 DEF allVars
  <2>2. ~MakePlan /\ ~ListFloatingIps /\ ~FinishPass /\ UNCHANGED pc
    BY <2>1 DEF MakePlan, CanPlan, PlanFor, ListFloatingIps, FinishPass, EndPass, vars
  <2> QED BY <1>2, <2>1, <2>2, PassOn
<1>11. CASE \E f \in Fips : UserAnnotates(f)
  BY <1>1, <1>11, AnnotationTells
<1> QED BY <1>3, <1>4, <1>5, <1>6, <1>7, <1>8, <1>9, <1>10, <1>11 DEF MetaNext

\* Metadata is typed and only written in the last part of a pass, from tags as Neutron has
\* them or as somebody has changed them since.
THEOREM MetaInductive == MetaSpec => []MetaInv
<1>1. AnnInv => MetaInv
  BY DEF AnnInv
<1> QED BY <1>1, InitAnn, NextAnn, PTL DEF MetaSpec

\* Outside per_project_zone a pass that reports success while nobody else acts has announced,
\* for every floating IP, the name that serves it.
THEOREM SuccessAnnounced == ASSUME ~PerProjectZone PROVE MetaSpec => []SuccessMeansAnnounced
<1>1. AnnInv => SuccessMeansAnnounced
  BY DEF AnnInv, Told
<1> QED BY <1>1, InitAnn, NextAnn, PTL DEF MetaSpec

\* Announcing is idempotent, under either zone strategy: names that are announced are not
\* written again.
THEOREM AnnouncedOnce == MetaSpec => NothingToAnnounce
<1>1. AnnInv /\ [MetaNext]_allVars =>
        [PlanWithMetadata /\ InSync /\ AllAnnounced /\ ~disturbed /\ ~metaDisturbed
           => updates' = {}]_allVars
  <2> SUFFICES ASSUME AnnInv, PlanWithMetadata, AllAnnounced, ~disturbed, ~metaDisturbed
               PROVE  updates' = {}
    OBVIOUS
  <2>1. PICK name \in NameChoices(seen, found) :
            updates' = IF DryRun THEN {} ELSE PlannedUpdates(name)
    BY DEF PlanWithMetadata
  <2>2. pc = "listing" /\ unlisted = {} /\ IInv
    BY DEF PlanWithMetadata, CanPlan, AnnInv, SyncInv
  <2>3. ASSUME NEW f \in Listed(seen)
        PROVE  ~UpdateOf(f, name[f]).describe /\ ~UpdateOf(f, name[f]).tag
    <3>1. f \in Live /\ f \in Fips /\ listed[f] = [desc |-> desc[f], tags |-> tags[f]]
      BY <2>2, ListedLive DEF AnnInv, ListedNow, Live
    <3>2. PICK n \in Names : Serves(n, f) /\ Announces(f, n)
      BY <3>1 DEF AllAnnounced
    <3>3. n = name[f]
      BY <2>2, <3>1, <3>2, ServesClaims, ClaimedName
    <3>4. /\ UpdateDescription => listed[f].desc = n
          /\ UpdateTags => Rendered(n) \subseteq listed[f].tags
      BY <3>1, <3>2 DEF Announces
    <3> QED BY <3>3, <3>4, Zenon DEF UpdateOf
  <2> QED BY <2>1, <2>3 DEF PlannedUpdates
<1>2. MetaSpec => [][MetaNext]_allVars
  BY DEF MetaSpec
<1> QED BY <1>1, <1>2, InitAnn, NextAnn, PTL DEF NothingToAnnounce, MetaSpec
=============================================================================
