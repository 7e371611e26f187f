-------------------------- MODULE FloatingIpMetadata --------------------------
(***************************************************************************)
(* The reconciler with metadata updates: after the records of a pass have  *)
(* been applied, and whether or not they could be, the name of each        *)
(* floating IP is written to its Neutron description and tags.  An update  *)
(* reads the floating IP, writes the description and replaces the tags,    *)
(* each in a request of its own; others may write the same fields.         *)
(*                                                                         *)
(* With the default templates a description stands for a name, and the     *)
(* tags are one that tells the random label and two that do not depend on  *)
(* it, here one.                                                           *)
(***************************************************************************)
EXTENDS Reconciler

CONSTANTS
    UpdateDescription, UpdateTags,   \* neutron_metadata.update_description, update_tags
    Plain,           \* any description that the program did not write, or none
    AutoTag,         \* the tags auto-dns and dns-project
    UserTag,         \* a tag that somebody else sets
    NoUpdate,        \* no update in hand
    MaxMetaFaults, MaxMetaEdits    \* bounds: failed updates; edits of other users

Tags == Labels \cup {AutoTag, UserTag}
Updates == [fip : Fips, name : Names, describe : BOOLEAN, tag : BOOLEAN]

ASSUME SwitchesAssumption == {UpdateDescription, UpdateTags} \subseteq BOOLEAN
ASSUME NoUpdateAssumption == NoUpdate \notin Updates

VARIABLES
    desc, tags,      \* the description and the tags of each floating IP
    listed,          \* listed[f]: description and tags in floating_ips of this pass
    updates,         \* floating_ip_metadata_updates not begun
    upd, step,       \* the update in hand, and its next request
    got,             \* the tags of the resource in hand
    metaClean,       \* no metadata update has failed so far
    metaVerdict,     \* how the metadata updates of the last pass ended
    late,            \* history: others wrote the tags since they were read into got
    metaDisturbed,   \* history: others wrote metadata since this pass began
    metaFaults, metaEdits

metadata == <<desc, tags>>
metaPass == <<listed, updates, upd, step, got, metaClean>>
metaBounds == <<metaFaults, metaEdits>>
metaVars == <<desc, tags, listed, updates, upd, step, got, metaClean, metaVerdict, late,
              metaDisturbed, metaFaults, metaEdits>>
allVars == <<vars, metaVars>>

NothingListed == [f \in Fips |-> [desc |-> Plain, tags |-> {}]]

MetaInit ==
    /\ Init
    /\ desc = [f \in Fips |-> Plain] /\ tags = [f \in Fips |-> {}]
    /\ listed = NothingListed /\ updates = {} /\ upd = NoUpdate /\ step = "none"
    /\ got = {} /\ metaClean = TRUE /\ metaVerdict = "none" /\ late = FALSE
    /\ metaDisturbed = FALSE /\ metaFaults = 0 /\ metaEdits = 0

-----------------------------------------------------------------------------
(* Planning *)

Label(n) == n[1]
Rendered(n) == {Label(n), AutoTag}

\* Variant with a bug: the description is taken as read.
UpdateOf_Always(f, n) ==
    [fip |-> f, name |-> n, describe |-> UpdateDescription, tag |-> UpdateTags]
\* _metadata_update_for, from the floating IP as it was listed.
UpdateOf(f, n) ==
    [fip |-> f, name |-> n,
     describe |-> UpdateDescription /\ listed[f].desc # n,
     tag |-> UpdateTags /\ ~(Rendered(n) \subseteq listed[f].tags)]

\* Variant with a bug: only new floating IPs are announced.
PlannedUpdates_New(name) ==
    {u \in {UpdateOf(f, name[f]) : f \in NewFips(seen, found)} : u.describe \/ u.tag}
PlannedUpdates(name) ==
    {u \in {UpdateOf(f, name[f]) : f \in Listed(seen)} : u.describe \/ u.tag}

ListWithMetadata ==
    /\ ListFloatingIps
    /\ listed' = [f \in Fips |-> IF f \in Live THEN [desc |-> desc[f], tags |-> tags[f]]
                                               ELSE NothingListed[f]]
    /\ metaDisturbed' = FALSE /\ metaVerdict' = "none"
    /\ UNCHANGED <<metadata, updates, upd, step, got, metaClean, late, metaBounds>>

PlanWithMetadata ==
    /\ CanPlan
    /\ \E name \in NameChoices(seen, found) :
          /\ PlanFor(name)
          /\ updates' = IF DryRun THEN {} ELSE PlannedUpdates(name)
    /\ UNCHANGED <<metadata, listed, upd, step, got, metaClean, metaVerdict, late,
                   metaDisturbed, metaBounds>>

-----------------------------------------------------------------------------
(* Applying: _apply_metadata_updates, once all records were tried *)

\* Variant with a bug: metadata is written while records are.
RecordsTried_Any == pc = "applying"
RecordsTried == pc = "applying" /\ todo = {}

\* The update in hand ends; _apply_metadata_updates catches and counts a failure.
UpdateEnds(ok) ==
    /\ upd' = NoUpdate /\ step' = "none" /\ got' = {} /\ late' = FALSE
    /\ metaClean' = (metaClean /\ ok)

\* get_ip: not found, or the resource with its tags.
GetIp(u) ==
    /\ RecordsTried /\ upd = NoUpdate /\ u \in updates
    /\ updates' = updates \ {u}
    /\ IF u.fip \in Live
       THEN /\ upd' = u /\ got' = tags[u.fip] /\ late' = FALSE
            /\ step' = IF u.describe THEN "describe" ELSE "tag"
            /\ UNCHANGED metaClean
       ELSE UpdateEnds(FALSE)
    /\ UNCHANGED <<vars, metadata, listed, metaVerdict, metaDisturbed, metaBounds>>

\* The description of a floating IP that is still there is written.
Described == IF upd.fip \in Live THEN [desc EXCEPT ![upd.fip] = upd.name] ELSE desc

\* update_ip: the resource it returns takes the place of the one that was read.
Describe ==
    /\ upd # NoUpdate /\ step = "describe"
    /\ desc' = Described
    /\ IF upd.fip \in Live /\ upd.tag
       THEN got' = tags[upd.fip] /\ late' = FALSE /\ step' = "tag" /\ UNCHANGED <<upd, metaClean>>
       ELSE UpdateEnds(upd.fip \in Live)
    /\ UNCHANGED <<vars, tags, listed, updates, metaVerdict, metaDisturbed, metaBounds>>

\* Variant with a bug: the tags are merged with those of the listing.
Tagged_Listed ==
    IF upd.fip \in Live
    THEN [tags EXCEPT ![upd.fip] = listed[upd.fip].tags \cup Rendered(upd.name)] ELSE tags
Tagged ==
    IF upd.fip \in Live THEN [tags EXCEPT ![upd.fip] = got \cup Rendered(upd.name)] ELSE tags

\* set_tags replaces all the tags.
SetTags ==
    /\ upd # NoUpdate /\ step = "tag"
    /\ tags' = Tagged
    /\ UpdateEnds(upd.fip \in Live)
    /\ UNCHANGED <<vars, desc, listed, updates, metaVerdict, metaDisturbed, metaBounds>>

MetaFault == metaFaults < MaxMetaFaults /\ metaFaults' = metaFaults + 1

\* get_ip fails.
GetIpFails(u) ==
    /\ RecordsTried /\ upd = NoUpdate /\ u \in updates
    /\ updates' = updates \ {u} /\ UpdateEnds(FALSE) /\ MetaFault
    /\ UNCHANGED <<vars, metadata, listed, metaVerdict, metaDisturbed, metaEdits>>

\* update_ip or set_tags fails, and Neutron has executed it or not.
UpdateFails ==
    /\ upd # NoUpdate
    /\ \/ UNCHANGED metadata
       \/ step = "describe" /\ desc' = Described /\ UNCHANGED tags
       \/ step = "tag" /\ tags' = Tagged /\ UNCHANGED desc
    /\ UpdateEnds(FALSE) /\ MetaFault
    /\ UNCHANGED <<vars, listed, updates, metaVerdict, metaDisturbed, metaEdits>>

\* Variant with a bug: failed metadata updates do not count.
MetaVerdict_Ignored == "success"
MetaVerdict == IF metaClean THEN "success" ELSE "failure"

\* Nothing of the pass survives but the verdict.
Forget ==
    /\ listed' = NothingListed /\ updates' = {} /\ upd' = NoUpdate /\ step' = "none"
    /\ got' = {} /\ metaClean' = TRUE /\ late' = FALSE

FinishWithMetadata ==
    /\ FinishPass /\ updates = {} /\ upd = NoUpdate
    /\ metaVerdict' = MetaVerdict
    /\ Forget
    /\ UNCHANGED <<metadata, metaDisturbed, metaBounds>>

-----------------------------------------------------------------------------
(* The other steps of Reconciler *)

RecordSteps ==
    \/ ListZones \/ (\E z \in Zones : ListZone(z)) \/ PlanRaises
    \/ (\E o \in todo : BeginOp(o))
    \/ CreateProjectZone \/ FindRecordset \/ WriteRecordset

\* Steps that leave metadata alone, but a pass that ends early forgets its updates.
RecordStep ==
    /\ RecordSteps \/ Failures
    /\ IF pc' = "idle" THEN Forget ELSE UNCHANGED <<metaPass, late>>
    /\ UNCHANGED <<metadata, metaVerdict, metaDisturbed, metaBounds>>

WorldStep == (NeutronActs \/ UserActs) /\ UNCHANGED metaVars

\* Other users write the description, set a tag or take one away.
UserAnnotates(f) ==
    /\ f \in Live
    /\ \/ desc' = [desc EXCEPT ![f] = Plain] /\ UNCHANGED <<tags, late>>
       \/ /\ \/ tags' = [tags EXCEPT ![f] = @ \cup {UserTag}]
             \/ \E t \in tags[f] : tags' = [tags EXCEPT ![f] = @ \ {t}]
          /\ late' = (late \/ (upd # NoUpdate /\ upd.fip = f))
          /\ UNCHANGED desc
    /\ metaDisturbed' = TRUE
    /\ metaEdits < MaxMetaEdits /\ metaEdits' = metaEdits + 1
    /\ UNCHANGED <<vars, metaPass, metaVerdict, metaFaults>>

-----------------------------------------------------------------------------
MetaWorker ==
    \/ ListWithMetadata \/ PlanWithMetadata \/ FinishWithMetadata
    \/ (RecordSteps /\ RecordStep)
    \/ (\E u \in updates : GetIp(u)) \/ Describe \/ SetTags

MetaNext ==
    \/ ListWithMetadata \/ PlanWithMetadata \/ FinishWithMetadata \/ RecordStep
    \/ (\E u \in updates : GetIp(u) \/ GetIpFails(u)) \/ Describe \/ SetTags \/ UpdateFails
    \/ WorldStep \/ \E f \in Fips : UserAnnotates(f)

MetaSpec == MetaInit /\ [][MetaNext]_allVars

\* The worker runs on and requests are answered once faults have stopped.
MetaFairSpec == MetaSpec /\ WF_allVars(MetaWorker)
=============================================================================
