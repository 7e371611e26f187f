---------------------------- MODULE MetadataProps ----------------------------
(* What FloatingIpMetadata must satisfy. *)
EXTENDS FloatingIpMetadata, ReconcilerProps

\* Every variable has its type.
MetaTypeOK ==
    /\ desc \in [Fips -> Names \cup {Plain}] /\ tags \in [Fips -> SUBSET Tags]
    /\ listed \in [Fips -> [desc : Names \cup {Plain}, tags : SUBSET Tags]]
    /\ updates \subseteq Updates /\ upd \in Updates \cup {NoUpdate}
    /\ step \in {"none", "describe", "tag"} /\ (upd = NoUpdate <=> step = "none")
    /\ got \subseteq Tags /\ metaClean \in BOOLEAN /\ late \in BOOLEAN
    /\ metaVerdict \in {"none", "success", "failure"} /\ metaDisturbed \in BOOLEAN
    /\ metaFaults \in Nat /\ metaEdits \in Nat

\* Metadata is only written in the last part of a pass, when no record operation is left,
\* and what is in hand is what Neutron has, unless somebody wrote it in between.
MetaShape ==
    /\ updates # {} \/ upd # NoUpdate => pc \notin {"idle", "zones", "listing"}
    /\ upd # NoUpdate => pc = "applying" /\ todo = {}
    /\ upd # NoUpdate /\ ~late => got = tags[upd.fip]
MetaInv == MetaTypeOK /\ MetaShape

\* Name n is what Neutron shows for floating IP f.
Announces(f, n) ==
    /\ UpdateDescription => desc[f] = n
    /\ UpdateTags => Rendered(n) \subseteq tags[f]
AllAnnounced == \A f \in Live : \E n \in Names : Serves(n, f) /\ Announces(f, n)

\* A pass that reports success while nobody else acted has announced, for every floating
\* IP, the very name that serves it: never that of a record whose write failed.
SuccessMeansAnnounced ==
    /\ verdict = "success" /\ metaVerdict = "success"
    /\ ~disturbed /\ ~metaDisturbed /\ ~DryRun
    => AllAnnounced

\* The program takes no tag away, though it writes all of them back at once: only those
\* that others set between an update's read of them and its write can be lost.
TagsKept ==
    [][\/ late \/ \E f \in Fips : UserAnnotates(f)
       \/ \A f \in Fips : tags[f] \subseteq tags'[f]]_allVars

\* When all names are announced, and nobody acts, a pass has nothing to announce again.
NothingToAnnounce ==
    [][PlanWithMetadata /\ InSync /\ AllAnnounced /\ ~disturbed /\ ~metaDisturbed
          => updates' = {}]_allVars

\* Once the faults and the other users have stopped every live floating IP shows the name
\* that serves it: an update that failed, or that came before its record, is made again.
AnnouncementsConverge == <>[]AllAnnounced
=============================================================================
