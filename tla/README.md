# A TLA+ model of openstack-fip-dns-reconciler

The program polls Neutron for floating IPs and keeps, for each of them, one
generated DNS name in Designate: an `A` recordset with the address and a `TXT`
recordset with an ownership marker. It stores nothing of its own. Everything it
knows about earlier passes it reads back from the markers, so its correctness is
about what survives between two passes: a name half written, a list that is old
by the time it is used, a write whose answer was lost, a record that somebody
edited. That is what this project models, checks and proves.

Paths below are relative to `src/src/openstack_fip_dns_reconciler/`.

## Inventory

| Component | State it keeps | Operations | What makes it correct |
| --- | --- | --- | --- |
| Worker loop (`endpoints/worker.py`, `endpoints/cli.py`) | stop event | run a pass, wait, stop on a signal | a failed pass is followed by another; a stop request ends the loop |
| Reconciliation service (`application/services/reconciliation_service.py`) | none between passes; lists, plan and error count within one | list, plan, apply creates, updates, deletes, metadata | success means agreement; a failure in one record does not stop the others |
| Planner (`domain/services/reconciliation_planner.py`) | none (pure, but draws random labels) | group records by floating IP, draw names, plan | one name per floating IP and one floating IP per name; only stale records are deleted; idempotent |
| Designate adapter (`infrastructure/openstack/designate_dns_record_repository.py`) | none | list managed records; find or create a zone; find, create, update, delete a recordset | records nobody marked are left alone; records are in a zone of their project |
| Neutron adapters (`infrastructure/openstack/neutron_*.py`) | none | list floating IPs; write description and tags | a listing is complete or fails; other users' tags are kept |
| Names and labels (`domain/services/*label*`, `fqdn_builder.py`, `domain/models/dns_name.py`) | none | sanitise, shorten, detect collisions, draw, build an FQDN | labels are valid; two projects never share one unnoticed |
| Ownership (`domain/services/ownership_parser.py`, `domain/models/record_ownership.py`) | none | write and parse the marker | what is written is recognised again |
| Settings (`config/settings.py`) | configuration | validate | what differs in behaviour is a constant of the modules |
| Loader, logging, Keystone repository, connection factory, ports | none | load a file, open a connection | not modelled (see below) |

The components meet in one thread: `run_forever` calls `reconcile_once`, which
calls the Neutron adapter once, the Designate adapter once for a listing of
several requests, the planner, and then the Designate adapter once for each
planned recordset (three to four requests each) and the Neutron metadata adapter
once for each floating IP that does not show its name. The concurrency is with the
world: Neutron allocates and releases floating IPs at any time, tenants and
operators edit Designate at any time, requests fail with or without having been
executed, systemd restarts the process, signals interrupt it, and nothing keeps a
second process from doing the same work. Nothing is locked and nothing is
written in a transaction. The hard behaviours are listed as hazards in
`PROJECT.json`, each at its line.

## Modules

| Module | Models |
| --- | --- |
| `DnsRecords` | floating IPs, names, zones, recordsets, the two places of the ownership marker, the adapter's view of what is managed |
| `ReconciliationPlanner` | `ReconciliationPlanner.plan` as operators from two listings to a set of operations, the draws of names, and when it raises |
| `Reconciler` | the pass as a state machine, request by request, with failures, crashes, Neutron and other users of Designate |
| `NameLease` | the abstract specification: names are leased to floating IPs |
| `ReconcilerProps` | type invariant, properties, the refinement mapping, the inductive invariant |
| `FloatingIpMetadata`, `MetadataProps` | `Reconciler` with the metadata part of the plan and of the pass, other writers of descriptions and tags, and what must hold of them |
| `OverlappingPasses` | two instances of `Reconciler` on one Neutron and one Designate, and a write that is executed after its client gave it up |
| `ReconcilerWorker`, `WorkerProps` | `main`, the polling loop, the stop event with its lock and waiter, signal handlers; its properties and inductive invariant |
| `ProjectIdLabel`, `DnsNames`, `OwnershipMarker` | labels, domain names and zones, and the marker with `shlex`, as operators on sequences of characters |
| `NamesAndMarkers` | the properties of these three over all pairs of short strings |
| `MC*` | constants for TLC |
| `ReconcilerProofs`, `SyncProofs` | theorems about `Reconciler`: safety, the refinement and zones; success and idempotency |
| `MetadataProofs`, `OverlapProofs`, `WorkerProofs` | theorems about `FloatingIpMetadata`, `OverlappingPasses`, `ReconcilerWorker` |
| `NamesProofs`, `MarkerProofs`, `FoldLemmas` | theorems about strings: labels, names and zones; markers; folds and induction over a sequence |

Definitions named like `UsedNames_None` stand before the definition they vary:
each is that definition with a bug in it, and shows which property notices.

### State and actions of `Reconciler`

`neutron`, `zone` and `dns` are the world. The rest are the local variables of
`reconcile_once` and of the adapter calls it makes, and die with the pass:
`seen` (`floating_ips`), `unlisted` and `found` (the listing of managed records
zone by zone), `todo` (the plan), `cur` and `handle` (the record in hand and the
recordset found for it), `clean` (`error_count = 0`). `pc` names the request made
next:

    idle --ListFloatingIps--> zones --ListZones--> listing --ListZone*, MakePlan--> applying
    applying --BeginOp--> finding | zoning --CreateProjectZone--> finding
    finding --FindRecordset--> writing --WriteRecordset--> applying --FinishPass--> idle

Each action is one request with the code up to the next one. `BeginOp` is the
zone listing at the head of `create_record`, `update_record` and
`delete_record`; it also has their "zone not found" error. `FindRecordset` ends
a delete that finds nothing. `WriteRecordset` is a POST, PUT or DELETE;
`Accepted` says when Designate does what it is told. The order is the code's:
creates, updates, deletes; a floating IP's `A` right before its `TXT`; the order
of floating IPs is Neutron's, so any. A plan that raises, a failed listing and
the end of the plan end the pass (`EndPass`), and the loop begins another.

`verdict` is the outcome of the last pass; `disturbed` is a history variable:
something other than the process acted since the pass began.

### The metadata part

`FloatingIpMetadata` extends `Reconciler` by the world's `desc` and `tags` and by
what the pass keeps of them: `listed` (both as they were in `floating_ips`),
`updates` (the plan's), `upd`, `step` and `got` (the update in hand, its next
request, and the tags of the resource it holds). Metadata is only written when all
records have been tried, whether or not they could be written. An update is
`GetIp`, `Describe` (whose answer replaces the resource), `SetTags` (which replaces
all tags). A metadata failure and a record failure are counted in one
`error_count`; the model keeps them apart as `clean` and `metaClean`, and a pass is
successful when both are. `late` is a history variable: somebody wrote the tags
after they were read into `got`. Every other step is one of `Reconciler` with the
metadata unchanged, so `MetaSpec => Spec`.

### Two reconcilers

`OverlappingPasses` has one `neutron`, `zone` and `dns`, and the process variables
of `Reconciler` twice. A step of one leaves the process of the other alone, but for
a handle that goes stale when its recordset is deleted (`AWatches`, `BWatches`).
`adrift` is one write whose request failed, or whose process died, before Designate
executed it: `Lands` executes it at any later moment, a POST if there is no
recordset, a PUT or DELETE if the recordset with that identifier still exists.

### The worker

In `ReconcilerWorker` `main` moves through `main`, `run_forever` and `Event.wait`,
one step per access to the flag, the lock or the waiter; `handler[1..depth]` is the
stack of signal handlers, each at its place in `Event.set`. Python runs a handler in
the main thread between two bytecodes, so `Signal` may come at any step and only
the topmost handler moves. A pass is one step here: it does not look at the event.
Before the handlers are installed, and always with `--once`, a signal kills.

### Names and markers

A string is a sequence of characters, one for each class the code tells apart: a
small letter or digit, a capital, a hyphen, a dot, white space, two quotes, a
backslash. `ProjectIdLabel` has `sanitize_project_id`, `generate` and
`detect_collisions`; `DnsNames` the base domain, `DnsZoneName`, `FqdnBuilder` and
`_managed_zones`; `OwnershipMarker` `to_txt_value` and `parse`, with the states of
`shlex.split`. The record modules use what these checks show: distinct pairs of
labels are distinct names, and a marker that was written is recognised.

### Abstractions

- A recordset is its content (an address, the exact marker text, or something
  else) and the floating IP its marker names. TTLs, identifiers, texts and
  quoting are left out. A TXT recordset's description is never read for
  ownership, so it has one marker, not two.
- Other users never forge a marker: they can delete, rewrite and create
  recordsets, keep or strip markers, and drop zones, but not write the marker of
  a floating IP at a place of their choice.
- Neutron never reuses an identifier of a floating IP; addresses are reused.
- `all_projects` is true whenever zones are per project, as the README of the
  repository asks for, so every zone is visible. The templates of names,
  descriptions and tags are the default ones.
- In `Reconciler` a write that Designate executes is executed before its answer is
  lost; one that is executed long after it was given up is in `OverlappingPasses`.
- A description is a name or something else. Of the three default tags one tells
  the label; the two others are one model value.
- `PUT` replaces content and marker. The SDK only sends what differs from the
  recordset it fetched, which is the same unless somebody edits in between.
- `Reconciler` has no waiting and no signals, `ReconcilerWorker` nothing of what a
  pass does: a pass ends in one way for the loop, which catches whatever it raises.

## Properties

- `NamesMatchFips` (invariant): no name with the markers of two floating IPs, no
  floating IP with markers at two names. This is what partial failures threaten.
- `OnlyStaleDeleted` (invariant): a delete that is planned or in progress is for
  a floating IP that is gone in Neutron *now*, however old the plan. It rests on
  the order of the two listings.
- `LiveRecordsKept` (action): no step but another user's takes a record from a
  live floating IP.
- `LeasesNames` (refinement): with each name mapped to its owner, `Reconciler`
  implements `NameLease`.
- `SuccessMeansSync` (invariant): a pass that reports success while nothing else
  acted leaves DNS in agreement with Neutron.
- `NothingToDo` (action): a pass over records in agreement plans nothing.
- `Converges` (liveness): when faults and edits have stopped, DNS comes to agree
  with Neutron and stays so.
- `InOwnZone` (invariant): in `per_project_zone` a marked record is in a zone of
  its project.
- `SuccessMeansAnnounced` (invariant): after an undisturbed success every floating IP
  shows the very name that serves it.
- `TagsKept` (action): the program takes no tag away but one that somebody set
  between an update's read and its write.
- `NothingToAnnounce` (action): with everything announced a pass plans no update.
- `AnnouncementsConverge` (liveness): in the end every floating IP shows its name.
- `ConvergesTogether` (liveness): two reconcilers, which may give a floating IP two
  names, overwrite each other's records or delete what the other has found, still
  come to agree with Neutron.
- `LostOnlyToOlderList` (action): with two reconcilers `LiveRecordsKept` fails: one
  whose list of floating IPs is older than a floating IP takes the record that the
  other made for it for a stale one, and two that draw the same name for two floating
  IPs write over each other. This property says that there is no other way: a late
  write apart, a record is only lost to a process that has not listed its floating IP
  or that has the name for another one, never because one floating IP has two names.
- `NoLostWakeup`, `AtMostOneMorePass` (invariants): a sleeping loop whose flag was set
  has been woken; at most one pass begins after the flag was set.
- `StopEnds`, `KeepsPolling` (liveness): a stop request ends the process, or hangs it
  in a handler that wants the lock its own thread holds; until then there is always
  another pass.
- `SanitizedAsDocumented`, `LabelsFailOnlyFor`, `SharedLabelsAlike` (invariants over
  strings): the sanitised identifier is the documented one; the exact cases in which
  a project gets no label (among them a short label cut right after a hyphen); labels
  coincide only for identifiers that agree as far as the label goes.
- `NamesInTheirZones`, `BasesApart`: names are in their project's zone and no other's,
  tell the two labels, and their zone is listed again; no zone at another deployment's
  base domain is managed, unless that lies below one's own.
- `MarkersKnownAgain`, `OthersIgnored`, `EditedMarkersRead`: a marker is recognised
  exactly if `managed_by` is one plain shell word, only by its own deployment, and an
  edited one stops the listing only if its floating IP is a quoted or escaped blank.
- `UnmanagedUntouched`, `UnaffectedServed`: what the repository's README says and
  the code does not do (see the findings).

## Runs

| Run | Expectation | Instance | What it shows |
| --- | --- | --- | --- |
| `single` | pass | `single_zone`, 3 floating IPs, 2 addresses, 2 labels, 2 faults, 1 edit | all safety properties, idempotency and the refinement, with reused addresses and names and with plans that raise for want of a label |
| `perproject` | pass | `per_project_zone`, 2 projects of different labels, 2 floating IPs, 2 faults, 1 edit | the same with zones created and dropped; records stay in their project's zone |
| `adescription` | pass | `create_txt_metadata` false, 2 floating IPs, 3 labels, 2 faults, 2 edits | the marker in `A` descriptions is enough |
| `converge` | pass | `per_project_zone`, 1 project, 2 floating IPs, 2 faults, 1 edit | convergence |
| `metadata` | pass | `single_zone`, 2 floating IPs, 2 labels; 1 record fault, 1 metadata fault, 1 edit of metadata | descriptions and tags |
| `overlap` | pass | two reconcilers, `single_zone`, 1 floating IP, 2 labels, 1 fault, 1 write adrift | two at once still converge; how a record can be lost; what each process is sure of whatever the other does (`BothInv`) |
| `worker` | pass | with and without `--once`, up to 3 signals | stopping and going on |
| `names` | pass | all strings of up to 5, all pairs of strings of up to 3 characters of 8 kinds; labels of up to 4 characters | labels, names, zones, markers |
| `silentdelete` | violation | `per_project_zone`, 1 project | success is reported although a delete failed |
| `unmanaged` | violation | `single_zone` | somebody else's recordset is overwritten |
| `stalezone` | violation | 2 projects that share a short label | a project's records in another project's zone |
| `collision` | violation | 3 projects, two of which share a short label; no faults, no edits | the third project is not served |

**Bounds.** `MaxFaults` bounds failed requests, lost answers, crashes and passes
lost to five unlucky draws; `MaxEdits` bounds readdressings and actions of other
users. Two faults cover a failure in one pass and another in the pass that
repairs it; one edit with two faults covers an edit between any two requests of
either pass. Passes are not bounded: the state space closes because nothing
survives a pass. Three floating IPs allow one released, one live and one new at
the same time; two addresses for them force reuse. Two labels for three floating
IPs force reuse of names and the draws that find none. Symmetry is used for
floating IPs (only where all are in one project) and labels, never for liveness.

In `metadata` a failed record request, a failed metadata request and another user's
tag can meet in one pass; actions of other users of Designate are left to the runs
above, since metadata does not read Designate. In `overlap` two passes
need only one floating IP to give it two names, to write each other's records and to
delete one that is newer than a list; the fault sets a write adrift, which then lands
in any later pass of either process. (Two floating IPs could also be given the same
name by the two; the theorem about `LostOnlyToOlderList` covers that, the run does
not, since two names for each of two floating IPs take more labels than TLC can
follow.) Three signals put two handlers on top of one
that is inside `Event.set`. Strings of five characters are longer than the longest
label, so that cutting and refusing happen; a quoted word, or an escape within
quotes, takes three or four.

**Fairness.** `FairSpec` assumes weak fairness of `Worker` as a whole: the loop
calls `reconcile_once` again after every pass, whatever it raised, and waits at
most the poll interval, and every request returns. Which recordset is handled
first, whether a draw succeeds and when faults happen is left open; faults stop
because they are bounded. Nothing is assumed of Neutron or of other users.
`MetaFairSpec` assumes the same of the pass with metadata. `BothSpec` assumes it of
each of the two processes, and that Designate executes or forgets a write that lost
its client. In `ReconcilerWorker` the thread keeps running and a pass ends
(`MainSteps \/ HandlerSteps`); a signal never has to come.

## Findings

1. `silentdelete`: `_delete_existing_recordset` passes `raise_exc=False` in the
   tenant context, so a delete that Designate refuses is a success. Later passes
   try again; what is wrong is the reported result and the exit status of `--once`.
2. `unmanaged`: a name is drawn against managed records only and
   `create_record` updates whatever has the name and type, so a recordset without
   a marker can be overwritten, and later deleted.
3. `stalezone`: label collisions are looked for among the projects that have
   floating IPs now, zones outlive them, and the zone lookup goes by name only.
4. `collision`: a collision stops the pass for every project, not the affected
   ones.

## Proofs

Every safety invariant and action property of the passing runs is a theorem, for all
values of the constants that satisfy the named assumptions.

| Module | Theorem | States |
| --- | --- | --- |
| `ReconcilerProofs` | `Inductive` | `Spec => []IInv`, the type invariant among its conjuncts |
| | `NamesMatch`, `StaleDeletes`, `LiveKept` | `NamesMatchFips`, `OnlyStaleDeleted`, `LiveRecordsKept` |
| | `ImplementsLease` | `Spec => LeasesNames`, the refinement of `NameLease` |
| | `OwnZone` | `InOwnZone`, if no two projects share a label |
| `SyncProofs` | `SuccessInSync` | `SuccessMeansSync`, outside `per_project_zone` |
| | `Idempotent` | `NothingToDo`, under either strategy |
| `MetadataProofs` | `ImplementsRecords` | `MetaSpec => Spec`: all of the above holds with metadata |
| | `NoTagTaken` | `TagsKept` |
| | `MetaInductive` | `MetaInv` |
| | `SuccessAnnounced` | `SuccessMeansAnnounced`, outside `per_project_zone` |
| | `AnnouncedOnce` | `NothingToAnnounce`, under either strategy |
| `OverlapProofs` | `BothInductive`, `LostToOlderLists` | `BothInv`, `LostOnlyToOlderList` |
| `WorkerProofs` | `WorkerInductive`, `WakesUp`, `OneMorePass` | `WorkerInv`, `NoLostWakeup`, `AtMostOneMorePass`, for any number of signals |
| `NamesProofs` | `DrawnLabels` | for every length the bytes drawn hold enough base 32 digits |
| | `SanitizedForms`, `LabelFailures`, `LabelsShared` | `SanitizedAsDocumented`, `LabelsFailOnlyFor`, `SharedLabelsAlike` |
| | `NamesZones`, `ZonesApart` | `NamesInTheirZones`, `BasesApart`, and both for all DNS labels |
| `MarkerProofs` | `KnownMarkers`, `IgnoredMarkers` | `MarkersKnownAgain`, `OthersIgnored`, and both for every floating IP that is a plain word |
| | `EditedMarkers` | `EditedMarkersRead` |

The runs `stalezone` and `silentdelete` show that the conditions of `OwnZone` and of
`SuccessInSync` cannot be dropped.

**Assumptions.** Of the reconciler: model values differ where the program can tell
them apart, every floating IP has a project, and zones are only created in
`per_project_zone`, which the settings validate. The numbers of floating IPs, labels,
projects, zones, faults and edits are arbitrary, and so are both zone strategies, TXT
records or not, stale deletion and dry run. Of two reconcilers `OpAssumption`: the
model value for no write is not a write. Of strings
`LabelLimitAssumption`: the limit on a label is at least 1; and `ProjectAssumption`: a
project identifier holds no blank, quote or backslash. `Alphabet`, `MaxAlone` and
`MaxPair` are not restricted: these theorems are about strings of any length over any
characters.

**One reconciler.** `NamesMatchFips` is not inductive: it says nothing of names that
the pass in progress has drawn and not yet written. `IInv` therefore speaks of
*claims*: a floating IP claims a name if a recordset there carries its marker, if
the listing of this pass says so, or if the plan or the operation in hand is
about both. `ClaimsMatch` says that claims match names and floating IPs one to
one. Only `MakePlan` adds claims (`NoNewClaim` covers every other step), and it
needs `NothingMissed`: once a zone is listed, every marker in it is in `found`,
because other users only take markers away and the process writes nothing before
it plans. So a name that is not used in `found` is claimed by nobody, and a
floating IP without a group claims nothing (`ChosenNames`). `OnlyStaleDeleted`
needs `UnseenGone`: whoever is not in the list of floating IPs but has a claim is
gone, because claims are only ever made for floating IPs that were listed, and
floating IPs are listed before the records; `RecordsInZones` and `PassShape` tie
the rest together. For the refinement, a write leases its name if nobody has it
and otherwise leaves the lease as it is, and a delete ends the lease of a floating
IP that is gone or, when the other recordset of the name is still there, changes
nothing. For `OwnZone`, every claim is at a name with the label of its project
(`OwnNames`) and every zone belongs to a project with that label (`OwnZones`); where
labels differ that is the project of the record.

**Success.** `Knows` says what an undisturbed pass knows: its list of floating IPs is
that of the moment, and so is each zone's listing until it plans. From there
`ServedSoon` and `DeletedSoon` say that, as long as nothing has failed, each record of
a live floating IP is right or still in the plan, and each record of a released one is
still to be deleted. A write makes right what it is about and can touch no record of
another floating IP, because a name is claimed by one (`Progress`); a failure is
counted and ends the claim; and when the plan is empty everything is right.

**Metadata.** `TagsKept` needs that the tags in hand are those Neutron has, unless
somebody wrote them (`TagsInHand`). For the announcements `AnnInv` adds to `SyncInv`
that the metadata listed by an undisturbed pass is that of the moment (`ListedNow`),
that an update gives a floating IP no name but the one it claims (`NamedAsClaimed`,
from the plan on, since only plans add claims), and that, as long as no update has
failed, whatever does not show that name is still to be written (`ToldSoon`). At the
end the name that serves a floating IP is claimed by it, so it is the one announced;
`SyncInv` is needed because `success` is also about the records.

**Two reconcilers.** Nothing of `IInv` that relates a process to Designate survives
the other process: claims conflict, and what is missing from an old list need not be
gone. What survives is `BothInv`, which relates each process only to itself: it
deletes records of floating IPs missing from its own list and writes those of the ones
it has. A step of one leaves the process of the other alone, so each needs only its
own steps (`ListsOfA`, `ListsOfB`). When a live floating IP then loses a record, the
write is a delete of something not listed, or it is made for another floating IP, or
it is the write that was adrift.

**The worker.** The conjunct that matters is `FlagSeen`: between the test of the flag
and the sleep the lock is held, so a handler that sets the flag comes before or finds
the waiter.

**Strings.** All functions over text are folds. `FoldLemmas` proves for any fold what
it makes of the empty text and of a text with one more character (`FoldEmpty`,
`FoldAppend`), and a form of induction that is about a set of sequences
(`SeqInduct`), from the least element of a set of numbers; the induction theorems of
the library take an operator as a parameter and cannot be used. The rest describes
each function by one more character:

- *Labels.* `Sanitize` and `Documented` make the same of each text, so the case
  distinctions of `LabelsFailOnlyFor` are about cuts of a text of letters, digits and
  single hyphens that neither begins nor ends with one.
- *Names.* Splitting at dots turns a text below a dot into the labels of its two
  parts (`LabelsSplit`), so a name has the labels it was built from, and ends below a
  zone only if its last labels are the zone's (`BelowLabels`). Two names of as many
  labels are in the same zone only if all labels but the first agree, which tells
  projects and deployments apart label by label.
- *Markers.* A text of plain words is split at its blanks and every word is read as it
  was written (`PlainParse`). For any other `managed_by`: without quotes and
  backslashes no word has a blank, so one that has blanks is not read back; and of the
  quotes and backslashes of a text no word keeps them all (`LostAll`), so one that has
  some is not read back either. An edited floating IP can only be refused as a word
  that ends with a blank (`RaisesAt`). It needs a blank of its own, since without one
  only the last word can hold a blank and that ends with the project
  (`EditedUnbroken`), and a quote or backslash, since otherwise the text is split at its
  blanks (`EditedWithout`).

**Only model-checked:** the liveness properties (`Converges`, `AnnouncementsConverge`,
`ConvergesTogether`, `StopEnds`, `KeepsPolling`), which are out of the prover's reach.
The runs that expect a violation show what the code does not do. Theorems about two
properties the code violates in general are stated under the condition that makes
them true (`OwnZone`, `SuccessInSync`).

## Plan

The modules of the plan are written, and what is safety is proved. What could follow,
in this order:

1. The steps on which `Converges` rests, as action properties: once nothing
   disturbs, a pass in progress never loses ground. (The leads-to itself needs
   fairness and stays with TLC.)
2. For two reconcilers, which part of `NamesMatchFips` is restored by a pass that the
   other one does not overlap.
3. `all_projects` false with per-project zones: which zones a listing then shows.
4. Templates of names other than the default one, and which of them keep a name in
   its zone.

## Not modelled

- Reading and typing of the settings file (`config/loader.py`): no behaviour over
  time. The settings that change what the program does are constants, and the
  constraints the validators check are assumptions.
- `dns.all_projects` false with per-project zones: a static misconfiguration in which
  nothing is ever written.
- Templates of names, descriptions and tags other than the default ones: what they
  break depends on the text an administrator writes.
- The Keystone project repository and the port for events: nothing calls them. The
  other ports declare methods without code; the connection factory opens an SDK
  connection.
- Logging, TTLs, packaging, images and deployment files, except that systemd restarts
  a process and that two may run at once.
- Resources that make every listing fail (a recordset without records, a zone with an
  invalid name): a failing listing is modelled, that it fails for good is not.
