# KubeCell: specifications, model checking and proofs

KubeCell provisions virtual Kubernetes clusters ("child" clusters, run by K3k)
on host clusters that Open Cluster Management (OCM) manages.  Its control plane
is a controller-runtime manager in the management cluster.  The repository also
holds the project's website, two scripts of agent skills and an auto-commit
plugin.  This directory holds TLA+ specifications of these programs, written from
the code under `src/`, with TLC configurations and TLAPS proofs.

## 1. The system

### Parts

| Part | Code | What it keeps and does |
|---|---|---|
| VirtualCluster controller | `internal/controller/virtualcluster_controller.go`, `deletion.go`, `resolution.go`, `status_update.go` | Level-triggered rounds: finalizer, snapshot of the resolved references in the status, two ManifestWorks (foundation: namespace, quota, policy; instance: the K3k cluster and mirrored Ingresses), the administrator's kubeconfig Secret, the phase. Deletion: Secret, instance Work, foundation Work, finalizer. |
| Cell controller | `internal/controller/cell_controller.go`, `internal/provider/host/*` | Binds a Cell to a ManagedCluster, keeps inventory and baseline, decides the Cell's phase; holds a deleted Cell while VirtualClusters refer to it. |
| Plan controller and feasibility evaluator | `virtualclusterplan_controller.go`, `plan_evaluator.go` | One-shot evaluation of a Plan; the same evaluator runs in every VirtualCluster round. |
| Management webhooks | `internal/admission/kubecell_webhooks.go`, `api/v1alpha1/webhooks.go`, `validation.go` | Validity, immutability of a Cell's reference and of a used class, uniqueness of names. |
| Host webhook | `internal/admission/host_webhook.go`, `host_workload.go` | Admits the Pods of child clusters on the host. |
| Rendering | `internal/render`, `internal/provider/ocm/works.go` | Manifests of the two Works, Ingress mirror. |
| Host observation | `internal/provider/k3k`, `internal/provider/ocm/proxy*.go`, `child_factory.go` | Reads the host and the child through the cluster proxy. |
| Projections | `inventory.go`, `quota.go`, `placements.go`, `helpers/quantities.go` | Pure computations over lists of host objects. |
| Names | `helpers/names.go` | Names of the objects of a VirtualCluster, from its UID. |
| Installer | `cmd/kubecell-installer`, `internal/installer` | Sequential command line tool. |
| Website | `website/components`, `website/lib`, `website/scripts/generate-seo.ts` | React components: effects register timers, frames, observers and listeners and cancel them in their cleanups; navigation, code highlighting. |
| Skill scripts | `.agents/skills/**/condition-based-waiting-example.ts`, `render-graphs.js` | Waiting for events with a timeout; rendering the diagrams of a document. |
| Auto-commit plugin | `.opencode/plugins/auto-commit.js` | Commits when a session becomes idle, with a message written by a helper session. |
| External | OCM work agent, K3k, API server, garbage collector | Not in the repository; modelled from how the code uses them. |

### How they interact

The parts of the control plane share nothing but API objects.  Every controller reads through informer
caches and writes to the API server; a write based on an outdated object is
refused with a conflict, but a server-side apply, a delete by name, or a decision
"the object is not there" is not.  The VirtualCluster controller watches
VirtualClusters and ManifestWorks (by the labels on them), not Cells and not
Secrets; it comes back by `RequeueAfter`, by rate-limited retries and by the
resync.  The work agent applies a Work and reports `Applied` or `Degraded`; a
deleted Work is finalized on the host before it goes.

The Cell controller reads the host object by object while it changes and writes
one status for the Cell; the evaluator decides from that status alone, in every
round of a VirtualCluster and for every Plan.

The website's components, the scripts and the plugin are independent of the
control plane and of each other.

### What is hard about it

Rounds end anywhere (error, early return, restart) and are repeated; they act on
outdated copies; the whole status is overwritten from the copy a round started
with; the objects are looked up again by derived names, in a namespace that comes
from the snapshot or, without one, from the Cell as it is now; objects of other
owners may have these names; the Cell can be rebound, deleted or found unusable
at any time; the host can fail in part.  Two controllers wait for each other when
a Cell and its VirtualClusters are deleted together.  A round of the Cell
controller may fail at any of its reads and still write what it has so far.  In
the browser, renders, timers, frames, observers and answers come in any order, a
component may go at any time, and the plugin's calls interleave at every `await`.
`PROJECT.json` lists these
hazards with the line where each bites and the property that watches it.

### Properties of interest

No Work is orphaned; the foundation exists as long as the instance; the
credential is withdrawn before the teardown; objects of other owners are left
alone; the snapshot is frozen; mirrored Ingresses are not dropped; deletion,
provisioning and Cell deletion complete; Ready is withdrawn when it is no longer
true; the whole lifecycle implements a simple contract.  Nothing is accepted but on
evidence of one round; the Cell follows its host; a rejection is reconsidered.
Nothing stays registered for a component that is gone, what it shows is current
and in the end complete; commit flows exclude each other and come to an end.

## 2. Modules

```
ClusterState                     objects, caches, queue, round
 ├─ VirtualClusterController     the VirtualCluster rounds
 ├─ CellBinding                  rebinding and deleting the Cell
 └─ HostAgent                    work agent and K3k (external)
      └─ VirtualClusterLifecycle the composition, properties, fairness
           ├─ MCLifecycle        instances for TLC
           ├─ ProvisioningContract   (INSTANCE) what the lifecycle promises
           └─ VirtualClusterLifecycleProofs   types, effects of every action,
                                 invariants, action properties, the contract

Feasibility                      the evaluator, as operators
 └─ CellController               the rounds of the Cell controller
      └─ CapacityPlanning        with the gate, the Plans and the host
           └─ CapacityPlanningProofs

Page                             a component and what it has registered
 ├─ TextWidgets, CanvasWidgets, RetroGrid, LayoutWidgets, Ornaments,
 │  Honeycomb, CopyButton, SiteChrome, Highlight     the website
 ├─ SkillScripts, CommitMessage                      scripts, commit message
 └─ Website                      all of them, and AutoCommit, the plugin
      ├─ MCWebsite               values for TLC
      └─ WebsiteProofs           the components together; extends
           ├─ ComponentProofs    what the components register and show
           ├─ DrawingProofs      what layout and ornaments draw
           ├─ HighlightProofs    the highlighter
           └─ ScriptProofs       the plugin, its message, the renderer
Arrays                           flat, filter, at of JavaScript's arrays
 └─ SequenceProofs               induction over numbers and sequences
```

The first group is about the objects of a VirtualCluster, the second about the
decision to create them, the third about the programs beside the operator.

**ClusterState** declares the constants and the variables.  `vc`, `cell`, `work`,
`secret` are the API server's objects; `child` is whether a child cluster
answers; `seen` holds the caches that may lag; `queue` is the workqueue with its
timers; `round` is the reconcile round in progress (`pc` is the request that
comes next, `status` the copy the round works on, `mc` the namespace of the
Works); `drained` is the Cell controller between its list and its Update.

**VirtualClusterController** translates `Reconcile` and `reconcileDeletion`.  A
round is cut where it talks to the API server or the host, so that any other
actor, or a restart, can come in between:

| Action | Code in `virtualcluster_controller.go` |
|---|---|
| `NothingToDo`, `Reconcile`, `ReconcileDeletion` | 86-103, 517-521: read, dispatch, finalizer |
| `Resolve` | 104-174: Cell, snapshot or drift, feasibility, host addresses |
| `WriteFoundation`, `WriteInstance` | 175-181, 298-308, with `createOrUpdateWork` 493-515 |
| `ReadWorks` | 182-264: both Works read back, child observed |
| `Publish` | 472-491 |
| `Mirror` | 278-301 and `mirrorChildIngresses` |
| `Refresh` | 309-335 |
| `SaveStatus` | `status_update.go` 23-32 |
| `DeleteSecret`, `Lookup`, `DeleteWork`, `RemoveFinalizer` | 517-573, 586-604, `deletion.go` |
| `RequestFails` | the early `return err` after any request |

**CellBinding** has the webhook's admission of a new `managedClusterRef`
(`Rebind`), the deletion round of the Cell controller (`HoldCell`, `DrainCell`,
`ReleaseCell`) and the outcome of its other rounds (`CellVerdict`).

**HostAgent** has `Apply`, `Degrade`, `Finalize` of the work agent and
`ChildStarts`, `ChildStops` of K3k.

**VirtualClusterLifecycle** adds users, other owners, the garbage collector and
restarts, and states the properties.  The constant `Faults` selects which
optional behaviours of the environment are on, so that each property is checked
against the ones that matter to it.

**ProvisioningContract** is the abstract specification.  A child cluster is
absent, open, closing or gone; while it is open Works are delivered, foundation
first; while it is closing they are only withdrawn, foundation last; it is gone
when nothing is left.  A VirtualCluster maps to *closing* when the controller has
seen its deletion and no round that had not seen it is under way (`Life`).

**Feasibility** translates the checks of `plan_evaluator.go` that read the Cell and
how they are combined (a failed check beats an unknown one).  **CellController**
has the rounds of `cell_controller.go`: the ManagedCluster and its lease, the
baseline, Nodes, Pods, storage and Services, read one after the other, each with
its early return, and the status written by `updateCellStatus` at
whatever point the round ends.  **CapacityPlanning** composes them with the
feasibility gate of a VirtualCluster's round (`Accept`, `Reject`, `Wait`), the Plan
controller, users, the scheduler and a host that changes.  `evidence` is history:
the facts the round that wrote the present status has found in order.

**Page** is React and the browser as far as the components use them: `pending`
counts what is registered (timers, frames, observers, listeners); `Register` and
`Cancel` are the calls that effects and cleanups make.  In the modules of the
components an action is an effect with the render that caused it, a callback, or
an event of the user:

| Module | Components |
|---|---|
| `TextWidgets` | TypingAnimation, Terminal, AnimatedList, WordRotate, NumberTicker, DiaTextReveal, SparklesText, TextReveal |
| `CanvasWidgets` | Particles, FlickeringGrid, IconCloud |
| `RetroGrid` | RetroGrid: WebGL pipeline, context loss, fallback |
| `LayoutWidgets` | AnimatedBeam with ArchitectureBeam, DotPattern, AnimatedGridPattern, Highlighter, MagicCard, InteractiveGridPattern, GlareHover, BlurFade |
| `Ornaments`, `Honeycomb` | the arithmetic of AnimatedCircularProgressBar, ProgressiveBlur and HexagonPattern |
| `CopyButton` | copy button |
| `SiteChrome` | header, docs sidebar, pager, sitemap, file tree |
| `Highlight` | `highlightLine` with the scan for comments and the patterns of each language |

Some of these are in the repository's library and on no page at present
(AnimatedCircularProgressBar, AnimatedList, DiaTextReveal, IconCloud,
InteractiveGridPattern, Particles, ProgressiveBlur, SparklesText, TextReveal, and
`typing-animation.tsx`, of which the Terminal has a version of its own).

Of Particles, `CanvasWidgets` keeps the list of circles, which a frame goes over
while it removes from it and appends to it; of IconCloud also the `onload` of the
images on their way, which no cleanup takes back.  A RetroGrid may be mounted on a
canvas whose context is lost: it then shows the fallback until it is restored.

**SkillScripts** has the three waits, which share their check
(`waitForEvent`, `waitForEventCount` and `waitForEventMatch` say what each waits
for), and the renderer with its combined mode and the exception of a file that
cannot be written.  **CommitMessage** is how the plugin gets a subject and a
body from any answer.  **AutoCommit** cuts the event hook at its awaits: several
calls, their helper sessions, the generator that outlives a timeout, the deletion
of the helper and its idle event are interleaved.  **Website** puts them side by
side.

### Abstractions

- All VirtualClusters refer to one Cell.  `status.resolved` is abstracted to the
  ManagedCluster it names, `status.child` to one flag (the production observer
  sets its three flags together or fails).  Of the conditions only
  `CleanupBlocked` is kept.
- `verdict` stands for everything a round concludes from the Cell and the class:
  phase, validity, decision of the evaluator.  A missing class is the same error
  return as a missing Cell.
- A lagging cache answers with an old state until it jumps to the current one.
  A conflict is a difference in content between what was read and what is there,
  so a change that was undone goes unnoticed.  After a restart the caches are
  fresh.
- A request that took effect although its answer was lost is the request
  followed by `Crash`.
- `RequeueAfter` and rate limits put the key back into the queue; how long they
  take is left out.
- `appsSuffix` is set and the child has Ingresses to mirror, so a Work written
  after a successful observation carries the mirror.
- A VirtualCluster of one UID is created once.  The Cell has been reconciled once
  (it has its finalizer) and is not created anew.
- One VirtualCluster round at a time: the controller runs a single worker.
- `CapacityPlanning`: one amount stands for all resources, one device and one
  StorageClass for all; its free capacity is positive when it is known.  The checks
  ResolvedProfile and HostQuota, which read the specification and the class alone,
  are taken as passed.  One Pod stands for all Pods of a VirtualCluster.
- `Website`: the programs share no state, so a behaviour has one of them.  Text is
  counted or classified, positions are small integers, colours are names; what is
  drawn is kept only as far as a property looks at it.
- `Highlight`: a character stands for its class.  The classes are the characters
  that some pattern or scan of the language tells apart; in JSON one bracket
  stands for all, as they are matched alone and never paired, and in shell `>` for
  `<` too.
- `Honeycomb` has exact coordinates.  `edgeLexKey` compares doubles before it rounds
  them, so the key of an edge with ends of one x, or with a coordinate of zero (which
  may be printed with a sign), depends on their last digits: `apart` chooses
  whether these differ where two hexagons meet.
- `SiteChrome.isActive` compares path segments where the code has `startsWith` on
  strings; on the pages of the site this is the same.
- Cases in which a property of a component does not hold are spelled out in it as
  exceptions, and `PROJECT.json` names the line with the hazard.

## 3. Model checking

`tlc -config X.cfg M`, with M one of `MCLifecycle`, `CapacityPlanning`, `MCWebsite`.
Deadlock checking is off where the system may stop: when every VirtualCluster is
gone, and when a component has nothing registered, nothing is left to do.

| Run | Faults | What it shows |
|---|---|---|
| `reconcile_faults` | restarts, failing requests and host reads, foreign objects, old VirtualClusters and Cells | `TypeOK`, `NoOrphan`, `InstanceOnFoundation`, `CredentialRevokedFirst`, `ForeignUntouched`, `MirrorKept`, and the refinement `KeepsContract` hold. |
| `host_faults` | restarts, degraded Works, Works deleted or created by others, child down, unreadable backends, flapping Cell | `NoOrphan` still holds.  (`InstanceOnFoundation` cannot: others may delete the foundation.) |
| `convergence` | rebinding, child down, old Cells and Secrets | `DeletionCompletes`, `ChildLossReported`, `ResolvedFrozen`. |
| `provisioning` | old VirtualClusters and Works | `ProvisioningCompletes`. |
| `cell_deletion` | the Cell is deleted; two VirtualClusters | `CellDeletionCompletes`: the two controllers do not wait for each other. |
| `cell_capacity` | the host changes while it is read, reads and lists fail | `TypeOK`, `DecidedOnEvidence`, `CellFollowsHost`, `RejectionReconsidered`. |
| `website` | renders, callbacks and events in any order; failing WebGL, clipboard, images, dot, git | The properties listed below. |

What `website` checks:

| Properties | About |
|---|---|
| `NothingAfterUnmount`, `RegisteredOnce` | every component: cleanups are complete, effects do not pile up |
| `TextInOrder`, `EverythingShown` | the text components show what they should, in order, and in the end all of it |
| `CirclesKept`, `StoppedWhenDrawn`, `RetroLoop`, `PipelineReleased` | the canvas components: circles, images, frames, WebGL objects |
| `DrawingFits`, `OrnamentsFit`, `TileSeamless` | what is drawn fits the page, the props, the neighbouring tile |
| `NavigationAgrees`, `CopiedIsTakenBack`, `TreeShows` | navigation, copy button, file tree |
| `TokensAreTheLine`, `QuotedHashIsCode` | the highlighter loses no character and agrees with itself on quotes |
| `WaitIsHonest`, `WaitSettles`, `DiagramsKept` | the skill scripts |
| `OneFlow`, `HelperStartsNoFlow`, `BusyIsReleased`, `CommitHasSubject` | the auto-commit plugin |

Five runs show where code and documentation disagree; TLC's counterexample is
the evidence.

| Run | What the code does |
|---|---|
| `rebind_orphan` | A VirtualCluster whose first round was cut off before the snapshot was saved is deleted, its Cell is rebound (the webhook does not count VirtualClusters being deleted), and the cleanup looks in the new namespace: the foundation Work stays behind. |
| `stale_works` | Deletion takes a Work that is not in the cache yet for deleted. |
| `erased_snapshot` | A round that started from an old copy saves its whole status over the snapshot; the conflict is retried away. |
| `stale_ready` | The instance Work loses `Applied`; the child is not observed, the old flags say Ready. |
| `self_rejection` | Every round of a VirtualCluster reruns the evaluator against capacity from which its own Pods have been subtracted: one that fills its Cell is Failed by its own Pods. |

Some comments and names of the website also say something else than the code
does.  The models follow the code, and no property states what these say:

- `dia-text-reveal.tsx:82` gives the text its own color on both sides of the band
  while it moves; the gradient is transparent ahead of it (`buildGradient`).
  `TextInOrder` is about the text behind the band.
- `particles.tsx:173` has the exact quantity of circles after a resize;
  `initCanvas` calls `resizeCanvas`, which draws that many, and `drawParticles`,
  which adds as many again.  `CirclesKept` says that frames keep what was made.
- `collectUniqueHexEdges` of `hexagon-pattern.tsx` may give an edge whose key depends
  on the last digits of doubles twice (section 2).
- `highlight.ts:166` looks for the colon of a JSON key in the match, which does not
  hold it: keys have the color of strings.

Three more disagreements of this kind can be reproduced with `MCLifecycle`, each
with `VC = {v1}`, `MC = {m1}`, `None = None` and `CHECK_DEADLOCK FALSE`:

| Instance | Property violated | What the code does |
|---|---|---|
| `FairSpec`, `Qualified = {}`, `Faults = {}` | `ProvisioningCompletes` | With `cellRef{name}` as documented (`technical-design.md:239`, `:474`) the Cell is looked up in the empty namespace (`virtualcluster_controller.go:105`). |
| `Spec`, `Qualified = {v1}`, `Faults = {"deleteCell"}` | `CellOutlivesWorks` | A VirtualCluster created between the Cell controller's list (`cell_controller.go:507`) and its Update (`:514`) is provisioned and loses its Cell. |
| `Spec`, `Qualified = {v1}`, `Faults = {"foreignRace"}` | `ForeignUntouched` | The delete has no UID precondition (`virtualcluster_controller.go:552`; `technical-design.md:362`). |

### Bounds

One VirtualCluster suffices for most questions, as the rounds share nothing but
the worker and the Cell; `cell_deletion` has two, because there they meet.  Two
ManagedClusters are enough to tell "the right namespace" from "another one"; one
is used where the reference cannot change.  Sequence numbers and counters do not
occur: the queue is a set, a cache is the current or an old object, conflicts are
comparisons.  So the state spaces are finite without further bounds (10^4 to
10^6 states).  All faults at once would be too many states; the theorems below
cover the combinations.

`CellCapacity.cfg`: one VirtualCluster and a Plan for a second one, one Node, a
allocatable amount and an envelope of two, of which a running Pod uses one: while
one tenant runs, nothing more fits.  `MaxChanges` = 2 counts changes of the host
and failures; two are enough to spoil a round and to restore the host, and the
theorems do not depend on it.  `SelfRejection.cfg` needs no change at all.

`Website.cfg` and `MCWebsite`: three calls of the plugin, so that one can hold
`busy`, one can be its helper's, one can come in between; two values or more of
every prop (`WordsToAnimate`, `Quantities`, `Sizes`, `Layouts`, `Ranges`); the
terminal of `Workflow` with its typed lines cut short; two icons, two writes of the
clipboard at a time, two events and a timeout of two polls; documents of up to five
tokens (`MaxTokens`), answers of up to two lines (`MaxLines`), lines of code of up to
four characters (`MaxLine`).  A wrong cleanup or a callback out of date needs one
change to show.  Four characters hold a quotation with a `#` after a space in it;
for longer lines, documents and answers there are the theorems.

### Fairness

- `WF(Worker)`: a started round goes on.  `SF` of taking each key: the workqueue
  is first in, first out, so a key that waits is taken although other keys keep
  coming.  `WF` of the syncs and of `Resync`: watches deliver, the informer
  resyncs (10 h by default).
- `WF` of `Apply`, `Finalize`, `ChildStarts`: OCM and K3k do their job; liveness
  of KubeCell is relative to it.  `WF(CellVerdict("Accepted"))`: the Cell is found
  usable in the end; without it no VirtualCluster is promised anything.
  `convergence` runs without the fairness of `ChildStarts` (`ChildlessSpec`): a
  child that always comes back would make `ChildLossReported` trivial.
- `WF(DrainCell)`, `WF(ReleaseCell)`: the Cell controller returns every 15 s.
- `cell_capacity`: `WF` of the Cell controller's steps (it returns after 10 s or
  30 s, also after an error), `WF(Resync)`, and `SF` of the gate for each
  VirtualCluster (the workqueue again).
- `website`: `WF` of the text components' timers and animations, of the repeated
  check and the clock of a wait, and of the steps of a commit flow: git commands
  return and the timeout fires, while the helper need not answer.
- No fairness for users, faults or restarts.  `stale_ready` uses the
  controller's fairness alone, as it is about an agent that does not recover.

## 4. Proofs

TLAPS proves these for every set of VirtualClusters and ManagedClusters and every
set of faults but the ones named:

| Theorem | Statement | Faults excluded |
|---|---|---|
| `TypesKept` | `Spec => []TypeOK` | none |
| `NothingOrphaned` | `Spec => []NoOrphan` | rebind, lagWork |
| `FoundationFirstAndLast` | `Spec => []InstanceOnFoundation` | lagWork, extDelete |
| `ForeignKeptUntouched` | `Spec => ForeignUntouched` | lagWork, foreignRace |
| `SnapshotFrozen` | `Spec => ResolvedFrozen` | lagVC |
| `CredentialGoesFirst` | `Spec => []CredentialRevokedFirst` | lagWork, extDelete, lagSecret |
| `MirrorsStay` | `Spec => MirrorKept` | lagWork, backendRead |
| `ContractKept` | `Spec => KeepsContract` | rebind, lagWork, extDelete |

The runs `rebind_orphan` and `stale_works` show that `NothingOrphaned` needs both
exclusions (rebinding does harm together with a round that is cut off, by a
restart for instance), `erased_snapshot` and the last instance of section 3 that the
lagVC and foreignRace exclusions are needed.  TLC finds `InstanceOnFoundation` violated with
either of lagWork and extDelete alone.  The lagWork exclusion of
`ForeignKeptUntouched` is one of the proof: on the small instance the property
holds with foreign Works that are there from the start and an old cache too.
The proofs
assume `QualifiedAssumption` and `NoneAssumption` of `ClusterState` and no bound.

The argument has three layers.

1. *Effects.*  There is one lemma per action that says what it does to the parts
   of the state the invariants speak of, and that it keeps `TypeInv`: `TypeOK`, that a round names a VirtualCluster, and that a
   round which writes or removes Works names a ManagedCluster.  The last two are
   what makes `TypeOK` inductive.
2. *Steps.*  These are turned round: which steps can change a
   finalizer, add a Work, lose one, mark one as deleted, start or continue a
   round.
3. *Invariants.*
   - `NoOrphan` follows from: a Work is covered by the finalizer and lies in the
     Cell's namespace, and the round about to remove the finalizer has found none
     (`WorkInv`).  That is inductive only with `FinalizerInv` (a live round works
     under the finalizer, though it may have read an old copy), `RefInv` (every
     snapshot and round agrees with the Cell) and `DeletionInv` (caches do not
     run ahead; a deletion round has seen the deletion).
   - `InstanceOnFoundation` needs `FoundationInv`: a foundation Work marked for
     deletion has no instance beside it, its deletion is known, and no live round
     is left that could write an instance; a live round past its first write has
     its foundation.
   - `ForeignUntouched` needs `ForeignInv`: a round that removes Works has found
     no foreign one in the namespace it looks in.
   - `ResolvedFrozen` needs `FrozenInv`: the copy a round works on carries the
     snapshot persisted.
   - `CredentialRevokedFirst` needs `MarkedInv` (Works are being deleted only when
     the deletion is known and no live round has the VirtualCluster in hand) and
     `RevokedInv` (a Secret is covered by the finalizer; from the look-up on, and
     beside Works being deleted, there is none).
   - `MirrorKept` needs `MirrorInv`: without an instance Work there is no mirror,
     and a round about to write the Work without a mirror takes none away.
   - `KeepsContract` needs `PlacedInv`: the invariants of `NoOrphan` and
     `InstanceOnFoundation`, which place every Work where the contract expects it.
     Every action is then shown to be a step of the contract or a stutter: it
     closes a VirtualCluster, lets it become open or gone, delivers a Work or
     withdraws one.

Each inductive invariant was checked with TLC on instances with one
VirtualCluster and two ManagedClusters before it was proved.

`CapacityPlanningProofs` proves, for all sets of Nodes and VirtualClusters, all
quantities and any `MaxChanges`, from the assumptions on the quantities that the
modules name (`EnvelopeAssumption`, `QuantityAssumption`,
`ReservationAssumption`):

| Theorem | Statement |
|---|---|
| `TypesKept` | `Spec => []TypeOK`; the estimate is clamped, so it stays a natural number |
| `DecisionsHaveEvidence` | `Spec => DecidedOnEvidence` |

The inductive invariant says that what the running round's copy of the status
claims is among what that round has found (`RoundOnEvidence`), and that a status
which passes the evaluator was written by a round that found everything in order
(`StatusOnEvidence`).  The second needs the first, as a round starts from the
status of the round before and returns early from any of its reads.

`WebsiteProofs` proves of the specification that `website` checks:

| Theorem | Statement | For all |
|---|---|---|
| `CleanupsComplete` | `Spec => []NothingAfterUnmount` | values of the constants |
| `EffectsDoNotPileUp` | `Spec => []RegisteredOnce` | values of the constants |
| `TextsAppearInOrder` | `Spec => []TextInOrder` | words, lines of the terminal |
| `CloudStopsComplete` | `Spec => []StoppedWhenDrawn` | sets of icons |
| `RetroRuns`, `RetroReleases` | `Spec => []RetroLoop`, `Spec => []PipelineReleased` | (no constant) |
| `DrawingsFit` | `Spec => []DrawingFits` | layouts, sizes, numbers of squares |
| `OrnamentsAlwaysFit` | `Spec => []OrnamentsFit` | ranges of the gauge |
| `CopiedGoesAway` | `Spec => []CopiedIsTakenBack` | numbers of writes under way |
| `HighlightedLineIsTheLine` | `Spec => []TokensAreTheLine` | lengths of a line |
| `QuotedHashNoComment` | `Spec => []QuotedHashIsCode` | lengths of a line |
| `WaitsAreHonest` | `Spec => []WaitIsHonest` | timeouts, numbers of events |
| `ReportedDiagramsKept` | `Spec => []DiagramsKept` | lengths of a document |
| `CommitsHaveSubjects` | `Spec => []CommitHasSubject` | lengths of an answer |
| `FlowsNeverOverlap` | `Spec => []OneFlow` | sets of calls |
| `HelpersStartNoFlow` | `Spec => []HelperStartsNoFlow` | sets of calls |

The assumptions are those the modules name.  `WordsAssumption`: there is a value
of the prop.  `LinesAssumption`: a terminal begins with a typed line, as the only
one of the site does; TLC finds `TextInOrder` violated when a span comes first, as
it may be taken for complete before it is visible.  `LayoutAssumption`: a
container has room for its nodes or is not displayed.  `RangesAssumption`: a gauge
has min < max.  `CallAssumption`: no call is the user's.
The others say that numbers are natural.

The inductive invariant `PageInv` has two parts, and each is the conjunction of the
invariants of the components, of which the first state of a behaviour chooses one.

- `CallsInv` (`ComponentProofs`) says what the component on the page has
  registered in terms of its state (`Only`: at most one callback of each of the
  named kinds), and what its state says of the work that is left.  The properties
  are not inductive without that.  `NothingAfterUnmount` needs to know which kinds
  the cleanup has to cancel.  `TextInOrder` needs, for the terminal, that the lines
  complete are exactly those before the active one, that none after it has
  started, and that a timer is pending only while the active line is being typed.
  `StoppedWhenDrawn` needs that the canvases hold the images loaded, and that
  drawing stops only with all of them loaded and drawn.  `RetroLoop` needs what
  `syncScene` establishes (`InStep`): a frame only with a pipeline, in view, with a
  size and a colour of the theme, and none there only if reduced motion is asked
  for or was when the component was last told.
- `DrawInv` (`DrawingProofs`) says which measurement a drawing was made from.  That
  the drawing then fits is arithmetic: quotients and remainders (`DivUnique`) for
  the dots and the percentage, the places of the six nodes for the beams, the order
  of the stops for the sweep of DiaTextReveal (`BandInside`, `Sides`).

The other parts register and draw nothing, and have invariants of their own.

- *Plugin* (`ScriptProofs`): a helper that can still become idle, is idle, or whose
  event is being looked at is known to the plugin (`HelpersKnown`), it becomes idle
  once (`HelpersIdleOnce`), and a call has no generator before it starts one.  These
  are proved of the plugin alone (`FlowsExclude`, `PluginIgnoresHelpers`); the
  composition leaves it undisturbed.
- *Message* (`ScriptProofs`): what the message is made of (`MessageInv`), and what
  taking out lines leaves of an answer.
- *Renderer* (`ScriptProofs`): so far every accepted diagram is in the file of its
  name, or a later one of that name is (`BlocksKept`); after an exception one name
  is excepted (`CutKept`).
- *Highlighter* (`HighlightProofs`): every pattern matches inside the line
  (`MatchInLine`), so the loop over the matches shows the line
  (`ScanShows`), and so do the parts a tokenizer cuts the line into (`YamlShows`,
  `BashShows`, `GoShows`).  For the quotes the invariant of the scan is that
  it is outside of quotation marks, or inside of some that are not closed, wherever a
  match may begin (`AliveStep`, `AliveRun`): a match that is not a quotation has no
  quotation marks in it, a quotation ends where the scan says.

The last three are about recursive functions, and the proofs are inductions over
numbers and sequences.  `SequenceProofs` states induction with the set of the
numbers, or sequences, that have the property in place of a predicate
(`IntervalInduction`, `DownInduction`, `SeqInduction`): such a set can be
instantiated by the provers, a predicate cannot.  It also has the two forms of
recursion that the models use (`ForwardFunction`, `ChainFunction`), and what `Flat` and
`Without` of `Arrays` compute.

`WebsiteProofs` joins them: each component's own steps keep its invariant, every
other component's is vacuous, the parts that register nothing and the plugin leave
the page alone, and `Unmount` runs the cleanups.  TLC checked `PageInv` on all
states of `website` before it was proved.

Only model-checked:

- all liveness (`DeletionCompletes`, `ChildLossReported`, `ProvisioningCompletes`,
  `CellDeletionCompletes`, `CellFollowsHost`, `RejectionReconsidered`,
  `EverythingShown`, `WaitSettles`, `BusyIsReleased`), as fairness and `ENABLED` are
  out of the prover's reach;
- `NavigationAgrees`, `TreeShows`, `TileSeamless`, which are about the data of the
  site (its pages, its trees, its tile): they are evaluated, not argued;
- `CirclesKept`, where the run goes through all ways for circles to leave a list of
  up to four.

## 5. Not modelled

- Contents of the manifests, conditions other than those a decision reads,
  endpoints, quota and placement projections in the status: no decision of a round
  depends on them.
- Webhooks of the management cluster other than the one on `managedClusterRef`
  (uniqueness of names, immutability of a used class): single decisions over one
  cached list.  The host webhook: a pure decision over a Pod and the annotations of
  its namespace.
- Names (they are taken as distinct per UID) and `RenderIngressMirror`: string
  building.
- Generations of a Work (`Applied` may speak of an earlier one).
- What several VirtualClusters accepted from one inventory add up to: the code
  reserves nothing, so there is no bound to state.
- The installer: a sequential tool that applies manifests and polls.
- `cmd/main.go`, proxies, generated code, charts, release scripts: wiring and I/O.
- Of the website: page texts, style sheets and components that are style only
  (Marquee, Meteors, BorderBeam, OrbitingCircles and the like), thin wrappers of
  library components, the shaders of RetroGrid, the geometry of the sphere of
  IconCloud and of the flicker, robots and llms files.
