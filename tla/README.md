# Verification of unifi-reactor

TLA+ models of the operator in this repository, TLC configurations that check
them on small instances, and TLAPS proofs of their main safety properties for
every value of the constants. Paths below are relative to `src/`.

unifi-reactor observes a UniFi console and drives Kubernetes objects from it.
A user writes *Automations* ("while `wan` is `backup`, scale this Deployment to
0, and notify me on the way in and out"). Several Automations may name one
target; Reactor arbitrates between them, remembers on the target itself what it
was before (the *baseline*), and hands the target back when nobody claims it
any more.

## 1. Inventory

| Component | State it keeps | Operations | Talks to |
|---|---|---|---|
| Console client and readings (`internal/providers/unifi`) | the previous poll, for log lines only | `Observe`: two endpoints read, normalized to state keys | console |
| StateStore (`internal/engine/state.go`) | per provider: `stable`, `pending`, `observedAt` | `Observe`, `Get`, `Proving`, `Freshness` | written by the poller, read by every reconcile |
| Poller (`unifi_poller.go`) | a ticker, the time of the last poll | `Start`, `awaitNextObservation`, `observe`, `wake` | console, store, receiver, work queue |
| Webhook receiver (`providers/unifi/receiver.go`) | a one-slot channel | `handleDelivery`, `request` | console (in), poller (out) |
| Arbiter (`internal/engine/arbiter.go`) | none | `Resolve`: the meet of a set of levels, winners and deferred | called by arbitration, preview, release |
| Claim protocol (`controller/arbitration.go`, `targets.go`, `hpa.go`) | annotations on the target: baseline, claimed-by, claimed-at | claim, refresh, release, decline, withhold, preview | API server, arbiter, store |
| Reconciler (`automation_controller.go`) | `status`, the finalizer | `Reconcile`, `finalize`, `recordApplyFailure`, `reconcileTargets` | work queue (4 workers), claim protocol, edge actions |
| Edge actions (`edge_actions.go`, `console_actions.go`, `restart.go`) | `status.edgeActions` | `runEdgeActions` after a committed transition | outbound client, console writer, API server |
| Outbound client (`internal/actions`) | none | one request with session, retries and deadline; allowed destinations | external services |
| Console writer (`providers/unifi/write.go`) | none | read-modify-write of WLANs, PoE ports, outlets | console |
| Alarm registrar (`providers/unifi/alarm.go`) | none | at start: list the rules, create Reactor's | console |
| Uninstall release (`release.go`) | none | `ReleaseAllClaims`, `stopManager` | the manager's Deployment, every target |
| CRD adoption (`internal/adopt`, a chart helper) | none | take over a CRD no release owns, on upgrade | API server, helm |
| Events, conditions, metrics | conditions in status | reports | nobody reads them back |

They form one path: a poll becomes state keys (StateKeys), the store believes
them or waits (Observation), a change wakes the Automations whose reconciles
judge their conditions (Reconciler), claim or release targets (TargetClaims),
commit the transition to status and then send what the Automation asks to be
sent (Delivery, Console). Around it stand the install and the uninstall
(Lifecycle).

What is hard, and what each component must get right:

* **Readings.** Two endpoints fail separately, lists come in any order, names
  collide, fields are missing. *Right*: a missing answer hides keys and changes
  none; no key speaks for the wrong thing.
* **Store, poller, receiver.** A flapping value must be believed late enough, a
  steady one early enough, and whoever can send deliveries must not be able to
  supply the samples.
* **Claim protocol.** Reconciles of different Automations run concurrently and
  write the same object, some writes with the object's resourceVersion and some
  without. A crash, a failed call or a timeout may fall between any two.
  *Right*: a level of Reactor's is never on a target without the target's own
  level on record; that record is made once and is true; when everything lets
  go the target is where it was found; once conditions settle the target is
  where they say.
* **Reconciler.** A transition is committed after the targets are written and
  before notifications go out; the cache lags, writes conflict, answers are
  lost, wakes are dropped. *Right*: nothing is sent twice or for a transition
  that was not committed; everything settles; a deletion ends.
* **Edge actions and client.** Retries, timeouts and sessions inside one budget.
  *Right*: what must not be repeated is not, no session is left, the report is
  true.
* **Console writes.** Documents without versions, a table that lags behind what
  is stored, a rack that is re-patched. *Right*: only the addressed field
  changes, on an object three parties agree about.
* **Uninstall and adoption.** One-shot programs that may be killed, overlap a
  manager or another release, and are run again.

`PROJECT.json` lists the hazards with their lines.

## 2. Modules

| Module | Models |
|---|---|
| `Arbiter` | `engine/arbiter.go` as a function of a set of intents |
| `ArbiterFold` | the same as the loops of the code, over every order of gathering, and `previewFor` |
| `StateKeys` | `Client.Observe` and every key it derives, as operators over a list of device records and a health answer |
| `Decision` | `StateKeys` and `ArbiterFold` composed: reading, conditions, claims, level |
| `Observation` | console, receiver, poller and store, with time |
| `TargetContract` | abstract: what the owner of a target may rely on |
| `TargetClaims` | one target and every Automation that references it; implements `TargetContract` |
| `Reconciler` | one Automation with its targets, queue, cache, status and transitions |
| `Destinations` | the allowlist of outbound addresses |
| `Delivery` | the edge actions of one transition and the outbound client (extends `Destinations`) |
| `Console` | the writer's exchanges with the console, several writers, a person at the UI |
| `AlarmRegistrar` | the registration of Reactor's alarm rule |
| `EdgeActions` | `Delivery`, `Console` and `AlarmRegistrar` composed |
| `ReleaseSweep` | the pre-delete hook against a manager that may still run |
| `AdoptCRD` | helm, the adoption hook and two releases |
| `Lifecycle` | `AdoptCRD` and then `ReleaseSweep` |
| `ArbiterProofs`, `ObservationProofs`, `TargetClaimsProofs`, `TargetContractProofs`, `ReconcilerProofs`, `EdgeActionsProofs`, `LifecycleProofs`, `DecisionProofs` | theorems |
| `MC*` | the instances TLC checks |

Operators whose comment begins with "Wrong:" are plausible mistakes in the
definition that follows them; no specification uses them. Each property of a
run is known to fail when one of them takes the definition's place.

### StateKeys and Decision

A device record keeps the fields from which keys are derived; parsing is left
out, a field the console may omit has a value for that. Each `...Keys` operator
is one tally or one block of `stateFromDevices`, `MergeHealth` is `mergeHealth`,
`Observed` is `Observe` with the set of endpoints that failed. A view is a set of
pairs of a key and its value, and that no key has two is checked and proved.
`Decision` reads
a list record by record, judges the conditions of four Automations against what
a poll sees (with or without one endpoint), and gathers the claims of those
that hold in every order. The debounce between the two is `Observation`.

### TargetClaims and TargetContract

A *pass* is one reconcile of one Automation. It is cut at every call to the API
server, so two passes interleave exactly as the program's goroutines can
between calls. `pass[a]` is what the Go code carries in local variables: the
peers as listed, the target as last read (`snap`), the folded claims, the level
to apply.

| Actions | Code |
|---|---|
| `Begin`, `HoldLastKnown`, `BeginFinalize`, `KeepFinalizer` | `Reconcile` up to `reconcileTargets`, its two held-state returns, `finalize`, `reconcileFinalizer` |
| `ListPeers`, `GetTarget`, `Fold` | `referencingAutomations`, `r.Get`, the loop over peers with `matchingOf`, `claimFor`, `reversalFor` |
| `Decline`, `Claim`, `Release`, `LeaveAlone` | `declineTarget` and the `switch` at the end of `reconcileTarget` |
| `ReadLevel`, `RecordBaseline`, `RecordConflict`, `RereadTarget`, `RefreshClaimants` | `recordClaim`, `setAnnotations`, `patchAnnotations` |
| `ReadScale`, `UpdateScale`, `ScaleConflict` | the apply of `replicaHandler`: two calls, the second with the resourceVersion of the first |
| `ApplySwitch` | the apply of `switchHandler`: compares with the snapshot, patches without a lock |
| `ClearAnnotations` | `clearAnnotations`, without a lock |
| `Commit`, `Finalized`, `ReportFailure`, `GiveUp`, `DropReport` | the status write, `recordApplyFailure`, the end of `finalize` |
| `Fail` | a call that fails, or times out after it took effect |
| `Observe`, `Respec`, `Delete`, `Edit`, `Touch`, `Autoscale`, `Crash` | the environment |

`fresh` is the set of passes whose last-read resourceVersion is still the
object's: a write that changes the object empties it, a write with an
optimistic lock needs it. A write that changes nothing leaves the
resourceVersion alone, as the API server does. `author`, `original`,
`missedClear`, `missedClaim` and `crossed` are history: no guard reads them.
`crossed` becomes true when a pass writes a claim after a concurrent release
took the annotations it had read, or clears annotations after a concurrent
claim wrote a level. It says precisely when finding 1 (below) can happen, and
that nothing else can.

The level of a switch is 0 (set, restrictive) or 1 (clear), as in `targets.go`.
An Automation's actions, `onExit` and reversal policy are constants;
`spec.suspend` and `spec.dryRun` change (`Respec`).

`TargetContract` has a level, a record and the author of the level, and six
steps: `Record`, `Put`, `Restore`, `Forget`, `Abandon`, `OwnerEdits`. The
mapping takes them from the target and the history variable `author`.
`ImplementsContract` holds with one worker (checked, and proved in
`TargetContractProofs`); with two it does not, and finding 1 is a behaviour that
shows it.

### Observation

Time is discrete. The poller is one goroutine, so a poll and the store update
it ends in are one step, and time does not pass while a poll is due.
`TakeDelivery` is the `<-p.Nudge` branch of `awaitNextObservation`,
`FloorPassed` is `waitFor`, `Rest` is `ticker.Reset` (which also discards a tick
that has fired meanwhile). `streak`, `steady`, `last` and `cause` are history.

### Reconciler

The object at the API server (`stored`), the versions of it the informer has not
delivered (`feed`) and the one it holds (`cache`) are apart; a pass works on a
copy of the cached one and its writes conflict when that copy is no longer
current. The queue has one entry for the key: none, delayed, ready. A target is
held or not, reachable or not. `EvaluateBlind` is an Automation that cannot read
its state, `TargetFails` a failing target that ends the pass,
`RecordApplyFailure` counts it, `Commit` writes the transition, after which
`RunEdgeActions` sends. `PollUnheard` is a full wake channel, `Crash` a restart:
the pass, the queue, the feed and the store are lost. `unsent` and `roused` are
history: the committed transition nothing has been sent for, and whether
anything other than the object's own status write has queued it.

### Delivery, Console, AlarmRegistrar, EdgeActions

`Delivery` counts time in ticks: each call chooses how long it took, what came
back and whether the far end acted. `at` is the step of the client: build,
login, act, logout, judge, wait. `cookie` is the session the client knows of,
`sessions` those open at the far end, `orphans` those whose login reply or
logout was lost; `performed` counts what the far end carried out.

`Console` has the documents the console stores, and the table it reports of
them, which `ApplySettings` brings up to date later. A writer logs in, reads,
decides (`Look`), writes the whole document back (`SendWrite`), logs out. A
person changes, renames and re-patches things meanwhile. `fresh` and `truth` are
history.

`EdgeActions` hands a console action of `Delivery` to a writer of `Console` and
takes its report back. What is followed when: the console's world while the
transition at hand has a console action, the registrar in the behaviours whose
transition has none. Neither shares state with what is left out.

### ReleaseSweep, AdoptCRD, Lifecycle

The sweep is cut at every call; the manager it tries to stop is the claim
protocol seen from outside (record, write, restore, forget). The pod of the hook
may be killed and started again. `overlapped` says that a sweep listed the
Automations with the manager's process still there: the code goes on
("releasing anyway"), promises nothing, and the properties are about the other
behaviours. `AdoptCRD` has two releases that render, adopt, apply and roll out;
`raced` marks two hooks that held the same unowned CRD, read, at once.

## 3. Runs

Every bound is a constant given by a `.cfg` or an MC module. In `TargetClaims`
and `Reconciler` only the disturbances of the environment are bounded (`Limit`:
how often each may happen); reconciles run for ever. In `Observation` only the
history counters stop (at `Horizon`, which exceeds every threshold a property
compares them with).

| Run | Instance | Question |
|---|---|---|
| Decision | lists of up to 2 of 20 records, 24 health answers, 4 Automations, 3 levels, every order | is a level decided by what the console said, whatever was missing and in whatever order it came? |
| Serial | 2 Automations, 1 worker, at most 4 disturbances (polls, a suspension, deletions, an owner's edit, an autoscaler, failed calls, a crash) | without concurrency: is every held target recorded, does every target come back, is nothing left after deletion, is every step one of the contract? |
| Concurrent | 2 workers, a switch target, mixed reversal policies, 2 polls, 1 foreign write, fairness | is the baseline recorded once and right when two claim at once, and does the target end where the conditions say? |
| Observation | keys of 1 and 3 samples, interval and floor 2 | is a value believed on the evidence asked for, not sooner and not later? |
| Reconciler | 2 targets, budgets of 2 attempts, at most 4 disturbances, fairness | is what is committed true and what is sent sent once, and does it settle? |
| Lifecycle | 2 targets, of which 3 Automations want different levels or none back, 2 releases, 2 failed calls, 2 pods of the hook | is nothing left behind by an uninstall, and the CRD never taken from its release? |
| EdgeActions | lists of 0 to 3 actions of 7 kinds, a budget of 5 ticks, 3 attempts; 2 console writers, 2 writes, 1 change by hand; 3 starts of the registrar | is everything carried out and reported as promised? |
| Stranded, Newborn, Away, Retry, Skipped | expected violations | the findings |

Why the bounds are enough. Two Automations are enough for every interaction of
the claim protocol: a fold treats its peers alike, a write is overtaken by one
other write, and the levels 0, 1 and 2 distinguish "shed", "shrunk" and "as
found"; two polls let a condition come and go, and the first also ends the
blindness a manager starts with. A replica target and a switch are checked in
one of the two runs each; the proofs cover both in both. Two records are enough
for a fold over a fleet to be wrong about order or about a shared name, and the
twenty include every branch of every tally. Two targets are enough for the first
to fail before, after or between the other's writes. The budget of five ticks
with attempts of two and pauses of one and two is spent in the middle of an
attempt, of a pause and of a logout. Two writers are enough for one to write
between the other's read and write. Two releases, two pods of the hook and two
failures let each one-shot program meet another and its own half-finished
predecessor. The uninstall of *Lifecycle* is followed from an installation
without a failure or a race only, and the installation while no Automation is
registered: the two share the operator that runs and nothing else, and
`LifecycleProofs` proves the same properties of `Spec`, where neither is
restricted.

Deadlock is not checked, because each of these systems may stop: the
environment's bounds are used up and nothing is queued, the transition is over,
the list is read, the hook is done.

**Fairness.** *Concurrent*: weak fairness of `Proceed(a)` (a started reconcile
runs on, each of its calls being bounded by the action's timeout) and strong
fairness of starting a reconcile (each Automation is requeued every 15 s and the
queue is first in, first out, so a worker that becomes free again and again is
given to each of them in the end). *Reconciler*: weak fairness of a pass in
flight, of handing out a ready entry, of a delay passing and of the informer
catching up. Nothing is assumed of polls, failures, users or the console.
`Settles` is therefore about the code asking for the next pass on every way out
of one: the run contains the lost wake.

## 4. Proofs

All are for any set of Automations (finite where workers are counted), levels,
targets, keys, sample counts, intervals, budgets and worker numbers, for both
kinds of target, any list of edge actions, any documents of the console and any
number of its writers and of releases.

An invariant a run checks is seldom inductive. Each proof module states the one
that is, as named parts; its lemmas take one action each; TLC checked the
strengthened invariants on the instances of the runs before they were proved.

*TargetClaims.* `IInv` adds to `HeldIsRecordedUnlessCrossed` that each pass in
flight is sound, a conjunction of four named parts. `Armed`: a pass about to
write knows its level, and records only over a snapshot without a baseline.
`Current`: a snapshot that is still fresh equals the target, and the level found
is the target's; this is what the optimistic lock buys, and why
`RecordsTheLevelFound` holds although the level is read one call earlier.
`Backed`: unless a release overtook the pass, what it saw recorded is still
recorded. `Owned`: unless a claim overtook it, a release about to clear has
restored the level. `HeldIsRecorded` is not inductive alone because a claim
writes its level several calls after it looked at the record. The step lemma
has one case per action. From it:

* `TypeCorrect`, `ClaimsAreBacked`, `BaselineIsRecordedOnce`,
  `TheLevelFoundIsRecorded`: always.
* `SerialNeverCrosses`, `SerialClaimsAreBacked`: with
  `MaxConcurrentReconciles = 1` no pass overtakes another (`Alone`) and so
  `HeldIsRecorded` holds without exception. The code's value is 4: this is what
  finding 1 costs, and what a lock on the clearing patch would give back.
* `DryRunIsDry`: a dry-run install writes nothing to a target, with any number
  of workers. No run checks it. `Harmless` says that no pass of such an install
  reaches a write.

*TargetContract.* The theorems assume one worker, so that the pass in flight is
alone (`Alone`).

* `SerialImplementsContract`. `Placed` adds to `IInv` what makes a step of the
  pass a step of the contract: a record seen is the record there is, the level
  about to be written was asked for by someone or is the recorded one, and a
  write of a claim or a clearing happens only over a record. The step lemma
  again has one case per action, each a named step of `Contract!Next` or a
  stutter.
* `SerialRoundTrip`. `FoundAtHome` (while nobody edited the target, what is
  recorded, or the level if nothing is, is the original one) is inductive only
  with `Homing`: a pass that is about to clear has put the original level back,
  and one about to reverse goes there. It assumes `Askers = Automations`: an
  Automation whose condition holds but which has no action on the target would
  let it go without a reversal, after another gave up its release
  (`recordApplyFailure` and the no-claims branch of `reconcileTarget`).
* `SerialNothingLeftHeld`. Once every Automation is gone, or has given up, the
  target is not held. A deletion may leave the target to a peer that still
  counts, so it is the last one (`LastOne`) that must take the record with it:
  its pass finds no peer and no claim, can only release, and ends with nothing on
  record (`Parting`). `Departing` adds that who is not gone has a finalizer, so
  that nobody but the last is out of reach of a listing; `LeaveInv` says it of
  the behaviours in which no release was given up. The theorem assumes that
  every Automation has its finalizer when the operator starts. Without that it
  is false, which is finding 2: the peer deferred to may have none.

*Reconciler.* `Informed` says what the informer guarantees: versions reach the
cache in order, a deletion is never taken back, and a finalizer seen on a live
version is still there until the deletion. `Grounded` says what a pass may rely
on: if its copy is current it equals the stored object, it touches targets only
under a finalizer that is still there, and the targets behind it are where it
put them. From the two, by one case per action:

* `ReconcilerTypeCorrect`, `HeldIsRegistered` (the finalizer precedes every
  claim, however stale the copy that the pass read), `CommitsFollowTargets`.
* `EdgeActionsSentOnce`, `WhatIsSentIsStored`: a pass reaches its edge actions
  only through a status write under the resourceVersion it read, so a stale copy
  cannot send the same transition again.

*Observation.* `CandidatesStayAlive` (a candidate never outlives its key or its
threshold), `DeliveriesStartADebounceAtMost` (the reading that promotes a
debounced value came from the ticker; the invariant adds that nothing is
proving itself while a delivery is being obeyed) and `ChangesAreDebounced`
(`Backed`: behind a candidate that counts c there are c readings in a row, c - 1
intervals apart). `FlooredHolds`: deliveries never bring polls together.
`ReportedWithinBoundHolds`: a bound on time, which needs to know how far the
evidence has come: of a value that holds, each whole `Longest` that passed has
brought one more confirmation (`Timely`, `Confirmed`).

*EdgeActions*, over `Delivery`, `Console` and `AlarmRegistrar`. `Inv` has a part
for each, and the steps that two of them share are lemmas of their own.

* `DeliveryInv`. `Counted`: what is reported agrees with what was performed, and
  nothing was performed of an action whose turn has not come. `Underway`: the
  attempt in flight is the first unless the request may be repeated, and was
  performed at most once. `Held`: an open session is the one whose cookie is
  held, or its end was out of reach. `OnTime`: only a logout comes after the
  budget. `Quiet`: nothing leaves an install that is off. From it
  `AtMostOnceHolds`, `SessionsEndedHolds`, `WithinBudgetHolds`,
  `ReportedAsItWentHolds`, `OffMeansOffHolds`.
* `ConsoleInv`. `Fit` says what a writer's record tells at each of its points; a
  body about to be written is of the right shape (`Meant`) and, while the
  document is the one that was read, addresses the object named (`Named`). From
  it `SuccessMeansSetHolds`, `NoSessionLeftHolds`, and of every step
  `OnlyTheAddressedHolds` (for devices with any number of outlets) and
  `AgreedWhenWrittenHolds`.
* `RegistrarInv`: unless two creates crossed, a rule is about to be created only
  where there is none and none on its way. From it `OneRuleHolds`.

*Lifecycle*, over `AdoptCRD` and `ReleaseSweep`.

* `AdoptInv`: unless two hooks raced, a hook about to patch is the only one and
  the CRD nobody's, and a release that rolls out owns a schema at least its own
  (`Follows`). From it `SchemaBeforeOperatorHolds` and `NeverTakenHolds`.
* `SweepInv`: unless the sweep overlapped the manager, a held target has its
  record (`Safe`), the manager writes only over a record and forgets only what
  it handed back (`Working`), and once the list is taken the sweep is alone, with
  the finalizers and records that remain still on its list (`Alone`). From it
  `SweptCleanHolds` and `SweepKeepsTheRecordHolds`. The proof corrected the
  latter: a recorded baseline may equal a claim of Reactor's where no Automation
  wants that level back, because a target left at a claimed level by an earlier
  release is recorded as found there by the next claim. The instance of the run
  now contains such a target.

*Arbiter.* `MeetIsLeast` from the well-foundedness of the naturals;
`JoiningNeverRaises`, `ResolveIsSound`.

*Decision*, over `ArbiterFold` and `StateKeys`.

* `OrderIndependentHolds` is an induction over the slice, and an induction over
  data is out of reach; but the slice is gathered one claim at a time, so it
  becomes an induction over the behaviour. `Computed` says of a slice that the
  running minimum over it exists and ends in the meet, `OneRound` that one claim
  more keeps that. `PreviewHolds` applies `OneRound` to the slice in force and the
  claim of the preview.
* `PartialViewHolds`, `QualityHolds`, `NoNameHolds` assume nothing of a device
  record. `Speaks` gives each block of `stateFromDevices` heads of its own among
  the keys, so that no block speaks for another (`SaidByBlock`), and
  `LiveIsClaimed` ties the index of the live uplink to the one port that the
  gateway claims or names.
* `AlarmsHold`. `Grows` relates a list to the list with one record more: what
  counted goes on counting, and the first of a kind stays the first.

Assumptions are those the modules name (`ConstantsAssumption` and its like),
evaluated by TLC in every run.

**Only model-checked:** `Converges`, `Settles` and `DeletionEnds`; liveness, and
ENABLED, are beyond the prover. Every other property of a passing run is stated by
a theorem. Four of those theorems assume one worker. `HeldIsRecorded`,
`NothingLeftHeld` and `ImplementsContract` are false with two, which is finding 1.
`RoundTrip` with two is open: TLC finds no counterexample within the limits of
*Newborn*, and no proof was found.

## 5. Findings

1. **Stranded.** A release clears the annotations without a lock after a
   concurrent claim has applied its level on the strength of them. The target
   stays at Reactor's level with no baseline, and the next claim records that
   level as the baseline. `arbitration.go:787-789` says the annotations come off
   only once the value they describe is restored.
2. **Newborn.** A deletion defers to a peer that has no finalizer yet; that peer
   is deleted at once; the target stays held. `automation_controller.go:429-430`
   says there is no such window.
3. **Away.** A debounced key missing from one reading returns with a new value
   that is believed on one sample, on a delivery as well.
   `adding-a-provider.md:159` says promotion always comes from the poll cadence.
4. **Retry.** The watch on Automations has no predicate, so the status write
   that counts a failed attempt queues the Automation again at once: the
   backoff (`concepts/arbitration.md:29`) is not waited for, five attempts pass
   in a burst, and afterwards the failing goes on.
5. **Skipped.** An outlet action trusts `outlet_table`, which may lag behind the
   overrides an earlier action stored: it writes nothing, reports success, and
   the outlet ends the other way. `write.go:806-809` says the lag costs only a
   write that was not needed.

Smaller disagreements met on the way, none with a run of its own:

* `client.go:696`, `crossCheckOverTime`: a failover during which the carrier is
  unknown for one poll is logged as "isp moved without wan".
* An outlet without `relay_state` does not count as sharing a name
  (`outlets.go`), so its namesake is published although the address is
  ambiguous. Two uplink claims that name different backups are not logged as a
  disagreement; `checkLastWANStatus` takes WAN2 for any backup.
* `status.lastTransition` is "the state change that last flipped Matching"
  (`automation_types.go:1049`). A failed apply has already stored the new
  `observedState`, so when a later pass commits the flip there is no difference
  left to report and the field keeps the transition before. The Event of a
  transition is raised before the status write that commits it and may be
  repeated; `operations/events.md:29` says `RetryBudgetExhausted` replaces
  `ActionFailed` exactly once.
* `destination.go:47` says a wildcard entry matches one level of subdomain; it
  matches any depth. A redirect that is refused counts as transient and is
  retried. Go's HTTP transport may itself repeat a GET on a reused connection,
  also for an action with `idempotent: false`.
* A login answered with 200 and no CSRF token leaves its session open, and the
  registrar never logs out.
* Two workers that switch two outlets of one UPS at once: the second write
  carries the first one's old entry back (`OnlyTheAddressed` excepts documents
  that are no longer fresh).
* After the webhook token is rotated the rule on the console, which is never
  edited, posts deliveries the receiver rejects.
* `main.go:521-526` says that whatever is wrong with the webhook fast path the
  poller is added regardless; an error of the registrar or the receiver returns
  before it is.

## 6. Not modelled, and the plan

Not modelled: rendering of templates (an action renders or it does not), parsing
of console documents and configuration, Events and metrics, CRD schema and
generated code, the chart except its adoption helper. HTTP is a call that
succeeds, fails or loses its answer. The mock console is modelled only as far as
the writer and the registrar talk to it.

Deliberate limits. In `TargetClaims`, `Begin` reads the Automation, updates its
finalizer and evaluates its condition in one step; `Reconciler` takes these
apart. `TargetClaims` has one target and `Reconciler` abstracts arbitration:
several targets shared by several Automations are composed nowhere but in
`ReleaseSweep`. The edge actions of two Automations meet only at the console.
Debounce (`Observation`) and derivation of keys (`StateKeys`) are joined by the
map of keys alone and not checked together.

What is left: a composition of `Reconciler` with `Observation`, so that a poll's
debounce and a lagging cache meet.
