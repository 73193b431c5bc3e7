# NIO: a TLA+ verification project

NIO is a Kubernetes operator that runs Nix workloads and converges NixOS hosts.
This directory models the controllers that carry its own logic, checks them with
TLC on small instances and proves the most important facts about them with TLAPS
for every value of the constants. `PROJECT.json` maps every definition to the
lines it models, and lists runs, mutants, hazards, findings and theorems.

## 1. Inventory

All controllers run in one manager (`cmd/main.go`). Each has one worker, reads
through the manager's informer cache, which follows the API server with a delay,
and writes to the API server, which rejects an update whose `resourceVersion` is
old. They never call each other: they meet in the objects.

| Component | State it keeps | Operations | Interacts with |
|---|---|---|---|
| **NixosConfiguration orchestrator** (`nixosconfiguration_controller.go`, `_children.go`) | status: phase, conditions, `fullDiskInstallCompleted`, install and removal retry counters; finalizer | ownership gate, machine gate, install, day-two, decommission, write-back | creates an install NixJob, a day-two NixCronJob and a decommission NixJob; reads and stamps the Machine |
| **NixJob** (`nixjob_controller.go`) | status: phase, resolved and rolled-out revision, active Job, counters; finalizer | resolve, gate on infrastructure, create a run-Job per revision, observe, prune history | batch Jobs, git, NixStore, NixBuilder |
| **NixCronJob** (`nixcronjob_controller.go`) | status: phase, rolled-out revision, last successful time | project onto a native CronJob, immediate run on a new revision, observe | CronJobs, Jobs |
| **NixCluster** (`nixcluster_controller.go`) | status: selected members per group, phase, conditions | sticky member selection, one converge NixCronJob for all members, builder coverage, suspension | Machines, NixCronJob, NixBuilder |
| **Machine** (`machine_controller.go`) | status: discoverable, architecture, applied configuration | SSH probe, architecture scan, credential lookup | Secrets, hosts, the orchestrator's stamp |
| **NixStore / NixBuilder** | generated keys, readiness | create Secrets and workloads, report readiness | gates of all workloads |
| **NixDeployment / NixStatefulSet** | status: revisions, phase | project a revision onto a native workload, observe | Deployments, StatefulSets, Pods |
| **Shared workload lifecycle** (`nixworkload.go`) | finalizers, conditions | `resolveInfra`, owned builder, ConfigMap of additional files | all workload kinds |
| **Source resolution** (`nixresolve.go`, `gitauth`) | none | a ref to a commit, credentials | git servers |
| **Pod rendering** (`nixrender.go`), **SSH client**, **metrics** | none | text, I/O, counters | |

Behaviours that are hard to test, in the order of their cost:

* A reconcile is a sequence of API calls. Between two of them the user edits or
  deletes the object, a call fails with or without effect, or the operator restarts. The
  orchestrator keeps facts that must not be lost (the host is installed: reinstalling
  wipes it) and counts that bound destructive work.
* Reads are old. A pass may act on a copy that misses its own last write, find
  no child where one exists, or decide on a list that has changed.
* A status write on a watched object is an event of its own: a controller that writes
  on every pass wakes itself.
* Objects are found by name. What a deleted owner left behind, still waiting for the
  garbage collector, looks like one's own.
* Ownership of a machine is decided from creation times of one second's
  resolution and re-decided by every pass, while children already started run on.
* A child is recreated under the same name; its outcome, its deletion and its
  successor's creation must not be confused.
* A report is put together from several objects that change in any order: the child's
  phase, its stall, the outcome of its latest run, counters of a generation before.
* Everything is retried by requeueing; nothing times out, so each loop needs an
  argument that it ends.

What makes each component correct:

* Orchestrator: no second install once a success was seen; retries bounded;
  stored completion and user writes never overwritten; an install that fails for
  ever ends in Degraded; deletion always completes and leaves no job and no stamp;
  one configuration drives a machine and the rightful one is never stuck.
* NixJob: reports outcomes as the orchestrator expects; a rolled-out revision
  really ran; pruning never stops a run; suspension stops runs; the report
  settles on the ref's revision.
* NixCronJob: suspension stops the native CronJob; runs do not overlap where that
  is forbidden; every new revision gets its immediate run; health follows the
  latest finished run.
* NixCluster: members stay selected while they match; the converge cron targets
  exactly the members, and is stopped when the builder cannot serve one of them; phase
  and member statuses agree; removal leaves no cron.
* Machine: discoverability and architecture follow a host that announces nothing;
  probes are paced; the applied stamp survives them.
* NixStore and NixBuilder: a key handed out is never replaced; the published key is
  the one the replicas loaded; ready means what dependants rely on, and they notice when
  it ends.
* NixDeployment and NixStatefulSet: a rolled-out revision really ran; the native
  workload and the report settle on the revision of the ref.

## 2. Modules

`X <- Y` reads "X extends or instantiates Y".

* `Informer`: one Kubernetes object as a log of versions from the cached one
  (first) to the stored one (last). `Put` writes, `Delivered` is a watch event,
  `InSync` says that a write with the cached `resourceVersion` is accepted,
  `Relisted` is a restart. A constant bounds the lag.
* `NixosConfiguration <- Informer`: the orchestrator. `cfg`, `inst`, `dec`,
  `cron`, `mach` are logs of the configurations, their three children and the one
  Machine they all target; `ctl` is the running reconcile (program point, working
  copy, whether that copy and the Machine's copy are still current, the host it read).
  Of the text that a child is built from, what tells one run from another is kept: how
  often the flake part of the spec and the host of the Machine were edited. The
  remaining variables are history that only the properties and bounds read; `ran`, what
  the last run was started with, also decides whether a child has to run again.
* `NixJobChild`: the abstract promise of a child NixJob: an outcome is reported
  once, a success is taken back only after something moved, a child being deleted
  reports nothing new.
* `NixJob <- Informer, NixJobChild`: the NixJob controller with its run-Jobs, the
  git ref, infrastructure readiness, the batch, TTL and garbage controllers.
* `NixCronJob <- Informer`: the NixCronJob controller, the native CronJob it
  projects, scheduled and one-off runs, and the clock their ends are compared by.
* `Machine <- Informer`: the Machine controller with its work queue (event, timer,
  error), the Secrets, the host behind the Machine and the orchestrator's stamp.
* `NixCluster <- Informer`: the NixCluster controller, the fleet it selects from, the
  builder and the converge NixCronJob with whatever it reports.
* `Infra <- Informer`: the NixStore and NixBuilder controllers, key Secrets, Services,
  StatefulSets with the keys that their replicas loaded, and a workload that goes through
  `resolveInfra`: the ConfigMap of its inline files, its dedicated builder and the key it
  trusts.
* `Rollout <- Informer`: the NixDeployment and NixStatefulSet controllers, the native
  workload with its counters, and its pods, each of a revision, which a Deployment
  replaces with one pod of surge and a StatefulSet one by one.
* `MCNixosConfiguration`, `MCNixJob`, `MCNixCronJob`, `MCMachine`, `MCNixCluster`,
  `MCInfra`, `MCRollout`: values of the constants that a `.cfg` cannot write.
* `Informer_proofs`: what a log holds after each of its operations, and induction over
  finite prefixes of the naturals as a statement about sets.
* `NixosConfiguration_proofs`, `NixJob_proofs`, `NixCronJob_proofs`, `Machine_proofs`,
  `NixCluster_proofs`, `Infra_proofs`, `Rollout_proofs`, each extending its module and
  `Informer_proofs`: theorems.

### Actions and code

Every API write of a reconcile is one action, together with the decisions that
follow it up to the next write; `AfterError` gives, for each point, where the
code goes when its call fails. In the orchestrator:

| Code | Actions |
|---|---|
| `Reconcile`, finalizer, shared `Status().Update` | `Reconcile`, `AddFinalizer`, `StatusUpdate`, `DropOnConflict` |
| `runStateMachine` gates, `machineOwner`, `configEarlier` | `Blocked`, `SuspendDayTwo`, `PassGates`, `OwnsMachine`, `ConfigEarlier` |
| `reconcileInstall`, `ensureInstallNixJob` | `CreateInstall`, `InstallChild` (an existing child's spec is written anew before its status is looked at), `InstallConflict`, `InstallSucceeded`, `InstallWait`, `InstallExhausted`, `InstallRetry`, `DeleteFailedInstall`, `DeleteDoneInstall` |
| `markFullDiskInstallCompleted`, `bumpOnRemoveRetries` | `MarkFullDiskInstallCompleted`, `BumpOnRemoveRetries`, `RewriteFails` (a RetryOnConflict loop is its accepted attempt, `Rewrite`, or its giving up; `Rewritten`: the pass goes on with the new status and resourceVersion and the spec it had) |
| `reconcileDayTwo`, `ensureDayTwoNixCronJob`, `writeBackMachineStatus` | `CreateDayTwo`, `DayTwoConflict`, `ObserveDayTwo`, `WriteBackMachineStatus` |
| `reconcileRemoving`, `clearMachineStatus`, `finalize` | `DeleteDayTwo`, `Decommission`, `CreateDecommission`, `ClearMachineStatus`, `DeleteFailedDecommission`, `DeleteDecommissionJob`, `Finalize` |

The environment (`User`, `MachineChanges`, `Workloads`, `Watch`, `ApiError`,
`AnswerLost`, `Crash`) may move between any two of them. `ApiError` is a call that
failed without effect, `AnswerLost` one that took effect and returned an error all the
same: a timeout, a lost connection. Where the code goes after an error is the same for
both (`AfterError`), and after the creation of a decommission job that is to finalize.
`AnswerLost` covers the calls whose error leads elsewhere than their success. Of the
others, either the next step is the same with and without the error, or the error ends
the pass, and then the call followed by `Crash`, or by an error of the next call, is the
same behaviour. The other modules follow the same rule: `ProjectAnswerLost` of
`NixCronJob`, `WriteAnswerLost` of `Machine` and `EnsureAnswerLost` of `NixCluster` are
the calls where it makes a difference; in `NixJob`, `Rollout` and `Infra` there is none.
A status update, `StatusUpdate`, changes the status and nothing else (`WithStatus`: the
API server ignores the rest in a write to the status subresource); `AddFinalizer` and
`Finalize` write the whole object.

In `NixJob`: `Reconcile`, `EnsureFinalizer`/`RemoveFinalizer`, `Suspended`,
`Resolve`/`GitError` (`resolveRevision`, `resolveInfra`), `EnsureRunJob`,
`Observe`, `ListOldJobs` and `Prune` (`gcOldJobs`: `Doomed` are the Jobs listed, each
with the time it was made, `Prune` deletes by name whatever is there), `StatusUpdate`.

In `NixCronJob`:

| Code | Actions |
|---|---|
| `Reconcile`, finalizer, `Status().Update` | `Reconcile`, `EnsureFinalizer`, `RemoveFinalizer`, `StatusUpdate`, `DropOnConflict` |
| suspension, `resolveRevision`, `resolveInfra` | `Suspended`, `Resolve`, `GitError` |
| `project` | `Project`, `ProjectFails`, `ProjectAnswerLost` |
| `revChanged`, `fireImmediateJob` | `RevChanged`, `FireImmediateJob` |
| `observe`, `lastFinishedRuns`, `latestRunFailed` | `Observe`, `LastFinished`, `LatestRunFailed` |

In the other modules:

| Module | Code | Actions |
|---|---|---|
| `Machine` | `Reconcile`: early status, finalizer, final status | `Reconcile`, `UpdateStatusEarly`, `AddFinalizer`, `UpdateStatus`, `Conflict` |
| | `reconcile`, `checkDiscoverable`, `buildSSHConfig`, `scanArchitecture` | `Probe` (`Probed`, `SSHConfig`, `ScanArchitecture`) |
| | `reconcileDelete`; `findMachinesForSecret`, `SetupWithManager` | `ReconcileDelete`; `MachineEvent`, `SecretEvent`, `Requeue`, `DiscoveryIntervalEnds` |
| `NixCluster` | listing, `matchingMachines`, `selectGroupMembers`, `checkBuilderCoversMembers` | `SelectMembers` (`Selection`, `Mismatch`), `InvalidGroups`, `BuilderUnreadable` |
| | `suspendConvergeCronJob`, `ensureConvergeCronJob` | `SuspendConvergeCronJob`, `EnsureConvergeCronJob`, `EnsureFails` |
| | `coarseMemberStatus`, `clusterPhase`, `convergeStall`, `setConditions` | `ObserveCron` (`Observed`), `StatusUpdate` |
| | `reconcileRemoving` | `DeleteCron`, `Finalize` |
| `Infra` | `ensureSigningKey`, `ensureSSHKeySecret` | `UseGivenKey`, `EnsureKey`, `RereadKey` |
| | `ensureService`, `ensureStatefulSet`, observation, `fail` of both controllers | `EnsureService`, `EnsureStatefulSet`, `Observe`, `StatusUpdate` |
| | `resolveInfra` | `EnsureAdditionalFiles`, `EnsureOwnedBuilder` (only past the store's guard), `ResolveInfra` |
| | `storeStartScript`, the Secret volume of `desiredStatefulSet` | `ReplicasStart` (`MountedKey`) |
| `Rollout` | `resolveRevision`, `resolveInfra`, suspension | `Resolve`, `GitError`, `Suspended` |
| | `project`, `observe`, `observePodInit` | `Project`, `ProjectFails`, `Observe` (`Report`, `RolledOut`, `ObservePodInit`) |
| | Kubernetes: pods, counters | `PodStarts`, `PodStops`, `BuildEnds`, `BuildRetries`, `NativeReports` |

Every module has a variable `set`, chosen in `Init` from the constant `Settings` and
never changed: the lags of the informers, the specs users write, and in most modules
the number of disturbances. One run then covers several conditions, such as two
disturbances with caches up to date, and one with a cache behind.

Operators whose comment begins with "Mutant" are not used by the specification.
Each is the definition that follows it with one plausible mistake, and is kept to
show that a property notices that mistake.

### How the two levels fit

`NixosConfiguration` lets its NixJobs move by `InstallEnds`, `InstallSucceedsLate`,
`InstallReruns`, their three counterparts for the decommission job, and `ReleaseChild`.
`NixJobChild` is those steps as a
specification of their own, and the run `NixJob` checks that the controller
implements it (`IsAChild`) with `child` mapped to the stored report and `moved`
to "the ref moved or a finished Job was reaped". An edit of the child's arguments, which
`InstallReruns` allows too, gives the composite revision another value just as a push
does, and is not an action of `NixJob` of its own. The mapping assumes that the
run-Jobs of a deleted child are collected before a child of the same name is
created (`OldRunsGone`); without it the promise breaks, see "Known behaviour". The
decommission job, alone of the two, has a TTL, so it may run again although its ref is
a commit. The day-two NixCronJob reports anything at any time
(`DayTwoOutcome`), Ready before its first run included; all that `NixosConfiguration`
assumes of it is that a success once recorded is not forgotten, which the run `Cron`
checks (`TimesNeverBack`).

`MachineChanges` of the orchestrator and `StampMachine` of `Machine` are each other's
view of the shared Machine; `ForeignStampIsKept` on one side and `StampIsKept` on the
other say that neither undoes what the other wrote. `InfraChanges` of the workload
modules is the readiness that `Infra` settles (`InfraSettles`). `CronReports` of
`NixCluster` is what `NixCronJob` reports, in any order.

## 3. What the runs check

| Run | Question | Result |
|---|---|---|
| `Orchestrator` | One configuration from creation to removal, two disturbances anywhere. `InstallRunsBounded`, `DecommissionsBounded`, `RetriesAreFailures`: destructive work is bounded, each disturbance buys at most one more run. `NoRecreation`: a success that was seen is never forgotten, no child is created again. `FinalizeLeavesNoOrphan`, `StampIsCleared`: removal cleans up. `UserWritesAreKept`. | holds |
| `Progress` | The cache of the configuration two events behind, that of its jobs with a moving ref or of its cron one; or two configurations, created in the same second or not, with the Machine's cache behind: `CompletionIsDurable`, `ForeignStampIsKept`; under fairness, in which a failed run need never succeed, `DeletionCompletes`, `InstallSettles`, `OwnerLeavesBlocked`, `LoserIsSuspended`. | holds |
| `NixJob` | Pushes, reaped Jobs, suspension, faults; or two incarnations with a cache behind; or the Job cache three events behind. `IsAChild`: it is the child the orchestrator expects. `RolledOutRan`, `PruneSparesRuns`, `SuspensionHolds`; under fairness `ReportSettles`. | holds |
| `Cron` | Scheduled and one-off runs ending in any order, in the same second or not, and being removed; a disturbance, or a cache behind. `TimesNeverBack`, `RolledOutWasFired`; under fairness `VerdictSettles`. | holds |
| `Machine` | A host that goes down, comes back and is reinstalled, Secrets and references that change, the orchestrator's stamp, faults, lagging caches. `StampIsKept`; under fairness `DiscoverySettles`, `ArchitectureSettles`. | holds |
| `Cluster` | Machines that come, go and are relabelled, overlapping groups, a count that changes, a builder that does not fit, reports in any order, faults, lagging caches. `NobodyIsDisplaced`, `ReadyIsHonest`; under fairness `ConvergeSettles`, `MismatchSuspends`, `RemovalCompletes`. | holds |
| `Infra` | Stores and builders edited, deleted and created again, lost Secrets and replicas, replicas that load a key when they start, inline files that change, faults, lagging caches. `KeyIsStable`; under fairness `InfraSettles`. | holds |
| `Rollout` | Pushes, edits, suspension, pods that build, fail and are replaced one by one or with surge, recreation, faults, lagging caches. `RolledOutRan` (StatefulSet); for both kinds, under fairness, `RolloutSettles`. | holds |
| `TwoInstalls` | `OneInstallPerMachine` | violated |
| `Reinstall` | `NoReinstall` with a branch as ref | violated |
| `CronSuspend` | `SuspensionStopsRuns` | violated |
| `HotLoop` | `ProbesArePaced` | violated |

### Findings

1. `TwoInstalls`. A configuration that is not the owner any more is Blocked and
   its cron suspended, but its running install child is left alone while the
   owner starts another on the same host.
2. `Reinstall` (`nixosconfiguration_children.go:188`). The install child follows a
   branch: a push between its success and its deletion runs nixos-anywhere again. So does
   an edit of what the child installs, with a commit as ref too: `ensureInstallNixJob`
   writes the child's spec anew (`nixosconfiguration_controller.go:566-568`) in the very
   pass that then handles the earlier success, and until the Delete at line 207 the
   NixJob controller may start a run for it. What does hold, where reads of the
   configuration are current, is that no second child is created (`NoSecondInstall`), and
   that there is at most one such run for each edit (`InstallRunsAreBounded`).
3. `CronSuspend` (`nixcronjob_controller.go:84`). A suspended NixCronJob returns
   before it projects, so the native CronJob keeps its schedule and starts runs; the
   day-two cron of a Blocked configuration and the converge cron of a cluster whose
   builder does not fit are suspended this way. `LoserIsSuspended` and
   `MismatchSuspends` are therefore about the NixCronJob's `suspend` and no more.
4. `HotLoop` (`machine_controller.go:99`). Each pass stores Reconciling=True at its
   start and False at its end. Both are events of the Machine, which is watched
   without a predicate, so the key is queued again during every pass and the host is
   probed without pause instead of once a minute.

### Known behaviour

What the models show beyond the findings, and the properties are stated around:

* `reconcileRemoving` finalizes on every error of `ensureDecommissionNixJob`. When the
  cache does not show the job of the pass before, that error is AlreadyExists, and the
  configuration goes while its decommission job runs, which nothing deletes then. The same
  happens when the Create took effect and its answer was lost (lines 345 and 630, then
  351): the pass is told that it failed, lets go, and leaves the job and, if there was one,
  the Machine's stamp. `FinalizeLeavesNoOrphan` and `StampIsCleared` exempt exactly the
  pass that was told so (`ctl.lost`).
* Whether the install is still due is read from the cache
  (`nixosconfiguration_controller.go:173`). The completion is stored before the child is
  deleted, and the comment at line 464 concludes that "no later reconcile can observe
  completion as false and recreate the child". A pass whose cached configuration is still
  the one before that write does observe it as false; if the child is collected by then
  it creates another, with a commit as ref too. It takes an informer two events behind,
  or one behind and a failed status write; a retry that is counted
  on an old copy is refused with it, and the install runs once more than it counts.
  `NoRecreation` and `InstallRunsBounded` are stated for a configuration informer
  that is not behind.
* `reconcileInstall` does not ask whether the child whose success it sees is being
  deleted (`nixosconfiguration_controller.go:197`). A child that was seen to have
  failed, and is deleted for a retry, may have succeeded in the meantime; if it is gone
  before the completion is stored, and that write fails, the next pass installs again. In
  `NoRecreation` a success seen in a child that is being deleted does not count as seen
  (`saw`).
* If the Delete at line 207 fails, the completed configuration goes on to day-two and no
  later pass comes back to `reconcileInstall`: the completed install child stays, and
  with a branch as ref it runs nixos-anywhere for each new commit.
* A removal that does not see the stamp of the pass before in its cached Machine takes
  the Machine for another's and lets go of the configuration, whose name stays there:
  `StampIsCleared` is stated for a Machine informer that is not behind.
* A removal that sees a failed decommission job after its deletion, because the informer
  of the NixJobs is behind, counts that failure again, and gives up a retry early.
* `gcOldJobs` deletes by name, without a precondition on the uid
  (`nixjob_controller.go:253`). With the informer of Jobs three events behind, a Job that
  it lists as finished may have been reaped and its name taken by a new run, which is
  stopped then. `PruneSparesRuns` says that this is the only way: the Job deleted is never
  the run of the current revision, and has finished unless it was made after the listed one.
* A NixJob recreated before its predecessor's run-Job was collected takes that Job
  for its own (`nixjob_controller.go:144`) and reports its outcome without running; an
  install retry can be spent this way.
* Whether Forbid stops the one-off run of a NixCronJob is decided from the active runs
  that the pass before stored (`nixcronjob_controller.go:188`), so two runs may overlap.
* The times that `latestRunFailed` compares are whole seconds. Its comment (lines 326-327)
  and `openspec/specs/nix-workload-kinds/spec.md:240,246` have the verdict follow the
  latest run, Degraded when "no success happened after" a failure. When a run succeeds and
  another fails later in the same second, line 332 takes the success for the later one,
  and the report settles on Ready although the latest run failed. The recorded times
  do not tell the two orders apart, so no comparison of them can be right for both;
  `VerdictSettles` accepts either verdict on a tie and only there.
* If `onRemoveFlake` is cleared or the Machine deleted while a decommission job exists,
  the job stays behind; removal does not stop a running install before it
  decommissions; with a TTL on its Job template a NixJob that runs once runs once per
  TTL, because the presence of the Job is the only memory of the run.
* `lastHardwareScanTime` is stamped only when the architecture changed, so once the
  interval is over every probe scans. A reason CredentialsMissing stays when the
  credentials are back and SSH fails.
* A NixCluster pass with an old copy of the status selects from the members of the
  pass before, and may write a cron with other nodes for one pass; a Conflict on the
  cron reports the cluster Degraded for one pass; the builder is not watched, so a
  change of it waits for the timer; the cluster is Ready as soon as its cron is, which
  may be before the first run.
* Stalled stays set while a store, a builder or a workload is Pending or Progressing
  again; only Ready clears it.
* Secrets, StatefulSets and Deployments of a deleted owner are taken over by the next
  one of the same name without a change of owner, then collected under it, and made
  anew by a later pass, with a new key where they hold one. `InfraSettles` and
  `RolloutSettles` check that this ends well.
* `observe` of a NixDeployment or NixStatefulSet reads the native workload from the
  cache right after `project` wrote it (`nixdeployment_controller.go:210`). A cache
  behind shows the old generation, complete and observed, and the workload reports
  Ready with the new revision before it runs; `RolledOutRan` is stated for a cache
  that shows the write, `RolloutSettles` without that restriction.
* The counters that make a NixDeployment Ready count different pods
  (`nixdeployment_controller.go:240-244`): `updatedReplicas` those of the new revision,
  ready or not, `readyReplicas` and `availableReplicas` the ready ones, of any revision.
  With the default strategy, which surges (lines 183-192), one replica and the new pod
  still building, all three are one, and the workload reports Ready with the new revision
  as rolled out, where `openspec/specs/nix-workload-kinds/spec.md:84-100` asks for every
  replica "updated and ready" and for Building until then. The model has these counters and
  shows this: `RolledOutRan` fails for a Deployment, and is stated for a StatefulSet,
  which starts a pod only when one is gone. `RolloutSettles` says of both that the report
  comes right in the end.
* A number of replicas that is reduced in the middle of a rollout makes the counters of a
  StatefulSet add up in the same way; `RolledOutRan` is stated for specs that agree on it.
* A StatefulSet replaces pods in order and waits for each: one whose build fails halts
  the rollout, of whatever revision it is. The report says Progressing then, and not
  Degraded, when the pod is one of an old revision (`Verdict`, `halted`).
* A replica of a store loads the signing key when it starts
  (`nixstore_controller.go:83-90`), and the pod template names the Secret only (line 371).
  When the Secret is removed, or belonged to a store before and is collected, the next pass
  generates another key and publishes it, but nothing restarts the replicas, which sign
  with the old one until somebody does. `InfraSettles` exempts the keys that were removed
  under the replicas that had loaded them (`removed`) and no other. The authorized SSH keys
  are loaded in the same way; the model follows the signing key.
* The ConfigMap of inline files and the dedicated builder are named after the workload
  without its kind, and the ConfigMap is deleted without a look at its owner
  (`nixworkload.go:186`): workloads of different kinds and the same name share them.

Two properties are stated around behaviour that is documented or only logged:
`VerdictSettles` also leaves out runs that are removed before a pass recorded their end,
and `RolledOutWasFired` one-off runs whose creation failed or that Forbid skipped:
their revision is recorded as rolled out all the same and waits for the schedule.

### Bounds, and why they are enough

* `Configs`: one configuration for the life cycle, since configurations share only
  the Machine and the ownership gate; two for ownership, since the gate compares
  pairs. Creations may be in the same second or later.
* Lags: one event for the informers a run is about, two for that of the configuration,
  three for the Jobs that a NixJob prunes. One event is a read that misses exactly the write
  the pass depends on; `Put` forces the oldest event out when the bound is reached. The
  crash and fault runs use no lag, the lag runs few faults: what section 4 lists without a
  premise is proved for every combination.
* `MaxUpsets`: two disturbances in `Orchestrator`, so that a fault in the recovery
  from a fault, an edit during it, or a machine change after it all happen.
* `MaxInstallRetries = 1`, `MaxOnRemoveRetries = 1`: a retry and its exhaustion.
  `MaxCount = 9` is above every count that the bounds of `Orchestrator` let a
  behaviour reach, so no counter saturates there; where no property counts it is 2. The
  failures that `RetriesAreFailures` compares with are not capped; there are no more of
  them than jobs and restarts of jobs. The theorems hold for every `MaxCount`, so they
  are about the true counts.
* `DayTwoResults` is a success in the passing runs: of a failed or progressing
  day-two cron the orchestrator only reports the phase; a success also stamps.
* `NixJob`: two revisions (the current one and another), history limit 0 so that a
  second finished Job is already too old; two moves of the ref or of a Job and a
  disturbance, or one of them with the informer of the NixJob or of the Jobs one event
  behind, and in the latter case two incarnations. A last setting has the informer of Jobs
  three events behind: while a pass sees no Job of a name, one of that name can then have
  been created, have ended and been reaped, so that the pass creates another; the cache
  shows the first one finished next, and a prune by name meets the second. With two events
  no pass can miss the first run and find its name free.
* `Cron`: two revisions, so two one-off runs, and one scheduled run; two seconds, so
  that any two ends may tie or be ordered; one creation of the name, since the code
  keeps nothing across incarnations but Jobs that its owner references collect.
* `Machine`: two architectures and noise, one owner to stamp with, a key or both
  credentials or none; two disturbances with current caches, one with a cache behind;
  the clock counts scan intervals, of which one has to pass.
* `Cluster`: three machines for a group of two, so that there is a newcomer below,
  between or above the members; two overlapping groups; two disturbances, one with the
  cluster's cache behind. Names are compared as numbers.
* `Infra`: two disturbances of one store whose spec changes its key, its replicas or its
  template; a store created twice with
  the Secrets' cache behind; the other caches behind one at a time, since no pass reads
  two of them in one decision; both kinds together; three contents of the files.
* `Rollout`: two revisions and three pods: for the two replicas of a StatefulSet or the
  one of a Deployment with its surge, and one that has to wait. A Deployment that is
  scaled to zero, or suspended and pushed to (two disturbances); a StatefulSet of two
  replicas, one created twice, and one with each informer an event behind. Builds may
  fail and be retried without bound. Pods are available when they are ready
  (`minReadySeconds` is 0 unless somebody sets it), so that the counters are two.
* `CHECK_DEADLOCK FALSE` everywhere: with the configuration gone and the
  disturbances spent, nothing is left to do.

### Fairness

* `WF(Step)`: a reconcile that started runs to its end; nothing in it waits.
* `SF(Reconcile(c))`: the work queue is FIFO and every pass ends by requeueing or
  by a write whose event wakes the watch (`SetupWithManager`), so a key is served
  again whenever the worker is free infinitely often. In the other modules there is
  one key and weak fairness is enough. In `Machine` that key must be in the queue,
  which is part of the model; in `Rollout` a suspended workload is not queued again by
  its pass, but the edit that resumes it does that, and extra passes change nothing.
* `WF` of each delivery: watches do not lose events for good.
* `WF(InstallEnds)`, `WF(DecommissionEnds)`, `WF(JobRuns)`, `WF(JobEnds)`: a batch Job has
  a backoff limit, so a run ends, one way or the other. That a failed one ever succeeds is
  not assumed: in `Progress` an install may fail for ever, and `InstallSettles` then
  says Degraded. A run that hangs forever is not claimed to be noticed.
* `WF(ReleaseChild)`, `WF(GarbageCollect)`, `WF(JobCollected)`: the workload
  controllers release finalizers, Kubernetes collects orphans.
* `WF(CronSyncs)`: the CronJob controller brings its status up to date. That it
  starts a run is not assumed.
* `WF(DiscoveryIntervalEnds)`: the requeue timer fires. The clock need not advance.
* `WF(NativeReports)`, `WF(PodStarts)`, `WF(PodStops)`, `WF(BuildEnds)`: the native
  controllers replace pods and count them, and a build ends somehow. The kubelet restarts a
  failing build as often as it likes (`BuildRetries` has no bound), under which a report
  flaps between Degraded and Building for ever; `RolloutSettles` says so in its
  premise `<>[][~Retried]_pods`: from some time on, no failed build is retried. That
  replicas of a store start or become ready is not assumed.
* Nothing is assumed of the user, the Machine, the host, the git server or day-two runs.

## 4. What is proved

A theorem holds for any values of the constants: any set of configurations, machines,
revisions or node groups, any retry caps and limits, any number of disturbances, any
setting and so any lag of the informers, except where a premise says otherwise. The
assumptions are the named `ASSUME`s of each module: names are numbers where the code
compares them, `None` is no object and no name, bounds are naturals, there is a
revision, and a setting has the shape it needs.

All proofs share a pattern. A property about stored objects is not inductive, because
what is written next is computed from a cached version or from the working copy of a
pass. The inductive invariant therefore says it of every version in a log, and of the
working copy; or it says what a copy that is still current (`ctl.fresh`) agrees with in
the stored object, which is what a write refused by its `resourceVersion` gives the
code. `Informer_proofs` has the lemmas about logs this rests on: what `Put`,
`Delivered` and `Relisted` leave, that without lag a cache stays in sync, that a log
over a set widens with the set, and that versions in an order stay in order.

### NixosConfiguration

* `TypeCorrect`: `TypeOK`. A write to the Machine copies the stored Machine, so the
  program points that write it need to know that it exists while the copy is current
  (`MachineCopy`).
* `CompletionDurable`, `UserWritesKept`, for every lag. A copy marked fresh agrees with
  the stored object in spec, deletion and completion (`CopyIsCurrent`), and an object
  was created once, so that a creation cannot replace one (`ExistsWasBorn`). Every
  accepted write then starts from the stored object (`WritesStartFromStored`).
* `ForeignStampKept`, for every lag. A removing pass works for a configuration whose
  deletion is stored (`RemovalKnows`), which a cache cannot show before it happened
  (`DeletionsAreStored`); and where its copy of the Machine is current, the stamp it is
  about to clear is its own (`StampKnown`).
* `NoSecondInstall`: `SettledReads => (Spec => NoRecreation)`. `SettledReads` is a
  configuration informer that is not behind; the ref may be a branch. `InstallInv`: a pass
  about to create or delete the install child knows about a stored completion; a success
  seen is remembered by the stored completion or by a succeeded child that is still there;
  the child is deleted only after the completion is stored. It holds through
  rewrites of the child and lost answers, the lost answer of the completion's write
  included.
* `InstallRunsAreBounded`, under `SettledReads` and a Machine informer that is not behind
  (`MachineReadsSettled`). Neither half of the bound is inductive. The count of retries
  lives in a pass's copy before it is stored: `Paid` adds to the children created the one
  that is open now (no child, or one about to be deleted for a retry) and the count that an
  edit has already made worthless, and bounds the sum by the retries at hand, faults and
  edits; a copy is at most one retry ahead of the store (`CopyCounts`). The further runs of
  a child are bounded because what it installs only moves on, from the user's edits
  through the stored objects and a pass's copies to the child and to its last run, and each
  step of it is an edit or a change of the Machine (`VersionsKnown`).
* `FinalizeLeavesNone`, under `JobReadsSettled` (the informer of the NixJobs is not
  behind): who creates the decommission job has read that there is none, and who lets go
  has read that none is needed, or deleted it, or was told that the one it created could
  not be (`NoOrphan`); a Machine that is gone stays
  gone (`MachineStaysGone`).
* `StampCleared`, under `JobReadsSettled` and `MachineReadsSettled`: whoever lets go
  without clearing has read that the stamp is another's, or could create no job, or was
  told so (`StampSafe`).
* `RetriesFailed`, under `JobReadsSettled`: the stored count, plus one for a failure that
  is pending, never exceeds failures and faults (`Due`); no write puts back an older
  count (`CopyRetries`).
* `DecommissionsAreBounded`, under `ReadsSettled` (the informers of configurations,
  NixJobs and the Machine are not behind) and `MaxOnRemoveRetries # 0`, which the code's 3
  satisfies: with a cap of 0 the first job is created all the same. `Tried` counts like
  `Paid`; retries beyond the cap count as the last one below it, after which no job
  follows.

TLC refutes `NoRecreation` and `InstallRunsBounded` without `SettledReads`,
`FinalizeLeavesNoOrphan`, `StampIsCleared` and `RetriesAreFailures` with a NixJob informer
one event behind, `StampIsCleared` with that of the Machine behind, and
`DecommissionsBounded` with that of the configuration or of the Machine behind: these
premises are about the code ("Known behaviour"), not about the argument. That
`DecommissionsBounded` needs the NixJob informer, and `InstallRunsBounded` that of the
Machine, to be current is a limit of the argument: TLC finds no violation with two events
of lag.

### The other modules

* `NixJobTypeCorrect`, with `Resolved`: a pass past `resolveRevision` has a revision.
* `NixJobRolledOutRan`: every version of the NixJob, stored, cached or in a pass's hands,
  names as rolled out only revisions that completed, and every version of a Job that
  shows completion is of a revision that did (`RanInv`).
* `NixJobSuspensionHolds`: a fresh copy knows about suspension and deletion, and where a
  pass is says what it read (`CopyInv`).
* `NixJobIsAChild`: `Spec => Child!Spec`, the refinement of `NixJobChild`. Initial
  states map to initial states; each step maps to a step of the child or to a stutter. It
  needs that the NixJob a pass works on, and whose run-Jobs there are, is the stored one
  (`Owned`); and that, until something justifies a new run, there is one run-Job, whose
  versions are in the order of the reports, and the stored report, that of a fresh pass
  and the cached Job follow each other (`Reported`).
* `NixCronJobTypeCorrect`: no time anywhere is after the clock, and `lastFinishedRuns`
  takes the latest of a set that has one (`LeastNat`, `GreatestNat`).
* `NixCronJobTimesNeverBack`: a fresh copy is never behind the stored times (`Ahead`).
* `NixCronJobRolledOutWasFired`: every version is right about what was fired
  (`Recorded`), a pass about to record a revision has seen it fired (`Fires`), and before
  that no Job has its name (`NoJobBefore`), so that AlreadyExists proves a firing.
* `MachineTypeCorrect`, `MachineStampIsKept`: a fresh copy has the stored stamp.
* `NixClusterTypeCorrect`, `NixClusterReadyIsHonest`: every version, and what a pass has
  in hand, is honest (`ClusterInv`), because the phase and the members' statuses are
  written by different passes.
* `NixClusterNobodyIsDisplaced`: what `selectGroupMembers` keeps, for any groups with
  overlapping selectors. The selection is a recursive function over the groups and takes
  the lowest names of a set; that each prefix of the groups has the property is shown by
  induction over a set of naturals (`SetInduction`), which needs no operator parameter.
* `InfraTypeCorrect`, `InfraKeyIsStable`: a key is written only where no Secret is stored;
  a Create over one that the cache hides is refused. There is always a new key to generate,
  because the keys in Secrets and those that replicas loaded or were removed under them
  are finitely many (`KeySets`).
* `RolloutTypeCorrect`, `RolloutRolledOutRan`. For a StatefulSet whose specs agree on the
  replicas and an informer of native workloads that is not behind (the property says so
  itself), a pass observes what it projected (`NativeFollowed`) and there are never more
  pods than replicas (`PodsFit`). Updated and ready pods are two sets of at most that many;
  when each has that many they are the same set (`AllRun`), so the counters, taken in
  one report of the native controller, do vouch for a run. Every version of the workload,
  cached or in hand, is honest about it (`ReportsHonest`).

Every safety invariant of the runs, and every action property but one, is thereby
proved. Only model-checked are:

* Liveness, which with fairness and ENABLED is out of the prover's reach:
  `DeletionCompletes`, `InstallSettles`, `OwnerLeavesBlocked`, `LoserIsSuspended`,
  `ReportSettles`, `VerdictSettles`, `DiscoverySettles`, `ArchitectureSettles`,
  `ConvergeSettles`, `MismatchSuspends`, `RemovalCompletes`, `InfraSettles`,
  `RolloutSettles`.
* `PruneSparesRuns` of `NixJob`, checked with a Job informer up to three events behind.
  A proof has to relate the times of the Jobs in one log, over several lives of a name.
* What a recursive definition computes for every input, beyond the set-based inductions
  above. No module uses a RECURSIVE operator, so that all stay provable.

## 5. What is not modelled

* Text: pod templates, scripts, messages, events, metrics, and the ls-remote
  output. SSH and git as I/O: a probe or lookup has an outcome.
* Of the orchestrator: the conditions other than Applied, which are functions of
  the phase.
* Of the shared lifecycle: validation of paths, the index functions of the watches (a
  pass is queued by every pass, so they only make it sooner), and two workloads of one
  name. The source of a revision (a pinned commit, a Flux artifact, `ls-remote`) is the
  revision it gives.
* Of NixStore: a key Secret without its public entry, which fails every pass until
  somebody repairs it. Of the StatefulSets: the fields that Kubernetes refuses to change.
* Of a NixJob: edits of its `run` and `args`, which change the composite revision as a
  push does; in `NixosConfiguration` they are what `InstallReruns` follows.
* Of pruning: Jobs with equal creation times, whose order the sort leaves open.
* The orchestrator's children are modelled with their finalizer already set; one
  deleted before its controller saw it goes at once, which is a `ReleaseChild`
  right after the deletion.
* Of the native CronJob: its schedule, deadline and the Replace policy, which neither
  the day-two nor the converge cron uses.

## 6. Plan

1. `PruneSparesRuns` proved: the invariant has to order the times at which the Jobs of one
   name were made along its log.
2. `DecommissionsBounded` without the premise about the NixJob informer.
3. An abstract child for the day-two and the converge cron, as `NixJobChild` is for
   the NixJobs, and `NixCronJob` shown to implement it.
