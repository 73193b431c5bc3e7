------------------------- MODULE NixosConfiguration -------------------------
(***************************************************************************)
(* The NixosConfiguration orchestrator                                     *)
(* (internal/controller/nixosconfiguration_controller.go).                 *)
(*                                                                         *)
(* Every configuration of this module targets the same Machine.  One       *)
(* worker reconciles one configuration at a time, so the controller is one *)
(* process `ctl'.  A reconcile is cut at its API writes: between two of    *)
(* them the user, the Machine controller, the workload controllers and the *)
(* informers move, a call may fail, and the operator may crash.            *)
(*                                                                         *)
(* The children are seen here through the interface the orchestrator uses: *)
(* an install NixJob and a decommission NixJob that run and report         *)
(* Succeeded / Failed, and a day-two NixCronJob that reports a phase.      *)
(* Module NixJobChild states that interface and module NixJob implements   *)
(* it, provided the run-Jobs of a deleted child are collected before a     *)
(* child of the same name is created.                                      *)
(***************************************************************************)
EXTENDS Informer

CONSTANTS
  Configs,             \* names of the configurations; < is the name order
  None,                \* no object, no name
  MaxInstallRetries,
  MaxOnRemoveRetries,
  Specs,               \* what users write into spec: fullInstall, onRemoveFlake
  Settings,            \* the clusters considered, one of which Init chooses
  DayTwoResults,       \* what the day-two NixCronJob reports
  MaxCount,            \* the counts of runs and tries stop at this bound
  MaxUpsets            \* bound on the disturbances of one behaviour: edits by
                       \* the user, changes of the Machine or of the git ref
                       \* (blips), failed API calls and crashes (faults)

ASSUME ConfigsAreNames == Configs \subseteq Nat /\ None \notin Configs
ASSUME RetryCaps == MaxInstallRetries \in Nat /\ MaxOnRemoveRetries \in Nat
ASSUME SpecsAreSpecs == Specs \subseteq [full : BOOLEAN, onrm : BOOLEAN]
\* lag: how far each informer may be behind; names, specs: what users create;
\* moving: spec.ref is a branch (TRUE) or a commit SHA.
ASSUME SettingsAreSettings ==
  Settings \subseteq [lag : [config : Nat, job : Nat, cron : Nat, machine : Nat],
                     names : SUBSET Configs, specs : SUBSET Specs, moving : BOOLEAN]
ASSUME DayTwoResultsAre == DayTwoResults \subseteq {"progressing", "ready", "failed"}
ASSUME CountBounds == MaxUpsets \in Nat /\ MaxCount \in Nat

Phases == {"Pending", "Blocked", "Installing", "Converging", "Ready",
           "Degraded", "Removing"}

\* spec: full (fullInstall), onrm (onRemoveFlake is set), flake (how often what is
\* installed, flake, ref or arguments, was edited); metadata: ctime, del
\* (deletionTimestamp), fin (finalizer); status: done
\* (fullDiskInstallCompleted), retries, rmRetries, phase, applied (the Applied
\* condition).  The other conditions are functions of the phase.
ConfigObject ==
  [ctime : Nat, del : BOOLEAN, fin : BOOLEAN, full : BOOLEAN, onrm : BOOLEAN,
   flake : Nat, done : BOOLEAN, retries : Nat, rmRetries : Nat, phase : Phases,
   applied : BOOLEAN]

\* Succeeded > 0 is "succeeded", otherwise Failed > 0 is "failed".
Reports == {"active", "failed", "succeeded"}
NixJobObject == [st : Reports, del : BOOLEAN]

\* The install NixJob's spec: what it installs, and on which host.
InstallObject == [st : Reports, del : BOOLEAN, flake : Nat, host : Nat]

\* susp: spec.nix.suspend; ran: status.lastSuccessfulTime is set; st: what the
\* day-two switch tells apart ("failed" is Degraded, Failed, or Stalled on the
\* infrastructure: three cases that differ in the message).
NixCronJobObject ==
  [st : {"progressing", "ready", "failed"}, ran : BOOLEAN, susp : BOOLEAN,
   del : BOOLEAN]

\* disc: status.discoverable; key: spec.sshKeySecretRef is set; host: how often
\* spec.hostname or sshUser was edited; ac: status.appliedConfiguration.
MachineObject ==
  [disc : BOOLEAN, key : BOOLEAN, host : Nat, ac : Configs \cup {None}]

ASSUME NoneIsNoObject ==
  None \notin ConfigObject \cup NixJobObject \cup InstallObject
              \cup NixCronJobObject \cup MachineObject

VARIABLES
  cfg,                 \* log of each NixosConfiguration
  inst, dec, cron,     \* logs of the children of each configuration
  mach,                \* log of the Machine
  ctl,                 \* the running reconcile
  born,                \* history: creation time of each configuration, or 0
  runs, reruns,        \* history: install children created, each of which starts
                       \* nixos-anywhere, and further runs that a child started
  ran,                 \* history: what the last run of nixos-anywhere installs
  saw,                 \* history: a reconcile saw that run succeed, in an install
                       \* child that was not being deleted
  rmTries, rmFails,    \* history: decommission jobs created, and failed
  edits, blips, faults,\* history: disturbances of each kind so far
  set                  \* the setting, which never changes

kids == <<inst, dec, cron>>
history == <<born, runs, reruns, ran, saw, rmTries, rmFails>>
budgets == <<edits, blips, faults, set>>
vars == <<cfg, inst, dec, cron, mach, ctl, born, runs, reruns, ran, saw, rmTries,
          rmFails, edits, blips, faults, set>>

Lag == set.lag
MovingRef == set.moving

\* The reconcile's local state: the key and the working copy `config' (obj), the
\* host of the Machine read at the gates, whether the working copy and that
\* Machine still carry the current resourceVersion (fresh, mfresh), whether the
\* Machine named this configuration (mine), and, as history, whether the
\* decommission job was created and the pass told that it was not (lost).
PCs == {"idle", "addFinalizer", "gates", "suspend", "install", "mark",
        "delDone", "delRetry", "daytwo", "writeback", "status", "removing",
        "decommission", "createDec", "clearOnly", "clear", "bump", "delFailed",
        "dropJob", "rmStatus", "finalize"}

Idle == [pc |-> "idle", c |-> None, obj |-> None, host |-> 0, fresh |-> FALSE,
         mfresh |-> FALSE, mine |-> FALSE, lost |-> FALSE]

Busy == [pc : PCs \ {"idle"}, c : Configs, obj : ConfigObject, host : Nat,
         fresh : BOOLEAN, mfresh : BOOLEAN, mine : BOOLEAN, lost : BOOLEAN]

TypeOK ==
  /\ cfg \in [Configs -> Logs(ConfigObject \cup {None})]
  /\ inst \in [Configs -> Logs(InstallObject \cup {None})]
  /\ dec \in [Configs -> Logs(NixJobObject \cup {None})]
  /\ cron \in [Configs -> Logs(NixCronJobObject \cup {None})]
  /\ mach \in Logs(MachineObject \cup {None})
  /\ ctl \in Busy \cup {Idle}
  /\ born \in [Configs -> Nat]
  /\ runs \in [Configs -> Nat] /\ reruns \in [Configs -> Nat]
  /\ ran \in [Configs -> [flake : Nat, host : Nat]]
  /\ saw \in [Configs -> BOOLEAN]
  /\ rmTries \in [Configs -> Nat]
  /\ rmFails \in [Configs -> Nat]
  /\ edits \in Nat /\ blips \in Nat /\ faults \in Nat
  /\ set \in Settings

Init ==
  /\ cfg = [c \in Configs |-> <<None>>]
  /\ inst = [c \in Configs |-> <<None>>]
  /\ dec = [c \in Configs |-> <<None>>]
  /\ cron = [c \in Configs |-> <<None>>]
  /\ mach = <<[disc |-> TRUE, key |-> TRUE, host |-> 0, ac |-> None]>>
  /\ ctl = Idle
  /\ born = [c \in Configs |-> 0]
  /\ runs = [c \in Configs |-> 0] /\ reruns = [c \in Configs |-> 0]
  /\ ran = [c \in Configs |-> [flake |-> 0, host |-> 0]]
  /\ saw = [c \in Configs |-> FALSE]
  /\ rmTries = [c \in Configs |-> 0]
  /\ rmFails = [c \in Configs |-> 0]
  /\ edits = 0 /\ blips = 0 /\ faults = 0
  /\ set \in Settings

Counted(n) == IF n < MaxCount THEN n + 1 ELSE n

\* One more disturbance is allowed.
Upset == edits + blips + faults < MaxUpsets

-----------------------------------------------------------------------------
(* API calls of the running reconcile. *)

me == ctl.c

At(p) == ctl.pc = p

Goto(p) == ctl' = [ctl EXCEPT !.pc = p]

\* The end of a pass that leaves the phase to the shared Status().Update.
Report(phase, applied) ==
  ctl' = [ctl EXCEPT !.pc = "status", !.obj.phase = phase, !.obj.applied = applied]

WriteConfig(v) == cfg' = [cfg EXCEPT ![me] = Put(Lag.config, @, v)]

\* o with the status of s: what a write of the /status subresource changes.
WithStatus(o, s) ==
  [o EXCEPT !.done = s.done, !.retries = s.retries, !.rmRetries = s.rmRetries,
            !.phase = s.phase, !.applied = s.applied]

\* client.Delete by name: a child with a finalizer is marked, a missing one is
\* fine.  The copy the caller holds plays no part.
Deleted(lag, l) ==
  IF Cur(l) = None THEN l ELSE Put(lag, l, [Cur(l) EXCEPT !.del = TRUE])

-----------------------------------------------------------------------------
(* Reconcile: entry and finalizer. *)

Reconcile(c) ==
  LET o == Seen(cfg[c]) IN
  /\ At("idle")
  /\ o # None
  /\ ctl' = [pc |-> IF o.del THEN "removing"
                    ELSE IF o.fin THEN "gates" ELSE "addFinalizer",
             c |-> c, obj |-> o, host |-> 0, fresh |-> InSync(cfg[c]),
             mfresh |-> FALSE, mine |-> FALSE, lost |-> FALSE]
  /\ UNCHANGED <<cfg, kids, mach, history, budgets>>

\* Mutant: the object is written without a resourceVersion, with the spec of the copy.
AddFinalizerUnguarded ==
  LET o == Cur(cfg[me]) IN
  /\ At("addFinalizer")
  /\ o # None
  /\ WriteConfig([o EXCEPT !.fin = TRUE, !.full = ctl.obj.full,
                           !.onrm = ctl.obj.onrm, !.flake = ctl.obj.flake])
  /\ ctl' = [ctl EXCEPT !.pc = "gates", !.obj.fin = TRUE]
  /\ UNCHANGED <<kids, mach, history, budgets>>

AddFinalizer ==
  /\ At("addFinalizer")
  /\ ctl.fresh
  /\ WriteConfig([ctl.obj EXCEPT !.fin = TRUE])
  /\ ctl' = [ctl EXCEPT !.pc = "gates", !.obj.fin = TRUE]
  /\ UNCHANGED <<kids, mach, history, budgets>>

\* A Conflict ends the reconcile (addFinalizer, finalize: Requeue; status: the
\* update is dropped; rmStatus: treated as soft).
DropOnConflict ==
  /\ ctl.pc \in {"addFinalizer", "status", "rmStatus", "finalize"}
  /\ ~ctl.fresh
  /\ ctl' = Idle
  /\ UNCHANGED <<cfg, kids, mach, history, budgets>>

\* Mutant: the status is written without a resourceVersion.
StatusUpdateUnguarded ==
  /\ ctl.pc \in {"status", "rmStatus"}
  /\ Cur(cfg[me]) # None
  /\ WriteConfig(WithStatus(Cur(cfg[me]), ctl.obj))
  /\ ctl' = Idle
  /\ UNCHANGED <<kids, mach, history, budgets>>

\* Status().Update at the end of a pass, and statusUpdate during removal.
StatusUpdate ==
  /\ ctl.pc \in {"status", "rmStatus"}
  /\ ctl.fresh
  /\ WriteConfig(WithStatus(Cur(cfg[me]), ctl.obj))
  /\ ctl' = Idle
  /\ UNCHANGED <<kids, mach, history, budgets>>

-----------------------------------------------------------------------------
(* runStateMachine: the gates. *)

\* Mutant: no tie-break between configurations of the same second.
NotLater(d, o, c) == Seen(cfg[d]).ctime <= o.ctime

\* configEarlier: creationTimestamp, then name.
ConfigEarlier(d, o, c) == \/ Seen(cfg[d]).ctime < o.ctime
                          \/ Seen(cfg[d]).ctime = o.ctime /\ d < c

\* machineOwner(config) = config.Name.
OwnsMachine(c, o) ==
  \A d \in Configs \ {c} : Seen(cfg[d]) # None => ~ConfigEarlier(d, o, c)

MachineReady(m) == m # None /\ m.disc

Blocked ==
  /\ At("gates")
  /\ ~(OwnsMachine(me, ctl.obj) /\ MachineReady(Seen(mach)))
  /\ ctl' = [ctl EXCEPT !.pc = "suspend", !.obj.phase = "Blocked",
                        !.obj.applied = FALSE]
  /\ UNCHANGED <<cfg, kids, mach, history, budgets>>

\* Mutant: the day-two cron is left running.
SuspendNothing ==
  /\ At("suspend")
  /\ Goto("status")
  /\ UNCHANGED <<cfg, kids, mach, history, budgets>>

\* suspendDayTwoCronIfExists: a failed update is only logged.
SuspendDayTwo ==
  LET k == Seen(cron[me]) IN
  /\ At("suspend")
  /\ IF k # None /\ InSync(cron[me])
     THEN cron' = [cron EXCEPT ![me] = Put(Lag.cron, @, [k EXCEPT !.susp = TRUE])]
     ELSE cron' = cron
  /\ Goto("status")
  /\ UNCHANGED <<cfg, inst, dec, mach, history, budgets>>

\* A child cannot be built without the machine's SSH key: the error ends the
\* pass after the shared status update.
PassGates ==
  /\ At("gates")
  /\ OwnsMachine(me, ctl.obj)
  /\ MachineReady(Seen(mach))
  /\ ctl' = [ctl EXCEPT
               !.pc = IF ~Seen(mach).key THEN "status"
                      ELSE IF ctl.obj.full /\ ~ctl.obj.done THEN "install"
                      ELSE "daytwo",
               !.host = Seen(mach).host,
               !.mfresh = InSync(mach)]
  /\ UNCHANGED <<cfg, kids, mach, history, budgets>>

-----------------------------------------------------------------------------
(* reconcileInstall. *)

\* buildInstallNixJob: built from the copies of the configuration and the Machine.
NewInstall ==
  [st |-> "active", del |-> FALSE, flake |-> ctl.obj.flake, host |-> ctl.host]

Args(j) == [flake |-> j.flake, host |-> j.host]

\* The Create of a child, which starts a run.
InstallCreated ==
  /\ At("install")
  /\ Seen(inst[me]) = None /\ Cur(inst[me]) = None
  /\ inst' = [inst EXCEPT ![me] = Put(Lag.job, @, NewInstall)]
  /\ runs' = [runs EXCEPT ![me] = Counted(@)]
  /\ ran' = [ran EXCEPT ![me] = Args(NewInstall)]

\* ensureInstallNixJob, not in the cache: Create, or AlreadyExists.
CreateInstall ==
  /\ At("install")
  /\ Seen(inst[me]) = None
  /\ \/ InstallCreated /\ Report("Installing", FALSE)
     \/ Cur(inst[me]) # None /\ Goto("status") /\ UNCHANGED <<inst, runs, ran>>
  /\ UNCHANGED <<cfg, dec, cron, mach, born, reruns, saw, rmTries, rmFails, budgets>>

\* ensureInstallNixJob, in the cache: a live child's spec is written anew, which a
\* stale copy fails; one that is being deleted is left alone.  The switch then
\* looks at the status that the child had before.
InstallChild ==
  /\ At("install")
  /\ Seen(inst[me]) # None
  /\ Seen(inst[me]).del \/ InSync(inst[me])
  /\ inst' = IF Seen(inst[me]).del THEN inst
             ELSE [inst EXCEPT ![me] =
                     Put(Lag.job, @, [Cur(@) EXCEPT !.flake = ctl.obj.flake,
                                                    !.host = ctl.host])]

InstallConflict ==
  /\ At("install")
  /\ Seen(inst[me]) # None
  /\ ~Seen(inst[me]).del /\ ~InSync(inst[me])
  /\ Goto("status")
  /\ UNCHANGED <<cfg, kids, mach, history, budgets>>

\* Mutant: completion is only noted in memory when the child is deleted.
InstallSucceededUnmarked ==
  /\ InstallChild
  /\ Seen(inst[me]).st = "succeeded"
  /\ ctl' = [ctl EXCEPT !.pc = "delDone", !.obj.done = TRUE]
  /\ saw' = [saw EXCEPT ![me] = @ \/ ~Seen(inst[me]).del]
  /\ UNCHANGED <<cfg, dec, cron, mach, born, runs, reruns, ran, rmTries, rmFails, budgets>>

InstallSucceeded ==
  /\ InstallChild
  /\ Seen(inst[me]).st = "succeeded"
  /\ Goto("mark")
  /\ saw' = [saw EXCEPT ![me] = @ \/ ~Seen(inst[me]).del]
  /\ UNCHANGED <<cfg, dec, cron, mach, born, runs, reruns, ran, rmTries, rmFails, budgets>>

\* Mutant: a child that is being deleted is counted again.
AnyFailure(j) == j.st = "failed"

\* A failure that was not acted on yet: the failed child is not being deleted.
NewFailure(j) == j.st = "failed" /\ ~j.del

\* Running, or a failed child whose deletion has not finished.
InstallWait ==
  /\ InstallChild
  /\ Seen(inst[me]).st # "succeeded"
  /\ ~NewFailure(Seen(inst[me]))
  /\ Report("Installing", FALSE)
  /\ UNCHANGED <<cfg, dec, cron, mach, history, budgets>>

InstallExhausted ==
  /\ InstallChild
  /\ NewFailure(Seen(inst[me]))
  /\ ctl.obj.retries >= MaxInstallRetries
  /\ Report("Degraded", FALSE)
  /\ UNCHANGED <<cfg, dec, cron, mach, history, budgets>>

\* Mutant: the retry is not counted.
InstallRetryUncounted ==
  /\ InstallChild
  /\ NewFailure(Seen(inst[me]))
  /\ ctl.obj.retries < MaxInstallRetries
  /\ Goto("delRetry")
  /\ UNCHANGED <<cfg, dec, cron, mach, history, budgets>>

\* The count lives in the working copy until the shared status update.
InstallRetry ==
  /\ InstallChild
  /\ NewFailure(Seen(inst[me]))
  /\ ctl.obj.retries < MaxInstallRetries
  /\ ctl' = [ctl EXCEPT !.pc = "delRetry", !.obj.retries = @ + 1]
  /\ UNCHANGED <<cfg, dec, cron, mach, history, budgets>>

DeleteFailedInstall ==
  /\ At("delRetry")
  /\ inst' = [inst EXCEPT ![me] = Deleted(Lag.job, @)]
  /\ Report("Installing", FALSE)
  /\ UNCHANGED <<cfg, dec, cron, mach, history, budgets>>

\* One accepted attempt of a RetryOnConflict loop: the object is read again,
\* changed, and its status written.  The working copy takes over the status and
\* the resourceVersion, and keeps the spec it had.
Rewrite(new) ==
  /\ InSync(cfg[me])
  /\ Seen(cfg[me]) # None
  /\ WriteConfig(new)

Rewritten(new, next) ==
  ctl' = [ctl EXCEPT !.pc = next, !.obj = WithStatus(@, new), !.fresh = TRUE]

Completed == [Seen(cfg[me]) EXCEPT !.done = TRUE]

MarkFullDiskInstallCompleted ==
  /\ At("mark")
  /\ Rewrite(Completed)
  /\ Rewritten(Completed, "delDone")
  /\ UNCHANGED <<kids, mach, history, budgets>>

\* The loop gives up: the cache never caught up, or the object is gone.
RewriteFails ==
  /\ ctl.pc \in {"mark", "bump"}
  /\ ~InSync(cfg[me]) \/ Seen(cfg[me]) = None
  /\ ctl' = IF At("mark") THEN [ctl EXCEPT !.pc = "status"] ELSE Idle
  /\ UNCHANGED <<cfg, kids, mach, history, budgets>>

DeleteDoneInstall ==
  /\ At("delDone")
  /\ inst' = [inst EXCEPT ![me] = Deleted(Lag.job, @)]
  /\ Goto("daytwo")
  /\ UNCHANGED <<cfg, dec, cron, mach, history, budgets>>

-----------------------------------------------------------------------------
(* reconcileDayTwo. *)

\* buildDayTwoNixCronJob.
NewDayTwo == [st |-> "progressing", ran |-> FALSE, susp |-> FALSE, del |-> FALSE]

DayTwoCreated ==
  /\ At("daytwo")
  /\ Seen(cron[me]) = None /\ Cur(cron[me]) = None
  /\ cron' = [cron EXCEPT ![me] = Put(Lag.cron, @, NewDayTwo)]

CreateDayTwo ==
  /\ At("daytwo")
  /\ Seen(cron[me]) = None
  /\ \/ DayTwoCreated /\ Report("Converging", ctl.obj.done)
     \/ Cur(cron[me]) # None /\ Goto("status") /\ UNCHANGED cron
  /\ UNCHANGED <<cfg, inst, dec, mach, history, budgets>>

DayTwoConflict ==
  /\ At("daytwo")
  /\ Seen(cron[me]) # None
  /\ ~Seen(cron[me]).del
  /\ ~InSync(cron[me])
  /\ Goto("status")
  /\ UNCHANGED <<cfg, kids, mach, history, budgets>>

\* ensureDayTwoNixCronJob resumes a live child.
DayTwoResumed ==
  LET k == Seen(cron[me]) IN
  /\ At("daytwo")
  /\ k # None
  /\ k.del \/ InSync(cron[me])
  /\ cron' = IF k.del THEN cron
             ELSE [cron EXCEPT ![me] = Put(Lag.cron, @, [k EXCEPT !.susp = FALSE])]

\* The switch reads what the child reported.
\* Applied is a fact about the machine: an install or any successful run.
ObserveDayTwo ==
  LET k == Seen(cron[me])
      applied == ctl.obj.done \/ k.ran IN
  /\ DayTwoResumed
  /\ \/ /\ k.st = "ready" /\ k.ran
        /\ ctl' = [ctl EXCEPT !.pc = "writeback", !.obj.phase = "Ready",
                              !.obj.applied = TRUE]
     \/ k.st = "failed" /\ Report("Degraded", applied)
     \/ /\ k.st = "progressing" \/ (k.st = "ready" /\ ~k.ran)
        /\ Report("Converging", applied)
  /\ UNCHANGED <<cfg, inst, dec, mach, history, budgets>>

\* The Machine's status is written from the copy read at the gates.
WriteBackMachineStatus ==
  /\ At("writeback")
  /\ mach' = IF ctl.mfresh THEN Put(Lag.machine, mach, [Cur(mach) EXCEPT !.ac = me])
             ELSE mach
  /\ Goto("status")
  /\ UNCHANGED <<cfg, kids, history, budgets>>

-----------------------------------------------------------------------------
(* reconcileRemoving. *)

DeleteDayTwo ==
  LET k == Seen(cron[me]) IN
  /\ At("removing")
  /\ cron' = IF k = None \/ k.del THEN cron
             ELSE [cron EXCEPT ![me] = Deleted(Lag.cron, @)]
  /\ Goto("decommission")
  /\ UNCHANGED <<cfg, inst, dec, mach, history, budgets>>

\* Mutants: the stamp is never, or always, cleared.
NeverClear(mine, clear, other) == other
AlwaysClear(mine, clear, other) == clear

\* The next call when the machine's stamp, if it is ours, must go first.
AfterStamp(mine, clear, other) == IF mine THEN clear ELSE other

\* Reads the Machine and the decommission job, and decides.
Decommission ==
  LET m == Seen(mach)
      j == Seen(dec[me])
      mine == m # None /\ m.ac = me
      Decide(p) == ctl' = [ctl EXCEPT !.pc = p, !.mine = mine, !.mfresh = InSync(mach)]
      Removing == ctl' = [ctl EXCEPT !.pc = "rmStatus", !.obj.phase = "Removing"]
      GiveUp == ctl.obj.rmRetries >= MaxOnRemoveRetries IN
  /\ At("decommission")
  /\ \/ /\ ~ctl.obj.onrm \/ m = None
        /\ Decide(AfterStamp(mine, "clearOnly", "finalize"))
     \/ /\ ctl.obj.onrm /\ m # None
        /\ \/ /\ j = None
              /\ Decide(IF m.key THEN "createDec" ELSE "finalize")
           \/ /\ j # None /\ j.st = "succeeded"
              /\ Decide(AfterStamp(mine, "clear", "dropJob"))
           \/ /\ j # None /\ NewFailure(j)
              /\ Decide("bump")
           \/ /\ j # None /\ j.st = "failed" /\ ~NewFailure(j)
              /\ IF GiveUp THEN Decide(AfterStamp(mine, "clear", "dropJob"))
                 ELSE Removing
           \/ /\ j # None /\ j.st = "active"
              /\ Removing
  /\ UNCHANGED <<cfg, kids, mach, history, budgets>>

\* buildDecommissionNixJob: created without an owner.
NewDecommission == [st |-> "active", del |-> FALSE]

DecommissionCreated ==
  /\ At("createDec")
  /\ Seen(dec[me]) = None /\ Cur(dec[me]) = None
  /\ dec' = [dec EXCEPT ![me] = Put(Lag.job, @, NewDecommission)]
  /\ rmTries' = [rmTries EXCEPT ![me] = Counted(@)]

\* ensureDecommissionNixJob looks again before it creates: a job that reached the
\* cache since the List is taken as it is.  Any error, AlreadyExists too, finalizes.
CreateDecommission ==
  /\ At("createDec")
  /\ \/ /\ Seen(dec[me]) # None
        /\ ctl' = [ctl EXCEPT !.pc = "rmStatus", !.obj.phase = "Removing"]
        /\ UNCHANGED <<dec, rmTries>>
     \/ /\ DecommissionCreated
        /\ ctl' = [ctl EXCEPT !.pc = "rmStatus", !.obj.phase = "Removing"]
     \/ /\ Seen(dec[me]) = None /\ Cur(dec[me]) # None
        /\ Goto("finalize")
        /\ UNCHANGED <<dec, rmTries>>
  /\ UNCHANGED <<cfg, inst, cron, mach, born, runs, reruns, ran, saw, rmFails, budgets>>

\* A Conflict is an error that ends the reconcile; NotFound is ignored.
ClearMachineStatus ==
  /\ ctl.pc \in {"clear", "clearOnly"}
  /\ IF Cur(mach) # None /\ ~ctl.mfresh
     THEN ctl' = Idle /\ UNCHANGED mach
     ELSE /\ mach' = IF Cur(mach) = None THEN mach
                     ELSE Put(Lag.machine, mach, [Cur(mach) EXCEPT !.ac = None])
          /\ Goto(IF At("clear") THEN "dropJob" ELSE "finalize")
  /\ UNCHANGED <<cfg, kids, history, budgets>>

\* Mutant: the failure is counted down.
CountedDown == [Seen(cfg[me]) EXCEPT !.rmRetries = @ - 1, !.phase = "Removing"]

\* The failure counted.
Bumped == [Seen(cfg[me]) EXCEPT !.rmRetries = @ + 1, !.phase = "Removing"]

BumpOnRemoveRetries ==
  /\ At("bump")
  /\ Rewrite(Bumped)
  /\ Rewritten(Bumped, "delFailed")
  /\ UNCHANGED <<kids, mach, history, budgets>>

\* Mutant: gives up one failure too late.
GiveUpLate ==
  /\ At("delFailed")
  /\ dec' = [dec EXCEPT ![me] = Deleted(Lag.job, @)]
  /\ Goto(IF ctl.obj.rmRetries > MaxOnRemoveRetries
          THEN AfterStamp(ctl.mine, "clear", "dropJob") ELSE "rmStatus")
  /\ UNCHANGED <<cfg, inst, cron, mach, history, budgets>>

DeleteFailedDecommission ==
  /\ At("delFailed")
  /\ dec' = [dec EXCEPT ![me] = Deleted(Lag.job, @)]
  /\ Goto(IF ctl.obj.rmRetries >= MaxOnRemoveRetries
          THEN AfterStamp(ctl.mine, "clear", "dropJob") ELSE "rmStatus")
  /\ UNCHANGED <<cfg, inst, cron, mach, history, budgets>>

\* Mutant: the orphan job is left to itself.
LeaveDecommissionJob ==
  /\ At("dropJob")
  /\ Goto("finalize")
  /\ UNCHANGED <<cfg, kids, mach, history, budgets>>

DeleteDecommissionJob ==
  /\ At("dropJob")
  /\ dec' = [dec EXCEPT ![me] = Deleted(Lag.job, @)]
  /\ Goto("finalize")
  /\ UNCHANGED <<cfg, inst, cron, mach, history, budgets>>

\* Mutant: waits for the owned children, which go only after their owner.
FinalizeAfterChildren ==
  /\ At("finalize")
  /\ ctl.fresh
  /\ Seen(inst[me]) = None
  /\ WriteConfig(None)
  /\ ctl' = Idle
  /\ UNCHANGED <<kids, mach, history, budgets>>

\* The last finalizer goes: the API server removes the object.
Finalize ==
  /\ At("finalize")
  /\ ctl.fresh
  /\ WriteConfig(None)
  /\ ctl' = Idle
  /\ UNCHANGED <<kids, mach, history, budgets>>

-----------------------------------------------------------------------------
(* Faults: a call fails, with or without effect, or the operator restarts. *)

\* Where the code goes when the API call of each point returns an error.
AfterError ==
  IF ctl.pc \in {"gates", "suspend", "install", "mark", "delDone", "delRetry",
                 "daytwo", "writeback"} THEN [ctl EXCEPT !.pc = "status"]
  ELSE IF At("removing") THEN [ctl EXCEPT !.pc = "decommission"]
  ELSE IF At("createDec") THEN [ctl EXCEPT !.pc = "finalize"]
  ELSE Idle

ApiError ==
  /\ ~At("idle")
  /\ Upset
  /\ faults' = faults + 1
  /\ ctl' = AfterError
  /\ UNCHANGED <<cfg, kids, mach, history, edits, blips, set>>

\* A call that took effect and returned an error (a timeout, a lost connection).
\* Of the calls that are not here, the next thing the code does is the same
\* whether they fail or not (suspend, removing, writeback, status, rmStatus,
\* finalize), or it leaves the pass at once: then their lost answer is the call
\* followed by a Crash, or by an error of the call after it.
InstallAnswerLost ==
  /\ \/ InstallCreated
     \/ InstallChild /\ UNCHANGED <<runs, ran>>
     \/ /\ At("delRetry")
        /\ inst' = [inst EXCEPT ![me] = Deleted(Lag.job, @)]
        /\ UNCHANGED <<runs, ran>>
  /\ ctl' = AfterError
  /\ UNCHANGED <<cfg, dec, cron, mach, born, reruns, saw, rmTries, rmFails>>

MarkAnswerLost ==
  /\ At("mark")
  /\ Rewrite(Completed)
  /\ ctl' = [AfterError EXCEPT !.fresh = @ /\ cfg' = cfg]
  /\ UNCHANGED <<kids, mach, history>>

DayTwoAnswerLost ==
  /\ DayTwoCreated \/ DayTwoResumed
  /\ ctl' = AfterError
  /\ UNCHANGED <<cfg, inst, dec, mach, history>>

DecommissionAnswerLost ==
  /\ DecommissionCreated
  /\ ctl' = [AfterError EXCEPT !.lost = TRUE]
  /\ UNCHANGED <<cfg, inst, cron, mach, born, runs, reruns, ran, saw, rmFails>>

AnswerLost ==
  /\ Upset
  /\ faults' = faults + 1
  /\ InstallAnswerLost \/ MarkAnswerLost \/ DayTwoAnswerLost \/ DecommissionAnswerLost
  /\ UNCHANGED <<edits, blips, set>>

Crash ==
  /\ ~At("idle")
  /\ Upset
  /\ faults' = faults + 1
  /\ ctl' = Idle
  /\ cfg' = [c \in Configs |-> Relisted(cfg[c])]
  /\ inst' = [c \in Configs |-> Relisted(inst[c])]
  /\ dec' = [c \in Configs |-> Relisted(dec[c])]
  /\ cron' = [c \in Configs |-> Relisted(cron[c])]
  /\ mach' = Relisted(mach)
  /\ UNCHANGED <<history, edits, blips, set>>

-----------------------------------------------------------------------------
(* The user.  A write to the object under reconcile outdates its copy. *)

UserWrites(c, v) ==
  /\ cfg' = [cfg EXCEPT ![c] = Put(Lag.config, @, v)]
  /\ ctl' = IF ctl.c = c THEN [ctl EXCEPT !.fresh = FALSE] ELSE ctl

\* A creation in the same second as the last one, or in a later one.
CreateConfig(c) ==
  \E last \in Configs, s \in Specs : \E t \in {born[last], born[last] + 1} :
    /\ born[c] = 0
    /\ c \in set.names /\ s \in set.specs
    /\ t # 0
    /\ \A d \in Configs : born[d] <= born[last]
    /\ born' = [born EXCEPT ![c] = t]
    /\ UserWrites(c, [ctime |-> t, del |-> FALSE, fin |-> FALSE, full |-> s.full,
                      onrm |-> s.onrm, flake |-> 0, done |-> FALSE, retries |-> 0, rmRetries |-> 0,
                      phase |-> "Pending", applied |-> FALSE])
    /\ UNCHANGED <<kids, mach, runs, reruns, ran, saw, rmTries, rmFails, budgets>>

\* The user edits the spec, and what the install installs or not.
EditConfig(c) ==
  /\ Cur(cfg[c]) # None
  /\ Upset
  /\ edits' = edits + 1
  /\ \E s \in Specs, n \in {0, 1} :
       /\ s \in set.specs
       /\ UserWrites(c, [Cur(cfg[c]) EXCEPT !.full = s.full, !.onrm = s.onrm,
                                            !.flake = @ + n])
  /\ UNCHANGED <<kids, mach, history, blips, faults, set>>

DeleteConfig(c) ==
  LET o == Cur(cfg[c]) IN
  /\ o # None
  /\ ~o.del
  /\ UserWrites(c, IF o.fin THEN [o EXCEPT !.del = TRUE] ELSE None)
  /\ UNCHANGED <<kids, mach, history, budgets>>

-----------------------------------------------------------------------------
(* The rest of the cluster, as the orchestrator sees it. *)

\* The Machine controller probes the host; the user edits or deletes the Machine.
MachineChanges ==
  /\ Cur(mach) # None
  /\ Upset
  /\ blips' = blips + 1
  /\ \E v \in {[Cur(mach) EXCEPT !.disc = ~@], [Cur(mach) EXCEPT !.key = ~@],
               [Cur(mach) EXCEPT !.host = @ + 1], None} :
       mach' = Put(Lag.machine, mach, v)
  /\ ctl' = [ctl EXCEPT !.mfresh = FALSE]
  /\ UNCHANGED <<cfg, kids, history, edits, faults, set>>

\* The run ends.
InstallEnds(c) ==
  LET j == Cur(inst[c]) IN
  /\ j # None /\ ~j.del /\ j.st = "active"
  /\ \E s \in {"failed", "succeeded"} :
       inst' = [inst EXCEPT ![c] = Put(Lag.job, @, [j EXCEPT !.st = s])]
  /\ UNCHANGED <<cfg, dec, cron, mach, ctl, history, budgets>>

\* Failed counts pods: the batch Job may start another, which succeeds.
InstallSucceedsLate(c) ==
  LET j == Cur(inst[c]) IN
  /\ j # None /\ ~j.del /\ j.st = "failed"
  /\ inst' = [inst EXCEPT ![c] = Put(Lag.job, @, [j EXCEPT !.st = "succeeded"])]
  /\ UNCHANGED <<cfg, dec, cron, mach, ctl, history, budgets>>

\* A NixJob starts a new run, whose status replaces that of the run before, when
\* its arguments are others than those of the last run, and when its ref moves,
\* here up to MaxCount times.
InstallReruns(c) ==
  LET j == Cur(inst[c]) IN
  /\ j # None /\ ~j.del
  /\ \/ Args(j) # ran[c]
     \/ MovingRef /\ reruns[c] < MaxCount
  /\ inst' = [inst EXCEPT ![c] = Put(Lag.job, @, [j EXCEPT !.st = "active"])]
  /\ reruns' = [reruns EXCEPT ![c] = Counted(@)]
  /\ ran' = [ran EXCEPT ![c] = Args(j)]
  /\ saw' = [saw EXCEPT ![c] = FALSE]
  /\ UNCHANGED <<cfg, dec, cron, mach, ctl, born, runs, rmTries, rmFails, budgets>>

DecommissionEnds(c) ==
  LET j == Cur(dec[c]) IN
  /\ j # None /\ ~j.del /\ j.st = "active"
  /\ \E s \in {"failed", "succeeded"} :
       /\ dec' = [dec EXCEPT ![c] = Put(Lag.job, @, [j EXCEPT !.st = s])]
       /\ rmFails' = [rmFails EXCEPT ![c] = IF s = "failed" THEN @ + 1 ELSE @]
  /\ UNCHANGED <<cfg, inst, cron, mach, ctl, born, runs, reruns, ran, saw, rmTries, budgets>>

DecommissionSucceedsLate(c) ==
  LET j == Cur(dec[c]) IN
  /\ j # None /\ ~j.del /\ j.st = "failed"
  /\ dec' = [dec EXCEPT ![c] = Put(Lag.job, @, [j EXCEPT !.st = "succeeded"])]
  /\ UNCHANGED <<cfg, inst, cron, mach, ctl, history, budgets>>

\* Its ref moves, too, and the TTL of its template removes the finished run, after
\* which it runs once more.
DecommissionReruns(c) ==
  LET j == Cur(dec[c]) IN
  /\ j # None /\ ~j.del
  /\ MovingRef \/ j.st # "active"
  /\ Upset
  /\ blips' = blips + 1
  /\ dec' = [dec EXCEPT ![c] = Put(Lag.job, @, [j EXCEPT !.st = "active"])]
  /\ UNCHANGED <<cfg, inst, cron, mach, ctl, history, edits, faults, set>>

\* A report of the NixCronJob.  It is Ready before the first run, too, and a run
\* that succeeded once is not forgotten.
DayTwoOutcome(c) ==
  LET k == Cur(cron[c]) IN
  /\ k # None /\ ~k.del
  /\ \E s \in DayTwoResults, b \in BOOLEAN :
       cron' = [cron EXCEPT ![c] =
                  Put(Lag.cron, @, [k EXCEPT !.st = s, !.ran = @ \/ b])]
  /\ UNCHANGED <<cfg, inst, dec, mach, ctl, history, budgets>>

\* The workload controllers release the finalizer of a deleted child.
ReleaseChild(c) ==
  LET Gone(l) == Cur(l) # None /\ Cur(l).del IN
  /\ \/ Gone(inst[c]) /\ inst' = [inst EXCEPT ![c] = Put(Lag.job, @, None)]
                       /\ UNCHANGED <<dec, cron>>
     \/ Gone(dec[c]) /\ dec' = [dec EXCEPT ![c] = Put(Lag.job, @, None)]
                      /\ UNCHANGED <<inst, cron>>
     \/ Gone(cron[c]) /\ cron' = [cron EXCEPT ![c] = Put(Lag.cron, @, None)]
                       /\ UNCHANGED <<inst, dec>>
  /\ UNCHANGED <<cfg, mach, ctl, history, budgets>>

\* Owned children of a removed configuration; the decommission job has no owner.
GarbageCollect(c) ==
  LET Live(l) == Cur(l) # None /\ ~Cur(l).del IN
  /\ Cur(cfg[c]) = None
  /\ \/ Live(inst[c]) /\ inst' = [inst EXCEPT ![c] = Deleted(Lag.job, @)]
                       /\ UNCHANGED cron
     \/ Live(cron[c]) /\ cron' = [cron EXCEPT ![c] = Deleted(Lag.cron, @)]
                       /\ UNCHANGED inst
  /\ UNCHANGED <<cfg, dec, mach, ctl, history, budgets>>

\* A watch event reaches one of the informers.
DeliverConfig(c) ==
  /\ ~InSync(cfg[c])
  /\ cfg' = [cfg EXCEPT ![c] = Delivered(@)]
  /\ UNCHANGED <<kids, mach, ctl, history, budgets>>

DeliverInstall(c) ==
  /\ ~InSync(inst[c])
  /\ inst' = [inst EXCEPT ![c] = Delivered(@)]
  /\ UNCHANGED <<cfg, dec, cron, mach, ctl, history, budgets>>

DeliverDecommission(c) ==
  /\ ~InSync(dec[c])
  /\ dec' = [dec EXCEPT ![c] = Delivered(@)]
  /\ UNCHANGED <<cfg, inst, cron, mach, ctl, history, budgets>>

DeliverDayTwo(c) ==
  /\ ~InSync(cron[c])
  /\ cron' = [cron EXCEPT ![c] = Delivered(@)]
  /\ UNCHANGED <<cfg, inst, dec, mach, ctl, history, budgets>>

DeliverMachine ==
  /\ ~InSync(mach)
  /\ mach' = Delivered(mach)
  /\ UNCHANGED <<cfg, kids, ctl, history, budgets>>

-----------------------------------------------------------------------------
Step ==
  \/ AddFinalizer \/ DropOnConflict \/ StatusUpdate
  \/ Blocked \/ SuspendDayTwo \/ PassGates
  \/ CreateInstall \/ InstallConflict \/ InstallSucceeded \/ InstallWait
  \/ InstallExhausted \/ InstallRetry \/ DeleteFailedInstall
  \/ MarkFullDiskInstallCompleted \/ RewriteFails \/ DeleteDoneInstall
  \/ CreateDayTwo \/ DayTwoConflict \/ ObserveDayTwo \/ WriteBackMachineStatus
  \/ DeleteDayTwo \/ Decommission \/ CreateDecommission \/ ClearMachineStatus
  \/ BumpOnRemoveRetries \/ DeleteFailedDecommission \/ DeleteDecommissionJob
  \/ Finalize

User(c) == CreateConfig(c) \/ EditConfig(c) \/ DeleteConfig(c)

Workloads(c) ==
  \/ InstallEnds(c) \/ InstallSucceedsLate(c) \/ InstallReruns(c)
  \/ DecommissionEnds(c) \/ DecommissionSucceedsLate(c) \/ DecommissionReruns(c)
  \/ DayTwoOutcome(c) \/ ReleaseChild(c) \/ GarbageCollect(c)

Watch(c) == DeliverConfig(c) \/ DeliverInstall(c) \/ DeliverDecommission(c) \/ DeliverDayTwo(c)

Next ==
  \/ Step \/ ApiError \/ AnswerLost \/ Crash \/ MachineChanges \/ DeliverMachine
  \/ \E c \in Configs : Reconcile(c) \/ User(c) \/ Workloads(c) \/ Watch(c)

Spec == Init /\ [][Next]_vars

\* What the scheduling guarantees.  A reconcile that started runs to its end; the
\* work queue is FIFO and every pass requeues or is woken by an event, so a key
\* is not passed over forever; a run of a child ends (a batch Job has a backoff
\* limit), but a failed one need never succeed; deleted children are released,
\* orphans collected, events delivered.  Nothing is assumed of the user, of the
\* Machine or of day-two runs.
Fairness ==
  /\ WF_vars(Step) /\ WF_vars(DeliverMachine)
  /\ \A c \in Configs :
       /\ SF_vars(Reconcile(c))
       /\ WF_vars(DeliverConfig(c)) /\ WF_vars(DeliverInstall(c))
       /\ WF_vars(DeliverDecommission(c)) /\ WF_vars(DeliverDayTwo(c))
       /\ WF_vars(InstallEnds(c)) /\ WF_vars(DecommissionEnds(c))
       /\ WF_vars(ReleaseChild(c)) /\ WF_vars(GarbageCollect(c))

FairSpec == Spec /\ Fairness

-----------------------------------------------------------------------------
(* Properties. *)

Exists(c) == Cur(cfg[c]) # None

\* The step that removes the last finalizer of c.
Finalized(c) == Exists(c) /\ Cur(cfg[c]).fin /\ ~Exists(c)'

\* Once a reconcile saw the install succeed, or its completion is stored, no
\* install child is created again: it would wipe the installed host.  Completion
\* is stored by a write of its own and the child, whose presence keeps a new one
\* from being created, is deleted after it, so no crash, failed call, lost answer
\* or edit in between can lose the fact.  A success seen in a child that is being
\* deleted for a retry does not count: such a child may be gone before the
\* completion is stored.
NoRecreation ==
  [][\A c \in Configs :
       saw[c] \/ (Exists(c) /\ Cur(cfg[c]).done) => runs'[c] = runs[c]]_vars

\* No status write of a reconcile takes the stored completion back, whatever was
\* written between its read and its write.
CompletionIsDurable ==
  [][\A c \in Configs :
       Exists(c) /\ Exists(c)' /\ Cur(cfg[c]).done => Cur(cfg[c])'.done]_vars

\* What the user wrote is the user's: no reconcile that read before an edit, and
\* writes the whole object after it, puts the old spec back.
UserWritesAreKept ==
  [][\A c \in Configs :
       Exists(c) /\ Exists(c)' /\ edits' = edits
         => /\ Cur(cfg[c])'.full = Cur(cfg[c]).full
            /\ Cur(cfg[c])'.onrm = Cur(cfg[c]).onrm
            /\ Cur(cfg[c])'.flake = Cur(cfg[c]).flake]_vars

\* The install child is created once and for each of MaxInstallRetries retries.  A
\* fault or an edit can each drop one count, which lives in memory until the
\* pass's last write, and so buys one more.  With a commit as ref, a child starts
\* a further run only for an edit of the configuration or a change of the Machine.
InstallRunsBounded ==
  \A c \in Configs :
    /\ runs[c] <= 1 + MaxInstallRetries + faults + edits
    /\ ~MovingRef => reruns[c] <= edits + blips

\* The decommission job is created at most MaxOnRemoveRetries times, plus once
\* for each fault, edit or Machine change that keeps a pass from finalizing.
DecommissionsBounded ==
  \A c \in Configs : rmTries[c] <= MaxOnRemoveRetries + faults + edits + blips

\* Every counted decommission failure is a run that failed; a fault between the
\* count and the deletion can make one failure count twice.
RetriesAreFailures ==
  \A c \in Configs :
    Exists(c) => Cur(cfg[c]).rmRetries <= rmFails[c] + faults

\* A configuration with a removal flake and a machine is not let go while its
\* decommission job, which nothing else owns or deletes, stays behind, unless
\* this pass was told that the job it created could not be created.
FinalizeLeavesNoOrphan ==
  [][\A c \in Configs :
       Finalized(c) /\ Cur(cfg[c]).onrm /\ Cur(mach) # None /\ ~ctl.lost
         => Cur(dec[c]) = None \/ Cur(dec[c]).del]_vars

\* A machine does not keep naming a configuration that is gone, unless the
\* decommission was skipped because no job could be created, or so the pass was told.
StampIsCleared ==
  [][\A c \in Configs :
       Finalized(c) /\ Cur(mach) # None /\ ~ctl.lost
         /\ (Cur(cfg[c]).onrm => Cur(dec[c]) # None)
         => Cur(mach).ac # c]_vars

\* Only the removal of the configuration a machine names clears that name.
ForeignStampIsKept ==
  [][\A c \in Configs :
       Cur(mach) # None /\ Cur(mach)' # None /\ Cur(mach).ac = c /\ Cur(mach)'.ac = None
         => ctl.c = c /\ ctl.obj.del]_vars

\* Deletion is never blocked forever: every deleted configuration goes away.
DeletionCompletes ==
  \A c \in Configs : (Exists(c) /\ Cur(cfg[c]).del) ~> ~Exists(c)

Drives(c) ==
  /\ Exists(c) /\ ~Cur(cfg[c]).del
  /\ \A d \in Configs \ {c} : Exists(d) =>
        \/ Cur(cfg[d]).ctime > Cur(cfg[c]).ctime
        \/ Cur(cfg[d]).ctime = Cur(cfg[c]).ctime /\ d > c
  /\ MachineReady(Cur(mach)) /\ Cur(mach).key

\* A configuration that stays the owner of a reachable machine leaves Blocked,
\* an earlier owner's removal included.
OwnerLeavesBlocked ==
  \A c \in Configs : <>[]Drives(c) => <>[](Exists(c) /\ Cur(cfg[c]).phase # "Blocked")

\* Its install settles: completed, or Degraded once the retries are used up.
InstallSettles ==
  \A c \in Configs :
    <>[](Drives(c) /\ Cur(cfg[c]).full)
      => <>(Exists(c) /\ (Cur(cfg[c]).done \/ Cur(cfg[c]).phase = "Degraded"))

\* The day-two cron of a configuration that lost the machine stays suspended.
LoserIsSuspended ==
  \A c \in Configs :
    <>[](Exists(c) /\ ~Cur(cfg[c]).del /\ \E d \in Configs : d # c /\ Drives(d))
      => <>[](Cur(cron[c]) = None \/ Cur(cron[c]).susp)

-----------------------------------------------------------------------------
(* What the documents say and the code does not do. *)

\* host-convergence and the comment in reconcileInstall: once the install was seen
\* to succeed, nixos-anywhere is never started again.
NoReinstall ==
  [][\A c \in Configs :
       saw[c] => runs'[c] = runs[c] /\ reruns'[c] = reruns[c]]_vars

\* host-convergence: "At most one NixosConfiguration SHALL drive a given Machine":
\* two installs never run against it at the same time.
OneInstallPerMachine ==
  \A c, d \in Configs :
    c # d => ~(/\ Cur(inst[c]) # None /\ Cur(inst[c]).st = "active"
               /\ Cur(inst[d]) # None /\ Cur(inst[d]).st = "active")
=============================================================================
