----------------------------- MODULE NixCronJob -----------------------------
(***************************************************************************)
(* The NixCronJob controller (internal/controller/nixcronjob_controller.go)*)
(* and the native CronJob it projects.                                     *)
(*                                                                         *)
(* One NixCronJob.  Its runs are the Jobs the native CronJob schedules and *)
(* the one-off Jobs that a new revision fires, one per revision.  The      *)
(* CronJob, Job and TTL controllers, the garbage collector and the git     *)
(* server are external.                                                    *)
(* Times are seconds, as in metav1.Time; 0 is an absent time.              *)
(***************************************************************************)
EXTENDS Informer, FiniteSetsExt

CONSTANTS
  Revs,              \* revisions (and their keys)
  Slots,             \* names of the Jobs the CronJob schedules
  None,
  Settings,          \* the conditions of a behaviour: how far the informers of
                     \* NixCronJobs (ncj), CronJobs (cj) and Jobs (job) may be
                     \* behind, a bound on the disturbances (upsets), and what
                     \* users write into spec (specs)
  MaxTime            \* the clock stops here

ASSUME NamesDiffer == Revs \cap Slots = {} /\ None \notin Revs \cup Slots /\ Revs # {}
ASSUME SettingsAreSettings ==
  Settings \subseteq [ncj : Nat, cj : Nat, job : Nat, upsets : Nat,
                     specs : SUBSET [trig : BOOLEAN, forbid : BOOLEAN]]
ASSUME CronBounds == MaxTime \in Nat

Phases == {"", "Suspended", "Degraded", "Progressing", "Ready"}

Jobs == Slots \cup Revs

\* metadata: del, fin; spec: susp (nix.suspend), trig (nix.triggerOnChange),
\* forbid (cronJobTemplate.concurrencyPolicy is Forbid); status: phase, stalled
\* (the Stalled condition), resolved, rolled (rolledOutRevision), active
\* (activeJobs is not empty), failed and succeeded (lastFailedTime and
\* lastSuccessfulTime).
NixCronJobObject ==
  [del : BOOLEAN, fin : BOOLEAN, susp : BOOLEAN, trig : BOOLEAN, forbid : BOOLEAN,
   phase : Phases, stalled : BOOLEAN, resolved : Revs \cup {None}, rolled : Revs \cup {None},
   active : BOOLEAN, failed : Nat, succeeded : Nat]

\* The native CronJob: the revision of its jobTemplate, its concurrencyPolicy,
\* status.active and status.lastSuccessfulTime.
CronJobObject == [rev : Revs, forbid : BOOLEAN, active : SUBSET Slots, succeeded : Nat]

\* A run: at is the time it ended.
JobObject == [st : {"running", "complete", "failed"}, at : Nat]

ASSUME NoneIsNoCron == None \notin NixCronJobObject \cup CronJobObject \cup JobObject

VARIABLES
  ncj,               \* log of the NixCronJob
  cj,                \* log of the native CronJob
  jobs,              \* logs of the runs
  head,              \* the revision the ref points at
  infra,             \* the referenced NixStore and NixBuilder are ready
  clock,
  set,               \* the setting of this behaviour
  ctl,               \* the running reconcile
  created,           \* history: the NixCronJob was created
  used,              \* history: Slots whose Job was created
  fired,             \* history: revisions whose one-off Job was created
  lost,              \* history: the creation of a one-off Job failed
  lastFailed,        \* history: when the latest failed run ended
  lastSucceeded,     \* history: when the latest successful run ended
  missed,            \* history: a run was removed before its end was recorded
  upsets             \* history: disturbances so far

vars == <<ncj, cj, jobs, head, infra, clock, set, ctl, created, used, fired, lost,
          lastFailed, lastSucceeded, missed, upsets>>
world == <<head, infra, clock, set, upsets>>
truth == <<lastFailed, lastSucceeded, missed>>
history == <<created, used, fired, lost, truth>>

PCs == {"idle", "addFinalizer", "release", "resolve", "project", "fire",
        "observe", "status"}

\* The reconcile's local state: the working copy (obj), whether it carries the
\* current resourceVersion (fresh) and the revision resolved (rev).
Idle == [pc |-> "idle", obj |-> None, fresh |-> FALSE, rev |-> None]

Busy == [pc : PCs \ {"idle"}, obj : NixCronJobObject, fresh : BOOLEAN,
         rev : Revs \cup {None}]

TypeOK ==
  /\ ncj \in Logs(NixCronJobObject \cup {None})
  /\ cj \in Logs(CronJobObject \cup {None})
  /\ jobs \in [Jobs -> Logs(JobObject \cup {None})]
  /\ head \in Revs /\ infra \in BOOLEAN /\ clock \in Nat /\ set \in Settings
  /\ ctl \in Busy \cup {Idle}
  /\ created \in BOOLEAN /\ used \subseteq Slots /\ fired \subseteq Revs
  /\ lost \in BOOLEAN /\ missed \in BOOLEAN
  /\ lastFailed \in Nat /\ lastSucceeded \in Nat /\ upsets \in Nat

Init ==
  /\ ncj = <<None>>
  /\ cj = <<None>>
  /\ jobs = [j \in Jobs |-> <<None>>]
  /\ head = CHOOSE r \in Revs : TRUE
  /\ infra \in BOOLEAN /\ clock = 1 /\ set \in Settings
  /\ ctl = Idle
  /\ created = FALSE /\ used = {} /\ fired = {}
  /\ lost = FALSE /\ missed = FALSE
  /\ lastFailed = 0 /\ lastSucceeded = 0 /\ upsets = 0

Disturb == upsets < set.upsets /\ upsets' = upsets + 1

At(p) == ctl.pc = p

Goto(p) == ctl' = [ctl EXCEPT !.pc = p]

Write(v) == ncj' = Put(set.ncj, ncj, v)

PutJob(j, v) == jobs' = [jobs EXCEPT ![j] = Put(set.job, @, v)]

-----------------------------------------------------------------------------
(* Reconcile. *)

Reconcile ==
  LET o == Seen(ncj) IN
  /\ At("idle")
  /\ o # None
  /\ ctl' = [Idle EXCEPT
               !.pc = IF o.del THEN "release" ELSE IF o.fin THEN "resolve" ELSE "addFinalizer",
               !.obj = o, !.fresh = InSync(ncj)]
  /\ UNCHANGED <<ncj, cj, jobs, world, history>>

EnsureFinalizer ==
  /\ At("addFinalizer")
  /\ ctl.fresh
  /\ Write([ctl.obj EXCEPT !.fin = TRUE])
  /\ ctl' = [ctl EXCEPT !.pc = "resolve", !.obj.fin = TRUE]
  /\ UNCHANGED <<cj, jobs, world, history>>

\* The last finalizer goes: the API server removes the NixCronJob.
RemoveFinalizer ==
  /\ At("release")
  /\ ctl.fresh
  /\ Write(None)
  /\ ctl' = Idle
  /\ UNCHANGED <<cj, jobs, world, history>>

\* A Conflict ends the reconcile, which is queued again.
DropOnConflict ==
  /\ ctl.pc \in {"addFinalizer", "release", "status"}
  /\ ~ctl.fresh
  /\ ctl' = Idle
  /\ UNCHANGED <<ncj, cj, jobs, world, history>>

\* Suspension ends the pass before the projection: the native CronJob stays as
\* it is.
Suspended ==
  /\ At("resolve")
  /\ ctl.obj.susp
  /\ ctl' = [ctl EXCEPT !.pc = "status", !.obj.phase = "Suspended"]
  /\ UNCHANGED <<ncj, cj, jobs, world, history>>

\* Mutant: a phase the API does not know.
StallPhase(o) == [o EXCEPT !.phase = "Stalled", !.stalled = TRUE]

\* markStalled.
Stall(o) == [o EXCEPT !.phase = "Degraded", !.stalled = TRUE]

\* resolveRevision, then resolveInfra.
Resolve ==
  LET o == [ctl.obj EXCEPT !.resolved = head] IN
  /\ At("resolve")
  /\ ~ctl.obj.susp
  /\ ctl' = IF infra
            THEN [ctl EXCEPT !.pc = "project", !.obj = o, !.rev = head]
            ELSE [ctl EXCEPT !.pc = "status", !.obj = Stall(o)]
  /\ UNCHANGED <<ncj, cj, jobs, world, history>>

\* git ls-remote fails.
GitError ==
  /\ At("resolve")
  /\ ~ctl.obj.susp
  /\ Disturb
  /\ ctl' = [ctl EXCEPT !.pc = "status", !.obj = Stall(@)]
  /\ UNCHANGED <<ncj, cj, jobs, head, infra, clock, set, history>>

\* Mutant: the revision that was resolved by the pass before counts.
ChangedSinceResolved(stored, r) == stored.resolved # r

\* revChanged: the revision in hand is not the one rolled out.
RevChanged(stored, r) == stored.rolled # r

\* project: Create where the cache has no CronJob, else Update of the cached one.
CanProject == IF Seen(cj) = None THEN Cur(cj) = None ELSE InSync(cj)

Projected ==
  IF Seen(cj) = None
  THEN [rev |-> ctl.rev, forbid |-> ctl.obj.forbid, active |-> {}, succeeded |-> 0]
  ELSE [Seen(cj) EXCEPT !.rev = ctl.rev]

Project ==
  /\ At("project")
  /\ CanProject
  /\ cj' = Put(set.cj, cj, Projected)
  /\ Goto(IF RevChanged(ctl.obj, ctl.rev) /\ ctl.obj.trig THEN "fire" ELSE "observe")
  /\ UNCHANGED <<ncj, jobs, world, history>>

\* AlreadyExists or Conflict ends the pass without a status update.
ProjectFails ==
  /\ At("project")
  /\ ~CanProject
  /\ ctl' = Idle
  /\ UNCHANGED <<ncj, cj, jobs, world, history>>

\* fireImmediateJob.  The runs that Forbid looks at are those the pass before
\* stored in status.  AlreadyExists is as good as created.
FireImmediateJob ==
  LET r == ctl.rev IN
  /\ At("fire")
  /\ IF ~(ctl.obj.forbid /\ ctl.obj.active) /\ Seen(jobs[r]) = None /\ Cur(jobs[r]) = None
     THEN PutJob(r, [st |-> "running", at |-> 0]) /\ fired' = fired \cup {r}
     ELSE UNCHANGED <<jobs, fired>>
  /\ Goto("observe")
  /\ UNCHANGED <<ncj, cj, world, created, used, lost, truth>>

\* Mutant: the times of the Jobs that are still there.
FromJobsOnly(stored, st) ==
  Max({0} \cup {Seen(jobs[j]).at : j \in {i \in Jobs : Seen(jobs[i]) # None /\ Seen(jobs[i]).st = st}})

\* lastFinishedRuns: the latest end of a run with outcome st, never before the
\* one recorded.
LastFinished(stored, st) ==
  Max({stored} \cup {Seen(jobs[j]).at : j \in {i \in Jobs : Seen(jobs[i]) # None /\ Seen(jobs[i]).st = st}})

\* Mutant: a failure stays one when a success comes after it.
AnyRunFailed(failed, succeeded) == failed # 0

\* latestRunFailed: of two runs that end in the same second the success counts, also
\* when it was the earlier one.
LatestRunFailed(failed, succeeded) == failed # 0 /\ succeeded < failed

Observe ==
  LET c == Seen(cj)
      failed == LastFinished(ctl.obj.failed, "failed")
      succeeded == Max({LastFinished(ctl.obj.succeeded, "complete"), c.succeeded}) IN
  /\ At("observe")
  /\ ctl' = IF c = None
            THEN [ctl EXCEPT !.pc = "status", !.obj.phase = "Progressing"]
            ELSE [ctl EXCEPT
                    !.pc = "status",
                    !.obj.active = c.active # {},
                    !.obj.failed = failed,
                    !.obj.succeeded = succeeded,
                    !.obj.rolled = ctl.rev,
                    !.obj.stalled = FALSE,
                    !.obj.phase = IF LatestRunFailed(failed, succeeded)
                                  THEN "Degraded" ELSE "Ready"]
  /\ UNCHANGED <<ncj, cj, jobs, world, history>>

StatusUpdate ==
  /\ At("status")
  /\ ctl.fresh
  /\ Write(ctl.obj)
  /\ ctl' = Idle
  /\ UNCHANGED <<cj, jobs, world, history>>

\* A call fails: the pass ends, except that a failed one-off Job is only logged.  A
\* finalizer or a status that was written without an answer is the write, followed by an
\* error of the next call; a one-off Job is the creation.
ApiError ==
  /\ ctl.pc \in {"addFinalizer", "release", "resolve", "project", "fire", "status"}
  /\ Disturb
  /\ ctl' = IF At("fire") THEN [ctl EXCEPT !.pc = "observe"] ELSE Idle
  /\ lost' = (lost \/ At("fire"))
  /\ UNCHANGED <<ncj, cj, jobs, head, infra, clock, set, created, used, fired, truth>>

\* The CronJob is written, and the pass ends because it does not learn of it.
ProjectAnswerLost ==
  /\ At("project")
  /\ CanProject
  /\ Disturb
  /\ cj' = Put(set.cj, cj, Projected)
  /\ ctl' = Idle
  /\ UNCHANGED <<ncj, jobs, head, infra, clock, set, history>>

Crash ==
  /\ ~At("idle")
  /\ Disturb
  /\ ctl' = Idle
  /\ ncj' = Relisted(ncj)
  /\ cj' = Relisted(cj)
  /\ jobs' = [j \in Jobs |-> Relisted(jobs[j])]
  /\ UNCHANGED <<head, infra, clock, set, history>>

-----------------------------------------------------------------------------
(* The user, or the orchestrator that owns the NixCronJob. *)

UserWrites(v) ==
  /\ Write(v)
  /\ ctl' = [ctl EXCEPT !.fresh = FALSE]

CreateNixCronJob ==
  /\ ~created
  /\ created' = TRUE
  /\ \E s \in set.specs :
       UserWrites([del |-> FALSE, fin |-> FALSE, susp |-> FALSE, trig |-> s.trig,
                   forbid |-> s.forbid, phase |-> "", stalled |-> FALSE,
                   resolved |-> None, rolled |-> None, active |-> FALSE, failed |-> 0, succeeded |-> 0])
  /\ UNCHANGED <<cj, jobs, world, used, fired, lost, truth>>

SuspendNixCronJob ==
  /\ Cur(ncj) # None
  /\ Disturb
  /\ UserWrites([Cur(ncj) EXCEPT !.susp = ~@])
  /\ UNCHANGED <<cj, jobs, head, infra, clock, set, history>>

DeleteNixCronJob ==
  /\ Cur(ncj) # None
  /\ ~Cur(ncj).del
  /\ UserWrites(IF Cur(ncj).fin THEN [Cur(ncj) EXCEPT !.del = TRUE] ELSE None)
  /\ UNCHANGED <<cj, jobs, world, history>>

-----------------------------------------------------------------------------
(* The rest of the cluster. *)

Push ==
  /\ Disturb
  /\ \E r \in Revs \ {head} : head' = r
  /\ UNCHANGED <<ncj, cj, jobs, infra, clock, set, ctl, history>>

InfraChanges ==
  /\ Disturb
  /\ infra' = ~infra
  /\ UNCHANGED <<ncj, cj, jobs, head, clock, set, ctl, history>>

Running(j) == Cur(jobs[j]) # None /\ Cur(jobs[j]).st = "running"

\* The CronJob controller starts a scheduled run, where Forbid says so only when
\* no other one that it started runs.
CronFires(s) ==
  /\ Cur(cj) # None
  /\ s \notin used
  /\ Cur(cj).forbid => \A t \in Slots : ~Running(t)
  /\ used' = used \cup {s}
  /\ PutJob(s, [st |-> "running", at |-> 0])
  /\ UNCHANGED <<ncj, cj, ctl, world, created, fired, lost, truth>>

\* The CronJob controller brings status.active and lastSuccessfulTime up to date.
CronSyncs ==
  LET ended == {s \in Slots : Cur(jobs[s]) # None /\ Cur(jobs[s]).st = "complete"} IN
  /\ Cur(cj) # None
  /\ cj' = Put(set.cj, cj,
             [Cur(cj) EXCEPT
                !.active = {s \in Slots : Running(s)},
                !.succeeded = Max({@} \cup {Cur(jobs[s]).at : s \in ended})])
  /\ cj' # cj
  /\ UNCHANGED <<ncj, jobs, ctl, world, history>>

\* A run ends, in the second of the run that ended before or in a later one.
JobEnds(j) ==
  /\ Running(j)
  /\ \E t \in {clock, clock + 1}, s \in {"complete", "failed"} :
       /\ t <= MaxTime
       /\ clock' = t
       /\ PutJob(j, [st |-> s, at |-> t])
       /\ lastFailed' = IF s = "failed" THEN t ELSE lastFailed
       /\ lastSucceeded' = IF s = "complete" THEN t ELSE lastSucceeded
  /\ UNCHANGED <<ncj, cj, head, infra, set, upsets, ctl, created, used, fired, lost, missed>>

\* A finished Job is removed, by its TTL or by the CronJob's history limits.
JobReaped(j) ==
  LET o == Cur(ncj) IN
  /\ Cur(jobs[j]) # None
  /\ ~Running(j)
  /\ Disturb
  /\ PutJob(j, None)
  /\ missed' = \/ missed
               \/ o = None
               \/ IF Cur(jobs[j]).st = "failed" THEN o.failed < Cur(jobs[j]).at
                                                ELSE o.succeeded < Cur(jobs[j]).at
  /\ UNCHANGED <<ncj, cj, head, infra, clock, set, ctl, created, used, fired, lost,
                 lastFailed, lastSucceeded>>

\* The garbage collector follows the owner reference.
CronCollected ==
  /\ created
  /\ Cur(ncj) = None
  /\ Cur(cj) # None
  /\ cj' = Put(set.cj, cj, None)
  /\ UNCHANGED <<ncj, jobs, ctl, world, history>>

DeliverNixCronJob ==
  /\ ~InSync(ncj)
  /\ ncj' = Delivered(ncj)
  /\ UNCHANGED <<cj, jobs, ctl, world, history>>

DeliverCronJob ==
  /\ ~InSync(cj)
  /\ cj' = Delivered(cj)
  /\ UNCHANGED <<ncj, jobs, ctl, world, history>>

DeliverJob(j) ==
  /\ ~InSync(jobs[j])
  /\ jobs' = [jobs EXCEPT ![j] = Delivered(@)]
  /\ UNCHANGED <<ncj, cj, ctl, world, history>>

-----------------------------------------------------------------------------
Step ==
  \/ EnsureFinalizer \/ RemoveFinalizer \/ DropOnConflict \/ Suspended \/ Resolve
  \/ Project \/ ProjectFails \/ FireImmediateJob \/ Observe \/ StatusUpdate

User == CreateNixCronJob \/ SuspendNixCronJob \/ DeleteNixCronJob

Cluster ==
  \/ Push \/ InfraChanges \/ CronSyncs \/ CronCollected
  \/ DeliverNixCronJob \/ DeliverCronJob
  \/ \E s \in Slots : CronFires(s)
  \/ \E j \in Jobs : JobEnds(j) \/ JobReaped(j) \/ DeliverJob(j)

Next == Reconcile \/ Step \/ GitError \/ ApiError \/ ProjectAnswerLost \/ Crash \/ User \/ Cluster

Spec == Init /\ [][Next]_vars

\* A started reconcile runs to its end and every pass queues the next one (poll
\* interval, infraRequeue, error or Conflict); the CronJob controller keeps its
\* status up to date; a Job ends, because retries are bounded; events are delivered.
Fairness ==
  /\ WF_vars(Step) /\ WF_vars(Reconcile) /\ WF_vars(CronSyncs)
  /\ WF_vars(DeliverNixCronJob) /\ WF_vars(DeliverCronJob)
  /\ \A j \in Jobs : WF_vars(JobEnds(j)) /\ WF_vars(DeliverJob(j))

FairSpec == Spec /\ Fairness

-----------------------------------------------------------------------------
(* Properties. *)

Exists == Cur(ncj) # None

\* lastFailedTime and lastSuccessfulTime only move forward, whichever Jobs were
\* removed since and however old the copy was that a pass started from.
TimesNeverBack ==
  [][Exists /\ Exists' => /\ Cur(ncj)'.failed >= Cur(ncj).failed
                          /\ Cur(ncj)'.succeeded >= Cur(ncj).succeeded]_vars

\* A revision is not recorded as rolled out before its one-off Job was created:
\* once it is recorded nothing would fire it.  Stalls, conflicts and crashes in
\* between do not lose it; a skip under Forbid and a failed Create, which the code
\* only logs, do.
RolledOutWasFired ==
  Exists /\ Cur(ncj).trig /\ ~Cur(ncj).forbid /\ ~lost => Cur(ncj).rolled \in fired \cup {None}

Quiet(r) ==
  Exists /\ ~Cur(ncj).del /\ ~Cur(ncj).susp /\ infra /\ head = r /\ ~missed

\* What the latest run came to.  Times are seconds: the order of a failure and a success
\* within one is not recorded anywhere, and either verdict stands (see the README).
TrueVerdicts ==
  IF lastFailed = lastSucceeded /\ lastFailed # 0 THEN {"Ready", "Degraded"}
  ELSE IF lastFailed > lastSucceeded THEN {"Degraded"} ELSE {"Ready"}

\* The verdict settles on the truth: the report of a live NixCronJob ends up
\* Degraded if a failed run ended after every successful one and Ready if none did or a
\* success came after, with the revision of its ref rolled out, pinned in the CronJob,
\* and no earlier stall left; unless a run was removed before a pass could record its end.
VerdictSettles ==
  \A r \in Revs :
    <>[]Quiet(r) => <>[](/\ Exists
                         /\ Cur(ncj).phase \in TrueVerdicts
                         /\ Cur(ncj).rolled = r /\ ~Cur(ncj).stalled
                         /\ Cur(cj) # None /\ Cur(cj).rev = r)

-----------------------------------------------------------------------------
(* What the documents say and the code does not do. *)

\* host-convergence: Blocked "suspends any existing day-two cron so no run fires
\* against an unreachable host": a NixCronJob that reports its suspension starts
\* no scheduled run.
SuspensionStopsRuns ==
  [][used' # used => ~(Exists /\ Cur(ncj).susp /\ Cur(ncj).phase = "Suspended")]_vars
=============================================================================
