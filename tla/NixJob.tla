------------------------------- MODULE NixJob -------------------------------
(***************************************************************************)
(* The NixJob controller (internal/controller/nixjob_controller.go) and    *)
(* the lifecycle it shares with the other workloads (nixworkload.go).      *)
(*                                                                         *)
(* One NixJob name, which users create, suspend and delete, and its        *)
(* run-Jobs, one per revision key, named after it.  The batch controller,  *)
(* the TTL controller, the garbage collector and the git server are        *)
(* external.  A reconcile is cut where it writes and where it reads anew.  *)
(***************************************************************************)
EXTENDS Informer, FiniteSets

CONSTANTS
  Revs,              \* revision keys: hashes of commit, installable and arguments
  None,
  JobHistoryLimit,
  Settings,          \* the conditions of a behaviour: how far the informers of
                     \* NixJobs (nixjob) and Jobs (job) may be behind, how many
                     \* NixJobs of this name are created (uids), the values of
                     \* triggerOnChange = false that users write (onces), and
                     \* bounds on pushes and reaped Jobs (moves) and on the other
                     \* disturbances (upsets)
  HasTTL             \* jobTemplate sets ttlSecondsAfterFinished

ASSUME NoneIsNoRevision == None \notin Revs /\ Revs # {}
ASSUME HistoryLimit == JobHistoryLimit \in Nat
ASSUME SettingsAreSettings ==
  Settings \subseteq [nixjob : Nat, job : Nat, uids : Nat, onces : SUBSET BOOLEAN,
                     moves : Nat, upsets : Nat]
ASSUME JobFlags == HasTTL \in BOOLEAN

Phases == {"", "Suspended", "Degraded", "Progressing", "Failed", "Ready"}

\* metadata: uid, del, fin; spec.nix: susp, once (triggerOnChange is false);
\* status: phase, resolved, rolled (rolledOutRevision), activeJob, and run, what
\* the succeeded and failed counters of the active Job say.
NixJobObject ==
  [uid : Nat, del : BOOLEAN, fin : BOOLEAN, susp : BOOLEAN, once : BOOLEAN,
   phase : Phases, resolved : Revs \cup {None}, rolled : Revs \cup {None},
   activeJob : Revs \cup {None}, run : {"active", "failed", "succeeded"}]

\* A run-Job: the uid of its owner, when it was created, and where it stands.
\* "retrying" still runs, but pods of it failed.
JobObject ==
  [owner : Nat, made : Nat, st : {"running", "retrying", "complete", "failed"}]

ASSUME NoneIsNoJob == None \notin NixJobObject \cup JobObject
ASSUME NoneIsNoReport == None \notin [st : {"active", "failed", "succeeded"}, del : BOOLEAN]

VARIABLES
  nj,                \* log of the NixJob
  jobs,              \* logs of its run-Jobs, by revision key
  head,              \* the revision the ref points at
  infra,             \* the referenced NixStore and NixBuilder are ready
  set,               \* the setting of this behaviour
  ctl,               \* the running reconcile
  uids,              \* history: NixJobs created
  made,              \* history: run-Jobs created since the NixJob was
  completed,         \* history: revisions a run of which completed
  moves, upsets      \* history: pushes and reaped Jobs; other disturbances

vars == <<nj, jobs, head, infra, set, ctl, uids, made, completed, moves, upsets>>
world == <<head, infra, set, uids, moves, upsets>>
history == <<made, completed>>

PCs == {"idle", "addFinalizer", "release", "resolve", "ensure", "observe", "gc",
        "prune", "status"}

\* Jobs by name and creation.
Entries == Revs \X Nat

\* The reconcile's local state: the working copy (obj), whether it carries the
\* current resourceVersion (fresh), the revision resolved (rev) and the Jobs
\* found to be too old (doomed).
Idle == [pc |-> "idle", obj |-> None, fresh |-> FALSE, rev |-> None, doomed |-> {}]

Busy == [pc : PCs \ {"idle"}, obj : NixJobObject, fresh : BOOLEAN,
         rev : Revs \cup {None}, doomed : SUBSET Entries]

TypeOK ==
  /\ nj \in Logs(NixJobObject \cup {None})
  /\ jobs \in [Revs -> Logs(JobObject \cup {None})]
  /\ head \in Revs
  /\ infra \in BOOLEAN
  /\ set \in Settings
  /\ ctl \in Busy \cup {Idle}
  /\ uids \in Nat /\ made \in Nat /\ moves \in Nat /\ upsets \in Nat
  /\ completed \subseteq Revs

Init ==
  /\ nj = <<None>>
  /\ jobs = [r \in Revs |-> <<None>>]
  /\ head = CHOOSE r \in Revs : TRUE
  /\ infra \in BOOLEAN
  /\ set \in Settings
  /\ ctl = Idle
  /\ uids = 0 /\ made = 0 /\ moves = 0 /\ upsets = 0
  /\ completed = {}

Move == moves < set.moves /\ moves' = moves + 1

Disturb == upsets < set.upsets /\ upsets' = upsets + 1

At(p) == ctl.pc = p

Goto(p) == ctl' = [ctl EXCEPT !.pc = p]

Write(v) == nj' = Put(set.nixjob, nj, v)

Finished(j) == j.st \in {"complete", "failed"}

-----------------------------------------------------------------------------
(* Reconcile. *)

Reconcile ==
  LET o == Seen(nj) IN
  /\ At("idle")
  /\ o # None
  /\ ctl' = [Idle EXCEPT
               !.pc = IF o.del THEN "release" ELSE IF o.fin THEN "resolve" ELSE "addFinalizer",
               !.obj = o, !.fresh = InSync(nj)]
  /\ UNCHANGED <<nj, jobs, world, history>>

EnsureFinalizer ==
  /\ At("addFinalizer")
  /\ ctl.fresh
  /\ Write([ctl.obj EXCEPT !.fin = TRUE])
  /\ ctl' = [ctl EXCEPT !.pc = "resolve", !.obj.fin = TRUE]
  /\ UNCHANGED <<jobs, world, history>>

\* The last finalizer goes: the API server removes the NixJob.
RemoveFinalizer ==
  /\ At("release")
  /\ ctl.fresh
  /\ Write(None)
  /\ ctl' = Idle
  /\ UNCHANGED <<jobs, world, history>>

\* A Conflict ends the reconcile, which is queued again.
DropOnConflict ==
  /\ ctl.pc \in {"addFinalizer", "release", "status"}
  /\ ~ctl.fresh
  /\ ctl' = Idle
  /\ UNCHANGED <<nj, jobs, world, history>>

\* Mutant: the pass goes on after the phase is set.
SuspendedGoesOn ==
  /\ At("resolve")
  /\ ctl.obj.susp
  /\ ctl' = [ctl EXCEPT !.pc = "ensure", !.rev = head, !.obj.phase = "Suspended"]
  /\ UNCHANGED <<nj, jobs, world, history>>

Suspended ==
  /\ At("resolve")
  /\ ctl.obj.susp
  /\ ctl' = [ctl EXCEPT !.pc = "status", !.obj.phase = "Suspended"]
  /\ UNCHANGED <<nj, jobs, world, history>>

\* Mutant: a revision that was resolved is kept.
ResolveOnce ==
  LET r == IF ctl.obj.resolved = None THEN head ELSE ctl.obj.resolved IN
  /\ At("resolve")
  /\ ~ctl.obj.susp
  /\ ctl' = IF infra
            THEN [ctl EXCEPT !.pc = "ensure", !.rev = r, !.obj.resolved = r]
            ELSE [ctl EXCEPT !.pc = "status", !.obj.resolved = r,
                             !.obj.phase = "Degraded"]
  /\ UNCHANGED <<nj, jobs, world, history>>

\* resolveRevision: the ref is looked up anew by every reconcile.  resolveInfra:
\* a workload does not advance while its store or builder is not ready.
Resolve ==
  /\ At("resolve")
  /\ ~ctl.obj.susp
  /\ ctl' = IF infra
            THEN [ctl EXCEPT !.pc = "ensure", !.rev = head, !.obj.resolved = head]
            ELSE [ctl EXCEPT !.pc = "status", !.obj.resolved = head,
                             !.obj.phase = "Degraded"]
  /\ UNCHANGED <<nj, jobs, world, history>>

\* git ls-remote fails.
GitError ==
  /\ At("resolve")
  /\ ~ctl.obj.susp
  /\ Disturb
  /\ ctl' = [ctl EXCEPT !.pc = "status", !.obj.phase = "Degraded"]
  /\ UNCHANGED <<nj, jobs, head, infra, set, uids, moves, history>>

\* No run-Job of this revision, and, where the workload runs once, of no other.
NeedsRun(r) ==
  /\ Seen(jobs[r]) = None
  /\ ctl.obj.once => \A s \in Revs : Seen(jobs[s]) = None

\* ensureRunJob.  AlreadyExists is as good as created.
EnsureRunJob ==
  LET r == ctl.rev IN
  /\ At("ensure")
  /\ IF NeedsRun(r) /\ Cur(jobs[r]) = None
     THEN /\ jobs' = [jobs EXCEPT ![r] =
                        Put(set.job, @, [owner |-> ctl.obj.uid, made |-> made + 1,
                                         st |-> "running"])]
          /\ made' = made + 1
     ELSE UNCHANGED <<jobs, made>>
  /\ Goto("observe")
  /\ UNCHANGED <<nj, world, completed>>

\* Mutant: the Job's own state is reported.
JobState(j) == j.st

\* What status.succeeded and status.failed are set to.
Counters(j) == CASE j.st = "complete" -> "succeeded"
                 [] j.st \in {"failed", "retrying"} -> "failed"
                 [] OTHER -> "active"

\* Mutant: the revision counts as rolled out once its Job failed for good, too.
RolledOutWhenFinished(old, j, r) == IF Finished(j) THEN r ELSE old

\* markReady records the revision.
RolledOut(old, j, r) == IF j.st = "complete" THEN r ELSE old

\* observe: with no Job in sight the report of the previous run stays.
Observe ==
  LET r == ctl.rev
      j == Seen(jobs[r]) IN
  /\ At("observe")
  /\ ctl' = IF j = None
            THEN [ctl EXCEPT !.pc = "gc", !.obj.phase = "Progressing"]
            ELSE [ctl EXCEPT
                    !.pc = "gc",
                    !.obj.activeJob = r,
                    !.obj.run = Counters(j),
                    !.obj.rolled = RolledOut(@, j, r),
                    !.obj.phase = CASE j.st = "complete" -> "Ready"
                                    [] j.st = "failed" -> "Failed"
                                    [] OTHER -> "Progressing"]
  /\ UNCHANGED <<nj, jobs, world, history>>

\* Mutant: the current run is pruned like any other.
PrunesAny == {r \in Revs : Seen(jobs[r]) # None /\ Finished(Seen(jobs[r]))}

\* The finished run-Jobs other than the current one.
Completed == {r \in Revs \ {ctl.rev} : Seen(jobs[r]) # None /\ Finished(Seen(jobs[r]))}

\* gcOldJobs: all but the newest JobHistoryLimit of them.
Outdated ==
  {r \in Completed :
     Cardinality({s \in Completed : Seen(jobs[s]).made > Seen(jobs[r]).made})
       >= JobHistoryLimit}

\* These, each with the time it was created.
Doomed == {<<r, Seen(jobs[r]).made>> : r \in Outdated}

ListOldJobs ==
  /\ At("gc")
  /\ ctl' = [ctl EXCEPT !.pc = IF Outdated = {} THEN "status" ELSE "prune",
                        !.doomed = Doomed]
  /\ UNCHANGED <<nj, jobs, world, history>>

\* One Delete, by name, whatever Job has that name by now; a missing one is fine.
Prune ==
  /\ At("prune")
  /\ \E d \in ctl.doomed :
       /\ jobs' = [jobs EXCEPT ![d[1]] = Put(set.job, @, None)]
       /\ ctl' = [ctl EXCEPT !.doomed = @ \ {d},
                             !.pc = IF ctl.doomed = {d} THEN "status" ELSE "prune"]
  /\ UNCHANGED <<nj, world, history>>

\* Mutant: the status is written without a resourceVersion.
StatusUpdateUnguarded ==
  /\ At("status")
  /\ Cur(nj) # None
  /\ Write([ctl.obj EXCEPT !.del = Cur(nj).del, !.susp = Cur(nj).susp])
  /\ ctl' = Idle
  /\ UNCHANGED <<jobs, world, history>>

StatusUpdate ==
  /\ At("status")
  /\ ctl.fresh
  /\ Write(ctl.obj)
  /\ ctl' = Idle
  /\ UNCHANGED <<jobs, world, history>>

\* A call fails: the pass ends, except that a failed prune is only logged.  One that
\* took effect and lost its answer is the call, followed by an error of the next.
ApiError ==
  /\ ~At("idle")
  /\ Disturb
  /\ ctl' = IF ctl.pc \in {"gc", "prune"} THEN [ctl EXCEPT !.pc = "status"] ELSE Idle
  /\ UNCHANGED <<nj, jobs, head, infra, set, uids, moves, history>>

Crash ==
  /\ ~At("idle")
  /\ Disturb
  /\ ctl' = Idle
  /\ nj' = Relisted(nj)
  /\ jobs' = [r \in Revs |-> Relisted(jobs[r])]
  /\ UNCHANGED <<head, infra, set, uids, moves, history>>

-----------------------------------------------------------------------------
(* The user, or the orchestrator that owns the NixJob. *)

UserWrites(v) ==
  /\ Write(v)
  /\ ctl' = [ctl EXCEPT !.fresh = FALSE]

\* The run-Jobs of a NixJob are collected before one of the same name is created.
\* Otherwise the new one takes their outcome for its own (see the README).
OldRunsGone == \A r \in Revs : jobs[r] = <<None>>

CreateNixJob ==
  /\ Cur(nj) = None
  /\ uids < set.uids
  /\ OldRunsGone
  /\ uids' = uids + 1
  /\ made' = 0
  /\ \E o \in set.onces :
       UserWrites([uid |-> uids + 1, del |-> FALSE, fin |-> FALSE, susp |-> FALSE,
                   once |-> o, phase |-> "", resolved |-> None, rolled |-> None,
                   activeJob |-> None, run |-> "active"])
  /\ UNCHANGED <<jobs, head, infra, set, completed, moves, upsets>>

SuspendNixJob ==
  /\ Cur(nj) # None
  /\ Disturb
  /\ UserWrites([Cur(nj) EXCEPT !.susp = ~@])
  /\ UNCHANGED <<jobs, head, infra, set, uids, history, moves>>

DeleteNixJob ==
  /\ Cur(nj) # None
  /\ ~Cur(nj).del
  /\ UserWrites(IF Cur(nj).fin THEN [Cur(nj) EXCEPT !.del = TRUE] ELSE None)
  /\ UNCHANGED <<jobs, world, history>>

-----------------------------------------------------------------------------
(* The rest of the cluster. *)

\* The ref moves, to a commit it was at before perhaps.
Push ==
  /\ Move
  /\ \E r \in Revs \ {head} : head' = r
  /\ UNCHANGED <<nj, jobs, infra, set, ctl, uids, history, upsets>>

InfraChanges ==
  /\ Disturb
  /\ infra' = ~infra
  /\ UNCHANGED <<nj, jobs, head, set, ctl, uids, history, moves>>

\* The batch controller.
JobRuns(r) ==
  LET j == Cur(jobs[r]) IN
  /\ j # None
  /\ ~Finished(j)
  /\ \E s \in {"retrying", "complete", "failed"} :
       /\ s # j.st
       /\ jobs' = [jobs EXCEPT ![r] = Put(set.job, @, [j EXCEPT !.st = s])]
       /\ completed' = IF s = "complete" THEN completed \cup {r} ELSE completed
  /\ UNCHANGED <<nj, world, ctl, made>>

\* The TTL controller removes a finished Job.
JobReaped(r) ==
  LET j == Cur(jobs[r]) IN
  /\ HasTTL
  /\ j # None
  /\ Finished(j)
  /\ Move
  /\ jobs' = [jobs EXCEPT ![r] = Put(set.job, @, None)]
  /\ UNCHANGED <<nj, head, infra, set, ctl, uids, history, upsets>>

\* The garbage collector removes a Job whose owner is gone.
JobCollected(r) ==
  LET j == Cur(jobs[r]) IN
  /\ j # None
  /\ Cur(nj) # None => Cur(nj).uid # j.owner
  /\ jobs' = [jobs EXCEPT ![r] = Put(set.job, @, None)]
  /\ UNCHANGED <<nj, world, ctl, history>>

DeliverNixJob ==
  /\ ~InSync(nj)
  /\ nj' = Delivered(nj)
  /\ UNCHANGED <<jobs, world, ctl, history>>

DeliverJob(r) ==
  /\ ~InSync(jobs[r])
  /\ jobs' = [jobs EXCEPT ![r] = Delivered(@)]
  /\ UNCHANGED <<nj, world, ctl, history>>

-----------------------------------------------------------------------------
Step ==
  \/ EnsureFinalizer \/ RemoveFinalizer \/ DropOnConflict \/ Suspended \/ Resolve
  \/ EnsureRunJob \/ Observe \/ ListOldJobs \/ Prune \/ StatusUpdate

User == CreateNixJob \/ SuspendNixJob \/ DeleteNixJob

Next ==
  \/ Reconcile \/ Step \/ GitError \/ ApiError \/ Crash
  \/ User \/ Push \/ InfraChanges \/ DeliverNixJob
  \/ \E r \in Revs : JobRuns(r) \/ JobReaped(r) \/ JobCollected(r) \/ DeliverJob(r)

Spec == Init /\ [][Next]_vars

\* A started reconcile runs to its end and every pass queues the next one (poll
\* interval, infraRequeue, error or Conflict); a Job ends, because retries are
\* bounded; orphans are collected; events are delivered.
Fairness ==
  /\ WF_vars(Step) /\ WF_vars(Reconcile) /\ WF_vars(DeliverNixJob)
  /\ \A r \in Revs : WF_vars(DeliverJob(r)) /\ WF_vars(JobCollected(r))
                       /\ WF_vars(JobRuns(r))

FairSpec == Spec /\ Fairness

-----------------------------------------------------------------------------
(* Properties. *)

Exists == Cur(nj) # None

\* What NixosConfiguration reads of its child.
Child == INSTANCE NixJobChild WITH
  child <- IF Exists THEN [st |-> Cur(nj).run, del |-> Cur(nj).del] ELSE None,
  moved <- moves > 0

\* The NixJob is a child as the orchestrator expects it: it reports an outcome
\* once, takes a success back only after its ref moved or its Job was reaped, and
\* reports nothing new once it is being deleted.
IsAChild == Child!Spec

\* Pruning the history stops no run that it knows of: a Job that gcOldJobs deletes is
\* not the run of the current revision, whose absence would make the next reconcile
\* start it once more, and it has finished, however old the list it was found in; or it
\* is a later Job of the same name, which the Delete cannot tell apart (see the README).
PruneSparesRuns ==
  [][\A r \in Revs :
       At("prune") /\ ctl' # ctl /\ Cur(jobs[r]) # None /\ Cur(jobs[r])' = None
       => /\ r # ctl.rev
          /\ Finished(Cur(jobs[r])) \/ \A d \in ctl.doomed : d[1] = r => d[2] < Cur(jobs[r]).made]_vars

\* A revision is reported as rolled out only if a run of it completed.
RolledOutRan == Exists => Cur(nj).rolled \in completed \cup {None}

\* The report settles: a live NixJob whose ref and infrastructure stay put ends
\* up Ready or Failed for the revision its ref points at.
Settled(r) == Exists /\ ~Cur(nj).del /\ ~Cur(nj).susp /\ ~Cur(nj).once /\ infra /\ head = r

ReportSettles ==
  \A r \in Revs :
    <>[]Settled(r) => <>[](Exists /\ Cur(nj).resolved = r /\ Cur(nj).phase \in {"Ready", "Failed"})

\* Suspension stops new runs: one that starts while the NixJob is suspended was
\* decided by a reconcile that had read it before.
SuspensionHolds ==
  [][made' > made /\ Exists /\ Cur(nj).susp => ~ctl.fresh]_vars
=============================================================================
