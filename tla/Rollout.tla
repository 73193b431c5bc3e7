------------------------------ MODULE Rollout ------------------------------
(***************************************************************************)
(* The NixDeployment and NixStatefulSet controllers                        *)
(* (internal/controller/nixdeployment_controller.go and                    *)
(* nixstatefulset_controller.go, with nixworkload.go).                     *)
(*                                                                         *)
(* One workload, the native Deployment or StatefulSet it projects, and its *)
(* pods.  The two controllers have the same flow; what differs is the      *)
(* native ReplicaFailure condition, which only Deployments have, and how   *)
(* Kubernetes replaces pods.  A pod template is the revision it runs, the  *)
(* infrastructure is ready or not.  A pass is cut at its writes and at the *)
(* reads between.                                                          *)
(***************************************************************************)
EXTENDS Informer, FiniteSets

CONSTANTS
  Revs,              \* revisions a ref may point at
  Pods,              \* names of pods
  None,
  Settings           \* the conditions of a behaviour: the kind of the workload,
                     \* how far the informers of workloads (wl), of native
                     \* workloads (native) and of pods (pods) may be behind, the
                     \* specs users write (specs), how often the workload is
                     \* created (lives), and a bound on disturbances (upsets)

Kinds == {"Deployment", "StatefulSet"}

\* nix.suspend, and the replicas of the native template.
SpecObject == [susp : BOOLEAN, reps : Nat]

ASSUME RevsAreRevs == Revs # {} /\ None \notin Revs \cup Nat
ASSUME PodsAreFinite == IsFiniteSet(Pods)
ASSUME SettingsAreSettings ==
  Settings \subseteq
    [kind : Kinds, wl : Nat, native : Nat, pods : Nat, specs : SUBSET SpecObject,
     lives : Nat, upsets : Nat]

Phases == {"", "Suspended", "Building", "Progressing", "Ready", "Degraded"}
Stalls == {"", "GitError", "InfraNotReady", "InitBuildFailing", "ReplicaFailure"}

\* metadata: uid, del, fin, gen; spec; status: phase, stalled (the reason of the
\* Stalled condition), res (resolvedRevision), rolled (rolledOutRevision), seen
\* (observedGeneration).
WorkloadObject ==
  [uid : Nat, del : BOOLEAN, fin : BOOLEAN, gen : Nat, spec : SpecObject, phase : Phases,
   stalled : Stalls, res : Revs \cup {None}, rolled : Revs \cup {None}, seen : Nat]

\* The native workload: uid of its owner, gen, the revision and replicas of its
\* spec; status: obs (observedGeneration), the counters upd (updatedReplicas: pods of
\* the revision, ready or not) and rdy (readyReplicas: ready pods of any revision;
\* availableReplicas, too, without a minReadySeconds), fails (ReplicaFailure).
NativeObject ==
  [uid : Nat, gen : Nat, rev : Revs, reps : Nat, obs : Nat, upd : Nat, rdy : Nat,
   fails : BOOLEAN]

\* A pod: its revision, and whether its instantiate init container runs, failed, or
\* is done, after which the pod is ready.
PodObject == [rev : Revs, st : {"building", "failing", "running"}]

ASSUME NoneIsNoObject == None \notin WorkloadObject \cup NativeObject \cup PodObject

VARIABLES
  wl,                \* log of the workload
  native,            \* log of the native workload
  pods,              \* log of the pods
  head,              \* the revision the ref points at
  infra,             \* the store and builder referred to are ready
  ctl,               \* the running pass
  set,               \* the setting of this behaviour
  lives,             \* history: workloads created so far; uid of the last one
  ran,               \* history: revisions that all replicas ran at once
  upsets             \* history: disturbances so far

env == <<head, infra, set, lives, ran, upsets>>
vars == <<wl, native, pods, head, infra, ctl, set, lives, ran, upsets>>

PCs == {"idle", "release", "addFinalizer", "resolve", "project", "observe", "status"}

\* The working copy, and whether it carries the current resourceVersion.
Idle == [pc |-> "idle", obj |-> None, fresh |-> FALSE]
Busy == [pc : PCs \ {"idle"}, obj : WorkloadObject, fresh : BOOLEAN]

TypeOK ==
  /\ wl \in Logs(WorkloadObject \cup {None})
  /\ native \in Logs(NativeObject \cup {None})
  /\ pods \in Logs([Pods -> PodObject \cup {None}])
  /\ head \in Revs /\ infra \in BOOLEAN
  /\ ctl \in Busy \cup {Idle}
  /\ set \in Settings /\ lives \in Nat /\ ran \subseteq Revs /\ upsets \in Nat

NoPods == [p \in Pods |-> None]

Init ==
  /\ wl = <<None>> /\ native = <<None>> /\ pods = <<NoPods>>
  /\ head = CHOOSE r \in Revs : TRUE
  /\ infra = TRUE
  /\ ctl = Idle
  /\ set \in Settings
  /\ lives = 0 /\ ran = {} /\ upsets = 0

At(p) == ctl.pc = p

Disturb == upsets < set.upsets /\ upsets' = upsets + 1

WriteWorkload(v) == wl' = Put(set.wl, wl, v)

WriteNative(v) == native' = Put(set.native, native, v)

WritePods(v) == pods' = Put(set.pods, pods, v)

\* The pods of ps, those of revision r, and the ready ones.
Alive(ps) == {p \in Pods : ps[p] # None}
Updated(ps, r) == {p \in Alive(ps) : ps[p].rev = r}
ReadyPods(ps) == {p \in Alive(ps) : ps[p].st = "running"}

-----------------------------------------------------------------------------
(* Reconcile. *)

Reconcile ==
  LET o == Seen(wl) IN
  /\ At("idle")
  /\ o # None
  /\ ctl' = [pc |-> IF o.del THEN "release" ELSE IF o.fin THEN "resolve" ELSE "addFinalizer",
             obj |-> o, fresh |-> InSync(wl)]
  /\ UNCHANGED <<wl, native, pods, env>>

EnsureFinalizer ==
  /\ At("addFinalizer")
  /\ ctl.fresh
  /\ WriteWorkload([ctl.obj EXCEPT !.fin = TRUE])
  /\ ctl' = [ctl EXCEPT !.pc = "resolve", !.obj.fin = TRUE]
  /\ UNCHANGED <<native, pods, env>>

RemoveFinalizer ==
  /\ At("release")
  /\ ctl.fresh
  /\ WriteWorkload(None)
  /\ ctl' = Idle
  /\ UNCHANGED <<native, pods, env>>

\* A Conflict ends the pass, which is queued again.
DropOnConflict ==
  /\ ctl.pc \in {"addFinalizer", "release", "status"}
  /\ ~ctl.fresh
  /\ ctl' = Idle
  /\ UNCHANGED <<wl, native, pods, env>>

\* The next point with the working copy o, whose generation is observed.
Continue(p, o) == ctl' = [ctl EXCEPT !.pc = p, !.obj = [o EXCEPT !.seen = o.gen]]

\* Mutant: the reason is the phase.
StalledPhase(o, reason) == [o EXCEPT !.phase = reason, !.stalled = reason]

\* markStalled
Stalled(o, reason) == [o EXCEPT !.phase = "Degraded", !.stalled = reason]

Suspended ==
  /\ At("resolve")
  /\ ctl.obj.spec.susp
  /\ Continue("status", [ctl.obj EXCEPT !.phase = "Suspended"])
  /\ UNCHANGED <<wl, native, pods, env>>

GitError ==
  /\ At("resolve")
  /\ ~ctl.obj.spec.susp
  /\ Disturb
  /\ Continue("status", Stalled(ctl.obj, "GitError"))
  /\ UNCHANGED <<wl, native, pods, head, infra, set, lives, ran>>

\* resolveRevision, then resolveInfra: the rollout waits for the infrastructure.
Resolve ==
  LET o == [ctl.obj EXCEPT !.res = head] IN
  /\ At("resolve")
  /\ ~ctl.obj.spec.susp
  /\ IF infra THEN Continue("project", o) ELSE Continue("status", Stalled(o, "InfraNotReady"))
  /\ UNCHANGED <<wl, native, pods, env>>

\* Mutant: an existing native workload keeps its template.
DesiredOnce(k, o) ==
  IF k = None
  THEN [uid |-> o.uid, gen |-> 1, rev |-> o.res, reps |-> o.spec.reps,
        obs |-> 0, upd |-> 0, rdy |-> 0, fails |-> FALSE]
  ELSE [k EXCEPT !.reps = o.spec.reps, !.gen = IF k.reps = o.spec.reps THEN @ ELSE @ + 1]

\* desiredDeployment and project: a new object, or the mutable fields of k; its
\* owner is not one of them.
Desired(k, o) ==
  IF k = None
  THEN [uid |-> o.uid, gen |-> 1, rev |-> o.res, reps |-> o.spec.reps,
        obs |-> 0, upd |-> 0, rdy |-> 0, fails |-> FALSE]
  ELSE [k EXCEPT !.rev = o.res, !.reps = o.spec.reps,
                 !.gen = IF k.rev = o.res /\ k.reps = o.spec.reps THEN @ ELSE @ + 1]

Project ==
  /\ At("project")
  /\ InSync(native)
  /\ WriteNative(Desired(Seen(native), ctl.obj))
  /\ ctl' = [ctl EXCEPT !.pc = "observe"]
  /\ UNCHANGED <<wl, pods, env>>

\* AlreadyExists, Conflict or NotFound: the pass ends with an error, without a report.
ProjectFails ==
  /\ At("project")
  /\ ~InSync(native)
  /\ ctl' = Idle
  /\ UNCHANGED <<wl, native, pods, env>>

\* Mutant: the counters of an older generation count.
ReplicasUp(k) == k.upd = k.reps /\ k.rdy = k.reps /\ k.reps > 0

\* The counters, which need not count the same pods.
RolledOut(k) == k.obs >= k.gen /\ k.upd = k.reps /\ k.rdy = k.reps /\ k.reps > 0

\* observePodInit: what the init containers of the pods of revision r do.
ObservePodInit(ps, r) ==
  LET states == {ps[p].st : p \in Updated(ps, r)} IN
  IF "failing" \in states THEN "failing"
  ELSE IF "building" \in states THEN "building" ELSE "none"

\* markReady, after failing init containers and replica failures were ruled out, or
\* markProgressing, which leaves the Stalled condition.
Report(o, k, init) ==
  IF init = "failing" THEN Stalled(o, "InitBuildFailing")
  ELSE IF k.fails /\ set.kind = "Deployment" THEN Stalled(o, "ReplicaFailure")
  ELSE IF RolledOut(k) THEN [o EXCEPT !.phase = "Ready", !.rolled = o.res, !.stalled = ""]
  ELSE [o EXCEPT !.phase = IF init = "building" THEN "Building" ELSE "Progressing"]

\* observe: the native workload is read again, from the cache;
\* one that is not there yet is an error.
Observe ==
  LET k == Seen(native) IN
  /\ At("observe")
  /\ ctl' = IF k = None THEN Idle
            ELSE [ctl EXCEPT !.pc = "status", !.obj = Report(@, k, ObservePodInit(Seen(pods), @.res))]
  /\ UNCHANGED <<wl, native, pods, env>>

StatusUpdate ==
  /\ At("status")
  /\ ctl.fresh
  /\ WriteWorkload(ctl.obj)
  /\ ctl' = Idle
  /\ UNCHANGED <<native, pods, env>>

\* A call fails and ends the pass.  One that took effect and lost its answer is the
\* call, followed by an error of the next.
ApiError ==
  /\ ~At("idle")
  /\ Disturb
  /\ ctl' = Idle
  /\ UNCHANGED <<wl, native, pods, head, infra, set, lives, ran>>

Crash ==
  /\ ~At("idle")
  /\ Disturb
  /\ ctl' = Idle
  /\ wl' = Relisted(wl) /\ native' = Relisted(native) /\ pods' = Relisted(pods)
  /\ UNCHANGED <<head, infra, set, lives, ran>>

-----------------------------------------------------------------------------
(* Users, the repository, the infrastructure and Kubernetes. *)

UserWrites(v) ==
  /\ WriteWorkload(v)
  /\ ctl' = [ctl EXCEPT !.fresh = FALSE]

CreateWorkload ==
  /\ Cur(wl) = None
  /\ lives < set.lives
  /\ lives' = lives + 1
  /\ \E s \in set.specs :
       UserWrites([uid |-> lives + 1, del |-> FALSE, fin |-> FALSE, gen |-> 1, spec |-> s,
                   phase |-> "", stalled |-> "", res |-> None, rolled |-> None, seen |-> 0])
  /\ UNCHANGED <<native, pods, head, infra, set, ran, upsets>>

EditWorkload ==
  /\ Cur(wl) # None
  /\ Disturb
  /\ \E s \in set.specs \ {Cur(wl).spec} :
       UserWrites([Cur(wl) EXCEPT !.spec = s, !.gen = @ + 1])
  /\ UNCHANGED <<native, pods, head, infra, set, lives, ran>>

DeleteWorkload ==
  /\ Cur(wl) # None
  /\ ~Cur(wl).del
  /\ UserWrites(IF Cur(wl).fin THEN [Cur(wl) EXCEPT !.del = TRUE] ELSE None)
  /\ UNCHANGED <<native, pods, env>>

Push ==
  /\ Disturb
  /\ \E r \in Revs \ {head} : head' = r
  /\ UNCHANGED <<wl, native, pods, ctl, infra, set, lives, ran>>

InfraChanges ==
  /\ ~infra \/ upsets < set.upsets
  /\ upsets' = IF infra THEN upsets + 1 ELSE upsets
  /\ infra' = ~infra
  /\ UNCHANGED <<wl, native, pods, ctl, head, set, lives, ran>>

\* How many pods more than replicas Kubernetes starts: the strategy that the
\* controller gives a Deployment is a surge (25%, rounded up), with no pod
\* unavailable; a StatefulSet replaces its pods one by one.
Surge == IF set.kind = "Deployment" THEN 1 ELSE 0

PodStarts ==
  LET k == Cur(native)
      ps == Cur(pods) IN
  /\ k # None
  /\ Cardinality(Alive(ps)) < k.reps + Surge
  /\ Cardinality(Updated(ps, k.rev)) < k.reps
  /\ Pods \ Alive(ps) # {}
  /\ WritePods([ps EXCEPT ![CHOOSE p \in Pods \ Alive(ps) : TRUE] =
                                [rev |-> k.rev, st |-> "building"]])
  /\ UNCHANGED <<wl, native, env, ctl>>

\* A pod too many goes, or one of an older revision: in a Deployment when it is not
\* ready or enough others are, in a StatefulSet when all pods are ready (a pod that
\* never gets ready halts the rollout, whichever revision it is of).
PodStops ==
  LET k == Cur(native)
      ps == Cur(pods) IN
  /\ k # None
  /\ \E p \in Alive(ps) :
       /\ \/ Cardinality(Alive(ps)) > k.reps + Surge
          \/ p \in Updated(ps, k.rev) /\ Cardinality(Updated(ps, k.rev)) > k.reps
          \/ /\ p \notin Updated(ps, k.rev)
             /\ IF set.kind = "Deployment"
                THEN p \notin ReadyPods(ps) \/ Cardinality(ReadyPods(ps)) > k.reps
                ELSE ReadyPods(ps) = Alive(ps)
       /\ WritePods([ps EXCEPT ![p] = None])
  /\ UNCHANGED <<wl, native, env, ctl>>

\* The native controller observes its generation, and counts.
NativeReports ==
  LET k == Cur(native)
      ps == Cur(pods)
      n == [k EXCEPT !.obs = k.gen, !.upd = Cardinality(Updated(ps, k.rev)),
                     !.rdy = Cardinality(ReadyPods(ps))] IN
  /\ k # None
  /\ n # k
  /\ WriteNative(n)
  /\ ran' = IF k.reps > 0 /\ Cardinality(Updated(ps, k.rev) \cap ReadyPods(ps)) = k.reps
            THEN ran \cup {k.rev} ELSE ran
  /\ UNCHANGED <<wl, pods, ctl, head, infra, set, lives, upsets>>

\* The build in the init container of a pod ends.
BuildEnds ==
  /\ \E p \in Alive(Cur(pods)), s \in {"running", "failing"} :
       /\ Cur(pods)[p].st = "building"
       /\ WritePods([Cur(pods) EXCEPT ![p].st = s])
  /\ UNCHANGED <<wl, native, env, ctl>>

\* The kubelet restarts an init container that failed, for ever.
BuildRetries ==
  /\ \E p \in Alive(Cur(pods)) :
       /\ Cur(pods)[p].st = "failing"
       /\ WritePods([Cur(pods) EXCEPT ![p].st = "building"])
  /\ UNCHANGED <<wl, native, env, ctl>>

\* The native controller reports, or takes back, ReplicaFailure.
ReplicasFail ==
  /\ Cur(native) # None
  /\ set.kind = "Deployment"
  /\ Disturb
  /\ WriteNative([Cur(native) EXCEPT !.fails = ~@])
  /\ UNCHANGED <<wl, pods, ctl, head, infra, set, lives, ran>>

\* The garbage collector removes the native workload of an owner that is gone.
NativeCollected ==
  /\ Cur(native) # None
  /\ ~(Cur(wl) # None /\ Cur(wl).uid = Cur(native).uid)
  /\ WriteNative(None)
  /\ WritePods(NoPods)
  /\ UNCHANGED <<wl, ctl, env>>

DeliverWorkload ==
  /\ ~InSync(wl)
  /\ wl' = Delivered(wl)
  /\ UNCHANGED <<native, pods, env, ctl>>

DeliverNative ==
  /\ ~InSync(native)
  /\ native' = Delivered(native)
  /\ UNCHANGED <<wl, pods, env, ctl>>

DeliverPods ==
  /\ ~InSync(pods)
  /\ pods' = Delivered(pods)
  /\ UNCHANGED <<wl, native, env, ctl>>

-----------------------------------------------------------------------------
Step ==
  \/ EnsureFinalizer \/ RemoveFinalizer \/ DropOnConflict \/ Suspended \/ Resolve
  \/ Project \/ ProjectFails \/ Observe \/ StatusUpdate

Kubernetes ==
  \/ NativeReports \/ PodStarts \/ PodStops \/ BuildEnds \/ NativeCollected
  \/ DeliverWorkload \/ DeliverNative \/ DeliverPods

Environment ==
  \/ CreateWorkload \/ EditWorkload \/ DeleteWorkload \/ Push \/ InfraChanges
  \/ BuildRetries \/ ReplicasFail

Next == Reconcile \/ Step \/ GitError \/ ApiError \/ Crash \/ Kubernetes \/ Environment

Spec == Init /\ [][Next]_vars

\* A started pass runs to its end; every pass queues the next one (pollInterval,
\* infraRequeue, an error or a Conflict) unless the workload is suspended, and then
\* the edit that resumes it does.  The controllers of Kubernetes do their work; the
\* retry of a failed build is one of the things that may happen or not.
Fairness ==
  /\ WF_vars(Step) /\ WF_vars(Reconcile)
  /\ WF_vars(NativeReports) /\ WF_vars(PodStarts) /\ WF_vars(PodStops)
  /\ WF_vars(BuildEnds) /\ WF_vars(NativeCollected)
  /\ WF_vars(DeliverWorkload) /\ WF_vars(DeliverNative) /\ WF_vars(DeliverPods)

FairSpec == Spec /\ Fairness

-----------------------------------------------------------------------------
(* Properties. *)

Exists == Cur(wl) # None

\* A revision that a Ready NixStatefulSet reports as rolled out was run by all
\* replicas at once at some time, through pushes, edits, replaced workloads and faults,
\* although the counters that the report is read from count other sets of pods.  It
\* takes a StatefulSet, which starts a pod only when one is gone (the surge of a
\* Deployment makes the counters of a rollout add up while a new pod builds); a number
\* of replicas that nobody reduces in the middle of a rollout; and an informer of
\* native workloads that shows a pass its own write: observe reads the native workload
\* from the cache right after project wrote it (see the README for both).
RolledOutRan ==
  /\ set.kind = "StatefulSet" /\ set.native = 0
  /\ \A s, t \in set.specs : s.reps = t.reps
  /\ Exists /\ Cur(wl).phase = "Ready"
  => Cur(wl).rolled \in ran

\* What the report of a live, unsuspended workload has to be.
Verdict ==
  LET o == Cur(wl)
      k == Cur(native)
      Failing(p) == Cur(pods)[p].st = "failing"
      new == Updated(Cur(pods), head)
      broken == (\E p \in new : Failing(p)) \/ (k.fails /\ set.kind = "Deployment")
      halted == set.kind = "StatefulSet" /\ \E p \in Alive(Cur(pods)) \ new : Failing(p) IN
  /\ k # None
  /\ k.uid = o.uid /\ k.rev = head /\ k.reps = o.spec.reps
  /\ o.res = head /\ o.seen = o.gen
  /\ o.phase = IF broken THEN "Degraded"
               ELSE IF k.reps = 0 \/ halted THEN "Progressing" ELSE "Ready"
  /\ broken => o.stalled # ""
  /\ o.phase = "Ready" => o.rolled = head /\ o.stalled = "" /\ ReadyPods(Cur(pods)) = new

\* A failed build is tried again.
Retried ==
  \E p \in Alive(Cur(pods)) :
    /\ Cur(pods)[p].st = "failing"
    /\ Cur(pods)'[p] # None /\ Cur(pods)'[p].st = "building"

\* Where builds are not retried for ever, the native workload ends up owned, with the
\* revision and replicas wanted, and the report ends up saying what became of it: Ready
\* with that revision, which then all ready pods run, or the failure.  A suspended
\* workload ends up saying so.
RolloutSettles ==
  /\ <>[][~Retried]_pods
     => (<>[](Exists /\ ~Cur(wl).del /\ ~Cur(wl).spec.susp /\ infra) => <>[](Exists /\ Verdict))
  /\ <>[](Exists /\ ~Cur(wl).del /\ Cur(wl).spec.susp)
       => <>[](Exists /\ Cur(wl).phase = "Suspended")
=============================================================================
