----------------------------- MODULE NixCluster -----------------------------
(***************************************************************************)
(* The NixCluster controller (internal/controller/nixcluster_controller.go)*)
(*                                                                         *)
(* One NixCluster, the Machines its node groups select from, the NixBuilder*)
(* it may refer to and the converge NixCronJob it owns, whose reports come *)
(* from the controller modelled in NixCronJob.  The controller only reads  *)
(* Machines and builders, so what it sees of them late is a change that    *)
(* comes late: they have no logs.  The node files are the members they are *)
(* rendered for.  A pass is cut at its writes and at the reads between.    *)
(***************************************************************************)
EXTENDS Informer, FiniteSets

CONSTANTS
  Names,             \* names of Machines; < is the name order
  Labels,            \* what selectors match
  Systems,           \* nix systems that builders build and machines run
  Reports,           \* what the converge NixCronJob reports
  None,
  Settings           \* the conditions of a behaviour: how far the informers of
                     \* NixClusters (cluster) and NixCronJobs (cron) may be
                     \* behind, the specs users write (specs), the Machines and
                     \* builders there are (fleets, builders), and a bound on
                     \* the disturbances (upsets)

\* A node group: its selector and its count, which may be unset.
Group == [sel : Labels, count : Nat \cup {None}]

\* Groups keep their places: status.nodeGroups is matched by name.  valid: every
\* selector can be parsed and every node file rendered; ref: builderRef is set.
SpecObject == [groups : Seq(Group), valid : BOOLEAN, ref : BOOLEAN]

\* The labels of a Machine, and the system nixSystemForArch derives from its
\* hardware facts, if any.
MachineObject == [labels : SUBSET Labels, sys : Systems \cup {None}]

\* The status of the NixCronJob as the cluster reads it: phase (Progressing stands
\* for the others, Degraded for Failed too), stalled (on the infrastructure), failed
\* (the latest finished run did), ok (a run succeeded once), active (a run is active).
ReportObject ==
  [phase : {"Progressing", "Ready", "Degraded"}, stalled : BOOLEAN, failed : BOOLEAN,
   ok : BOOLEAN, active : BOOLEAN]

ASSUME NamesAreOrdered == Names \subseteq Nat /\ IsFiniteSet(Names)
ASSUME ReportsAre == Reports \subseteq ReportObject
ASSUME SettingsAreSettings ==
  Settings \subseteq
    [cluster : Nat, cron : Nat, upsets : Nat, specs : SUBSET SpecObject,
     fleets : SUBSET [Names -> MachineObject \cup {None}],
     builders : SUBSET ({None} \cup SUBSET Systems)]

Phases == {"", "Blocked", "Converging", "Degraded", "Ready"}
Stalls == {"", "InfraNotReady", "BuilderSystemMismatch", "SelectionComplete",
          "InvalidNodeFile", "Failed"}
MemberStatuses == {"", "Pending", "Applying", "Applied", "Failed"}

\* metadata: del, fin, gen; spec; status: members (of each group), told (the
\* status of each member), phase, stalled (the reason of the Stalled condition),
\* under (Underprovisioned), seen (observedGeneration).
ClusterObject ==
  [del : BOOLEAN, fin : BOOLEAN, gen : Nat, spec : SpecObject,
   members : Seq(SUBSET Names), told : [Names -> MemberStatuses], phase : Phases,
   stalled : Stalls, under : BOOLEAN, seen : Nat]

\* The converge NixCronJob: owned by the cluster, the members it has node files
\* for, spec.nix.suspend, del, and its report.
CronObject ==
  [owned : BOOLEAN, nodes : SUBSET Names, susp : BOOLEAN, del : BOOLEAN, rep : ReportObject]

ASSUME NoneIsNoObject ==
  None \notin Nat \cup Systems \cup MachineObject \cup ClusterObject \cup CronObject

VARIABLES
  cluster,           \* log of the NixCluster
  cron,              \* log of its converge NixCronJob
  machines,          \* the Machines the controller lists
  builder,           \* spec.systems of the NixBuilder referred to, or None
  ctl,               \* the running pass
  set,               \* the setting of this behaviour
  created,           \* history: the NixCluster was created
  upsets             \* history: disturbances so far

env == <<machines, builder, set, created, upsets>>
vars == <<cluster, cron, machines, builder, ctl, set, created, upsets>>

PCs == {"idle", "remove", "finalize", "addFinalizer", "select", "suspend", "ensure",
        "observe", "status", "fail"}

\* The working copy, whether it carries the current resourceVersion, the members
\* selected for each group, and whether a group has too few.
Idle == [pc |-> "idle", obj |-> None, fresh |-> FALSE, sel |-> <<>>, under |-> FALSE]
Busy == [pc : PCs \ {"idle"}, obj : ClusterObject, fresh : BOOLEAN,
         sel : Seq(SUBSET Names), under : BOOLEAN]

TypeOK ==
  /\ cluster \in Logs(ClusterObject \cup {None})
  /\ cron \in Logs(CronObject \cup {None})
  /\ machines \in [Names -> MachineObject \cup {None}]
  /\ builder \in {None} \cup SUBSET Systems
  /\ ctl \in Busy \cup {Idle}
  /\ set \in Settings /\ created \in BOOLEAN /\ upsets \in Nat

Init ==
  /\ cluster = <<None>>
  /\ cron = <<None>>
  /\ set \in Settings
  /\ machines \in set.fleets
  /\ builder \in set.builders
  /\ ctl = Idle
  /\ created = FALSE /\ upsets = 0

At(p) == ctl.pc = p

Goto(p) == ctl' = [ctl EXCEPT !.pc = p]

Disturb == upsets < set.upsets /\ upsets' = upsets + 1

WriteCluster(v) == cluster' = Put(set.cluster, cluster, v)

WriteCron(v) == cron' = Put(set.cron, cron, v)

-----------------------------------------------------------------------------
(* Selection. *)

\* The n lowest names of S.
Lowest(S, n) == {x \in S : Cardinality({y \in S : y < x}) < n}

\* matchingMachines: what a selector matches, less what earlier groups claimed.
MatchingMachines(sel, claimed) ==
  {m \in Names \ claimed : machines[m] # None /\ sel \in machines[m].labels}

\* Mutant: always the lowest names.
SelectLowest(candidates, prev, count) ==
  IF count = None THEN candidates ELSE Lowest(candidates, count)

\* selectGroupMembers: keep earlier members that still match, the lowest ones if
\* there are too many; fill vacancies from above the highest of them, then from
\* the lowest candidates.
SelectGroupMembers(candidates, prev, count) ==
  IF count = None THEN candidates
  ELSE LET kept == Lowest(prev \cap candidates, count)
           above == {c \in candidates \ kept : \A k \in kept : c > k}
           grown == kept \cup Lowest(above, count - Cardinality(kept))
       IN  grown \cup Lowest(candidates \ grown, count - Cardinality(grown))

Claimed(sel) == UNION {sel[i] : i \in DOMAIN sel}

\* One turn of the loop over the node groups, after those in done; prev is
\* status.nodeGroups.
WithGroup(groups, prev, i, done) ==
  Append(done, SelectGroupMembers(MatchingMachines(groups[i].sel, Claimed(done)),
                                  IF i \in DOMAIN prev THEN prev[i] ELSE {},
                                  groups[i].count))

Selection(groups, prev) ==
  LET f[i \in 0 .. Len(groups)] ==
        IF i = 0 THEN <<>> ELSE WithGroup(groups, prev, i, f[i - 1])
  IN  f[Len(groups)]

Underprovisioned(groups, sel) ==
  \E i \in DOMAIN groups : groups[i].count # None /\ Cardinality(sel[i]) < groups[i].count

\* checkBuilderCoversMembers: only a builder that says what it builds, and a member
\* whose architecture is known, prove a mismatch.
Mismatch(spec, sel) ==
  /\ spec.ref
  /\ builder \notin {None, {}}
  /\ \E m \in Claimed(sel) : machines[m].sys # None /\ machines[m].sys \notin builder

-----------------------------------------------------------------------------
(* Reconcile. *)

Reconcile ==
  LET o == Seen(cluster) IN
  /\ At("idle")
  /\ o # None
  /\ ctl' = [Idle EXCEPT
               !.pc = IF o.del THEN "remove" ELSE IF o.fin THEN "select" ELSE "addFinalizer",
               !.obj = o, !.fresh = InSync(cluster)]
  /\ UNCHANGED <<cluster, cron, env>>

AddFinalizer ==
  /\ At("addFinalizer")
  /\ ctl.fresh
  /\ WriteCluster([ctl.obj EXCEPT !.fin = TRUE])
  /\ ctl' = [ctl EXCEPT !.pc = "select", !.obj.fin = TRUE]
  /\ UNCHANGED <<cron, env>>

\* A Conflict ends the pass, which is queued again; during fail it is ignored.
DropOnConflict ==
  /\ ctl.pc \in {"addFinalizer", "finalize", "status", "fail"}
  /\ ~ctl.fresh
  /\ ctl' = Idle
  /\ UNCHANGED <<cluster, cron, env>>

\* fail: phase and conditions; the node groups stay as they were reported.
Failed(o, phase, reason) == [o EXCEPT !.phase = phase, !.stalled = reason]

\* A selector that cannot be parsed, or a node file that cannot be rendered.
InvalidGroups ==
  /\ At("select")
  /\ ~ctl.obj.spec.valid
  /\ \E reason \in {"SelectionComplete", "InvalidNodeFile"} :
       ctl' = [ctl EXCEPT !.pc = "fail", !.obj = Failed(@, "Blocked", reason)]
  /\ UNCHANGED <<cluster, cron, env>>

\* The Machines are listed, the members selected, the builder checked.
SelectMembers ==
  LET sel == Selection(ctl.obj.spec.groups, ctl.obj.members) IN
  /\ At("select")
  /\ ctl.obj.spec.valid
  /\ ctl' = [ctl EXCEPT !.pc = IF Mismatch(ctl.obj.spec, sel) THEN "suspend" ELSE "ensure",
                        !.sel = sel, !.under = Underprovisioned(ctl.obj.spec.groups, sel)]
  /\ UNCHANGED <<cluster, cron, env>>

\* A builder that cannot be read proves nothing.
BuilderUnreadable ==
  LET sel == Selection(ctl.obj.spec.groups, ctl.obj.members) IN
  /\ At("select")
  /\ ctl.obj.spec.valid /\ ctl.obj.spec.ref
  /\ Disturb
  /\ ctl' = [ctl EXCEPT !.pc = "ensure", !.sel = sel,
                        !.under = Underprovisioned(ctl.obj.spec.groups, sel)]
  /\ UNCHANGED <<cluster, cron, machines, builder, set, created>>

\* Mutant: a misconfigured cluster's child goes on.
SuspendNothing ==
  /\ At("suspend")
  /\ ctl' = [ctl EXCEPT !.pc = "fail", !.obj = Failed(@, "Blocked", "BuilderSystemMismatch")]
  /\ UNCHANGED <<cluster, cron, env>>

\* suspendConvergeCronJob: a failed update is only logged.
SuspendConvergeCronJob ==
  LET k == Seen(cron) IN
  /\ At("suspend")
  /\ cron' = IF k # None /\ InSync(cron) THEN Put(set.cron, cron, [k EXCEPT !.susp = TRUE])
             ELSE cron
  /\ ctl' = [ctl EXCEPT !.pc = "fail", !.obj = Failed(@, "Blocked", "BuilderSystemMismatch")]
  /\ UNCHANGED <<cluster, env>>

NoReport == [phase |-> "Progressing", stalled |-> FALSE, failed |-> FALSE,
             ok |-> FALSE, active |-> FALSE]

\* desiredConvergeCronJob: the whole spec is rewritten, which also resumes it.
DesiredConvergeCronJob(k, nodes) ==
  [owned |-> TRUE, nodes |-> nodes, susp |-> FALSE,
   del |-> k # None /\ k.del, rep |-> IF k = None THEN NoReport ELSE k.rep]

\* ensureConvergeCronJob: CreateOrUpdate of the cached object.
EnsureConvergeCronJob ==
  LET new == DesiredConvergeCronJob(Seen(cron), Claimed(ctl.sel)) IN
  /\ At("ensure")
  /\ InSync(cron) \/ new = Seen(cron)
  /\ cron' = IF InSync(cron) THEN Put(set.cron, cron, new) ELSE cron
  /\ Goto("observe")
  /\ UNCHANGED <<cluster, env>>

\* AlreadyExists, Conflict or NotFound: the cluster is reported Degraded.
EnsureFails ==
  /\ At("ensure")
  /\ ~InSync(cron)
  /\ DesiredConvergeCronJob(Seen(cron), Claimed(ctl.sel)) # Seen(cron)
  /\ ctl' = [ctl EXCEPT !.pc = "fail", !.obj = Failed(@, "Degraded", "Failed")]
  /\ UNCHANGED <<cluster, cron, env>>

\* Mutant: the phase of the child, unmapped.
ChildPhase(k, was) == IF k = None THEN "Pending" ELSE k.rep.phase

\* coarseMemberStatus: k is the cached child, was what the member reported before.
CoarseMemberStatus(k, was) ==
  IF k = None THEN "Pending"
  ELSE IF k.rep.stalled THEN (IF was # "" THEN was ELSE "Pending")
  ELSE IF k.rep.failed \/ k.rep.phase = "Degraded" THEN "Failed"
  ELSE IF k.rep.phase = "Ready" THEN "Applied"
  ELSE IF k.rep.active THEN "Applying"
  ELSE IF k.rep.ok THEN "Applied" ELSE "Pending"

\* Mutant: the child's phase outranks the outcome of its latest run.
PhaseOfChild(k, total) ==
  IF total = 0 THEN "Blocked"
  ELSE IF k = None THEN "Converging"
  ELSE IF k.rep.stalled THEN "Blocked"
  ELSE IF k.rep.phase = "Degraded" THEN "Degraded"
  ELSE IF k.rep.phase = "Ready" \/ k.rep.ok THEN "Ready" ELSE "Converging"

ClusterPhase(k, total) ==
  IF total = 0 THEN "Blocked"
  ELSE IF k = None THEN "Converging"
  ELSE IF k.rep.stalled THEN "Blocked"
  ELSE IF k.rep.failed \/ k.rep.phase = "Degraded" THEN "Degraded"
  ELSE IF k.rep.phase = "Ready" \/ k.rep.ok THEN "Ready" ELSE "Converging"

\* Mutant: a stall of the child is mirrored and never taken back.
StallOnce(o, k) == IF k # None /\ k.rep.stalled THEN "InfraNotReady" ELSE o.stalled

\* setConditions: the stall of the child is mirrored, any other one is obsolete.
StallOf(o, k) == IF k # None /\ k.rep.stalled THEN "InfraNotReady" ELSE ""

Observed(o, k) ==
  LET all == Claimed(ctl.sel) IN
  [o EXCEPT
     !.members = ctl.sel,
     !.told = [m \in Names |-> IF m \in all THEN CoarseMemberStatus(k, o.told[m]) ELSE ""],
     !.phase = ClusterPhase(k, Cardinality(all)),
     !.stalled = StallOf(o, k), !.under = ctl.under, !.seen = o.gen]

\* The child is read again, from the cache.
ObserveCron ==
  /\ At("observe")
  /\ ctl' = [ctl EXCEPT !.pc = "status", !.obj = Observed(@, Seen(cron))]
  /\ UNCHANGED <<cluster, cron, env>>

\* Status().Update of a pass and of fail.
StatusUpdate ==
  /\ ctl.pc \in {"status", "fail"}
  /\ ctl.fresh
  /\ WriteCluster(ctl.obj)
  /\ ctl' = Idle
  /\ UNCHANGED <<cron, env>>

\* Mutant: a child that is already gone is an error.
DeleteFoundCron ==
  /\ At("remove")
  /\ cron' = IF Cur(cron) = None THEN cron
             ELSE Put(set.cron, cron, [Cur(cron) EXCEPT !.del = TRUE])
  /\ IF Cur(cron) # None THEN Goto("finalize") ELSE ctl' = Idle
  /\ UNCHANGED <<cluster, env>>

\* reconcileRemoving: the child is deleted by name, then the finalizer goes.
DeleteCron ==
  /\ At("remove")
  /\ cron' = IF Cur(cron) = None THEN cron
             ELSE Put(set.cron, cron, [Cur(cron) EXCEPT !.del = TRUE])
  /\ IF ctl.obj.fin THEN Goto("finalize") ELSE ctl' = Idle
  /\ UNCHANGED <<cluster, env>>

Finalize ==
  /\ At("finalize")
  /\ ctl.fresh
  /\ WriteCluster(None)
  /\ ctl' = Idle
  /\ UNCHANGED <<cron, env>>

\* A call fails.  The one that observes the child counts as "there is none", the one
\* that suspends it is logged, the one that writes it degrades.  One that took effect and
\* lost its answer is the call, followed by an error of the next.
ApiError ==
  /\ ~At("idle")
  /\ Disturb
  /\ ctl' = CASE At("observe") -> [ctl EXCEPT !.pc = "status", !.obj = Observed(@, None)]
              [] At("suspend") -> [ctl EXCEPT !.pc = "fail",
                                     !.obj = Failed(@, "Blocked", "BuilderSystemMismatch")]
              [] At("ensure") -> [ctl EXCEPT !.pc = "fail", !.obj = Failed(@, "Degraded", "Failed")]
              [] OTHER -> Idle
  /\ UNCHANGED <<cluster, cron, machines, builder, set, created>>

\* The child was written, and the cluster is reported Degraded because the answer is lost.
EnsureAnswerLost ==
  LET new == DesiredConvergeCronJob(Seen(cron), Claimed(ctl.sel)) IN
  /\ At("ensure")
  /\ InSync(cron) /\ new # Seen(cron)
  /\ Disturb
  /\ WriteCron(new)
  /\ ctl' = [ctl EXCEPT !.pc = "fail", !.obj = Failed(@, "Degraded", "Failed")]
  /\ UNCHANGED <<cluster, machines, builder, set, created>>

Crash ==
  /\ ~At("idle")
  /\ Disturb
  /\ ctl' = Idle
  /\ cluster' = Relisted(cluster)
  /\ cron' = Relisted(cron)
  /\ UNCHANGED <<machines, builder, set, created>>

-----------------------------------------------------------------------------
(* Users, Machines, builders and the converge NixCronJob. *)

UserWrites(v) ==
  /\ WriteCluster(v)
  /\ ctl' = [ctl EXCEPT !.fresh = FALSE]

CreateCluster ==
  /\ ~created
  /\ created' = TRUE
  /\ \E s \in set.specs :
       UserWrites([del |-> FALSE, fin |-> FALSE, gen |-> 1, spec |-> s, members |-> <<>>,
                   told |-> [m \in Names |-> ""], phase |-> "", stalled |-> "",
                   under |-> FALSE, seen |-> 0])
  /\ UNCHANGED <<cron, machines, builder, set, upsets>>

EditCluster ==
  /\ Cur(cluster) # None
  /\ Disturb
  /\ \E s \in set.specs \ {Cur(cluster).spec} :
       UserWrites([Cur(cluster) EXCEPT !.spec = s, !.gen = @ + 1])
  /\ UNCHANGED <<cron, machines, builder, set, created>>

DeleteCluster ==
  /\ Cur(cluster) # None
  /\ ~Cur(cluster).del
  /\ UserWrites(IF Cur(cluster).fin THEN [Cur(cluster) EXCEPT !.del = TRUE] ELSE None)
  /\ UNCHANGED <<cron, env>>

\* A Machine is created, removed, relabelled or scanned: one step of the fleet.
MachineChanges(m) ==
  /\ Disturb
  /\ \E f \in set.fleets :
       f[m] # machines[m] /\ machines' = [machines EXCEPT ![m] = f[m]]
  /\ UNCHANGED <<cluster, cron, builder, ctl, set, created>>

BuilderChanges ==
  /\ Disturb
  /\ \E b \in set.builders \ {builder} : builder' = b
  /\ UNCHANGED <<cluster, cron, machines, ctl, set, created>>

\* The NixCronJob controller reports.
CronReports ==
  /\ Cur(cron) # None
  /\ Disturb
  /\ \E r \in Reports : WriteCron([Cur(cron) EXCEPT !.rep = r])
  /\ UNCHANGED <<cluster, machines, builder, ctl, set, created>>

\* It releases a deleted child; the garbage collector deletes an owner's orphans.
CronGoes ==
  /\ Cur(cron) # None
  /\ Cur(cron).del \/ (Cur(cluster) = None /\ Cur(cron).owned)
  /\ WriteCron(IF Cur(cron).del THEN None ELSE [Cur(cron) EXCEPT !.del = TRUE])
  /\ UNCHANGED <<cluster, env, ctl>>

DeliverCluster ==
  /\ ~InSync(cluster)
  /\ cluster' = Delivered(cluster)
  /\ UNCHANGED <<cron, env, ctl>>

DeliverCron ==
  /\ ~InSync(cron)
  /\ cron' = Delivered(cron)
  /\ UNCHANGED <<cluster, env, ctl>>

-----------------------------------------------------------------------------
Step ==
  \/ AddFinalizer \/ DropOnConflict \/ InvalidGroups \/ SelectMembers
  \/ SuspendConvergeCronJob \/ EnsureConvergeCronJob \/ EnsureFails \/ ObserveCron
  \/ StatusUpdate \/ DeleteCron \/ Finalize

Environment ==
  \/ CreateCluster \/ EditCluster \/ DeleteCluster \/ BuilderChanges \/ CronReports
  \/ CronGoes \/ DeliverCluster \/ DeliverCron
  \/ \E m \in Names : MachineChanges(m)

Next ==
  \/ Reconcile \/ Step \/ BuilderUnreadable \/ ApiError \/ EnsureAnswerLost \/ Crash
  \/ Environment

Spec == Init /\ [][Next]_vars

\* A started pass runs to its end, and every pass queues the next one: RequeueAfter,
\* an error or a Conflict, besides the events of Machines, the child and the cluster
\* itself.  Deleted children are released and orphans collected; events arrive.
Fairness ==
  /\ WF_vars(Step) /\ WF_vars(Reconcile) /\ WF_vars(CronGoes)
  /\ WF_vars(DeliverCluster) /\ WF_vars(DeliverCron)

FairSpec == Spec /\ Fairness

-----------------------------------------------------------------------------
(* Properties. *)

Exists == Cur(cluster) # None

\* A pass that read the current status evicts a member only if it matches no
\* longer, if an earlier group took it, or if the count is used up by members that
\* were there before it and sort below it: no newcomer displaces a member.
NobodyIsDisplaced ==
  [][(At("select") /\ ctl.fresh /\ ctl'.pc \in {"suspend", "ensure"})
      => \A i \in DOMAIN ctl'.sel \cap DOMAIN ctl.obj.members :
           \A m \in ctl.obj.members[i] \ ctl'.sel[i] :
             \/ m \notin MatchingMachines(ctl.obj.spec.groups[i].sel, {})
             \/ \E j \in 1 .. (i - 1) : m \in ctl'.sel[j]
             \/ /\ Cardinality(ctl'.sel[i]) = ctl.obj.spec.groups[i].count
                /\ \A k \in ctl'.sel[i] : k < m /\ k \in ctl.obj.members[i]]_vars

\* A cluster that reports Ready has no member that reports Failed, whatever pass,
\* failing or not, wrote which part of the status.
ReadyIsHonest ==
  Exists /\ Cur(cluster).phase = "Ready" => \A m \in Names : Cur(cluster).told[m] # "Failed"

Live == Exists /\ ~Cur(cluster).del /\ Cur(cluster).spec.valid

\* What the passes select from the reported members.
Wanted == Selection(Cur(cluster).spec.groups, Cur(cluster).members)

\* With a fleet that a builder can serve, the child ends up resumed and with the
\* node files of exactly the members that the status reports, and the cluster's
\* phase, stall and shortage end up those of the child's report and the fleet.
ConvergeSettles ==
  <>[](Live /\ ~Mismatch(Cur(cluster).spec, Wanted))
    => <>[](/\ Exists /\ Cur(cron) # None
            /\ Cur(cron).nodes = Claimed(Cur(cluster).members) /\ Cur(cron).owned
            /\ ~Cur(cron).susp
            /\ Cur(cluster).seen = Cur(cluster).gen
            /\ Cur(cluster).under = Underprovisioned(Cur(cluster).spec.groups, Wanted)
            /\ Cur(cluster).phase = ClusterPhase(Cur(cron), Cardinality(Cur(cron).nodes))
            /\ (Cur(cluster).stalled # "") <=> Cur(cron).rep.stalled)

\* A child whose builder provably cannot build a member is suspended for good, and
\* the cluster says so.
MismatchSuspends ==
  <>[](Live /\ Mismatch(Cur(cluster).spec, Wanted))
    => <>[](/\ Exists /\ Cur(cluster).stalled = "BuilderSystemMismatch"
            /\ Cur(cron) = None \/ Cur(cron).susp \/ Cur(cron).del)

\* A deleted cluster goes away, and no child survives it: not one that a pass with
\* an old copy of the cluster created afterwards, either.
RemovalCompletes ==
  /\ (Exists /\ Cur(cluster).del) ~> ~Exists
  /\ (created /\ ~Exists) ~> (Cur(cron) = None)
=============================================================================
