---------------------------- MODULE NixJob_proofs ----------------------------
(***************************************************************************)
(* Theorems about the NixJob controller: its types, that a revision is     *)
(* reported as rolled out only after a run of it completed, that a         *)
(* suspended NixJob starts no run, and that a NixJob is the child that the *)
(* orchestrator takes it for; for any number of revisions, NixJobs, pushes *)
(* and faults, and every lag of the informers.                             *)
(***************************************************************************)
EXTENDS NixJob, Informer_proofs

NixJobVersion == NixJobObject \cup {None}
JobVersion == JobObject \cup {None}

Advanced == {"ensure", "observe", "gc", "prune"}

\* A pass that got past resolveRevision has a revision.
Resolved == ctl.pc \in Advanced => ctl.rev \in Revs

TypeInv == TypeOK /\ Resolved

-----------------------------------------------------------------------------
(* Types of what a step reads and writes. *)

\* The bounds of the setting are numbers.
LEMMA SettingTyped ==
  ASSUME TypeOK
  PROVE  /\ set.nixjob \in Nat /\ set.job \in Nat /\ set.uids \in Nat /\ set.upsets \in Nat
         /\ set.onces \subseteq BOOLEAN
BY SettingsAreSettings DEF TypeOK

\* The stored and the cached objects have their types.
LEMMA VersionsTyped ==
  ASSUME TypeOK
  PROVE  /\ Cur(nj) \in NixJobVersion /\ Seen(nj) \in NixJobVersion
         /\ InSync(nj) => Seen(nj) = Cur(nj)
         /\ \A r \in Revs : Cur(jobs[r]) \in JobVersion /\ Seen(jobs[r]) \in JobVersion
<1>1. nj \in Logs(NixJobVersion) /\ \A r \in Revs : jobs[r] \in Logs(JobVersion)
  BY DEF TypeOK, NixJobVersion, JobVersion
<1> QED BY <1>1, LogVersions

\* A pass that is not idle has a NixJob in hand.
LEMMA BusyHere ==
  ASSUME TypeOK, ctl.pc # "idle"
  PROVE  /\ ctl \in Busy /\ ctl.obj \in NixJobObject /\ ctl.fresh \in BOOLEAN
         /\ ctl.rev \in Revs \cup {None} /\ ctl.doomed \subseteq Entries
BY DEF TypeOK, Idle, Busy

\* The Jobs that a pass lists have a creation time each.
LEMMA DoomedTyped ==
  ASSUME TypeOK
  PROVE  Doomed \subseteq Entries
<1> SUFFICES ASSUME NEW r \in Outdated PROVE r \in Revs /\ Seen(jobs[r]).made \in Nat
  BY DEF Doomed, Entries
<1>1. r \in Revs /\ Seen(jobs[r]) # None
  BY DEF Outdated, Completed
<1> QED BY <1>1, VersionsTyped DEF JobVersion, JobObject

\* Writes keep the log of the NixJob and are what the server holds then.
LEMMA NixJobWritten ==
  ASSUME TypeOK, NEW v \in NixJobVersion, Write(v)
  PROVE  nj' \in Logs(NixJobVersion) /\ Cur(nj') = v
<1>1. nj \in Logs(NixJobVersion) /\ set.nixjob \in Nat
  BY SettingTyped DEF TypeOK, NixJobVersion
<1> HIDE DEF NixJobVersion
<1> QED BY <1>1, LogPut DEF Write

\* The same of a run-Job.
LEMMA JobWritten ==
  ASSUME TypeOK, NEW r \in Revs, NEW v \in JobVersion,
         jobs' = [jobs EXCEPT ![r] = Put(set.job, @, v)]
  PROVE  /\ jobs' \in [Revs -> Logs(JobVersion)] /\ Cur(jobs'[r]) = v
         /\ \A s \in Revs \ {r} : jobs'[s] = jobs[s]
<1>1. jobs \in [Revs -> Logs(JobVersion)] /\ set.job \in Nat
  BY SettingTyped DEF TypeOK, JobVersion
<1> HIDE DEF JobVersion
<1>2. Put(set.job, jobs[r], v) \in Logs(JobVersion) /\ Cur(Put(set.job, jobs[r], v)) = v
  BY <1>1, LogPut
<1> QED BY <1>1, <1>2

\* A version of a run-Job whose state is replaced is a version of a run-Job.
LEMMA JobTyped ==
  /\ \A o \in Nat, m \in Nat : [owner |-> o, made |-> m, st |-> "running"] \in JobObject
  /\ \A j \in JobObject, s \in {"retrying", "complete", "failed"} :
       [j EXCEPT !.st = s] \in JobObject
BY DEF JobObject

\* A NixJob as its user creates it is one.
LEMMA NewNixJobTyped ==
  ASSUME NEW u \in Nat, NEW o \in BOOLEAN
  PROVE  [uid |-> u, del |-> FALSE, fin |-> FALSE, susp |-> FALSE, once |-> o, phase |-> "",
          resolved |-> None, rolled |-> None, activeJob |-> None, run |-> "active"]
           \in NixJobObject
BY DEF NixJobObject, Phases

-----------------------------------------------------------------------------
(* Type correctness. *)

\* Steps that only move the pass along.
LEMMA OnlyPass ==
  ASSUME TypeInv, UNCHANGED <<nj, jobs, head, infra, set, uids, moves, made, completed>>,
         upsets' \in Nat,
         ctl' = Idle \/ (ctl' \in Busy /\ (ctl'.pc \in Advanced => ctl'.rev \in Revs))
  PROVE  TypeInv'
BY DEF TypeInv, TypeOK, Resolved, Idle, Advanced

\* A user's write keeps the pass typed, and outdates it.
LEMMA UserWritesTyped ==
  ASSUME TypeInv, NEW v \in NixJobVersion, UserWrites(v)
  PROVE  /\ nj' \in Logs(NixJobVersion) /\ Cur(nj') = v
         /\ ctl' \in Busy \cup {Idle} /\ Resolved'
         /\ ctl'.fresh = FALSE /\ ctl'.pc = ctl.pc /\ ctl'.obj = ctl.obj
         /\ ctl'.rev = ctl.rev /\ ctl'.doomed = ctl.doomed
<1>1. nj' \in Logs(NixJobVersion) /\ Cur(nj') = v
  BY NixJobWritten DEF TypeInv, UserWrites
<1>2. CASE ctl \in Busy
  BY <1>1, <1>2 DEF UserWrites, Busy, TypeInv, Resolved
<1>3. CASE ctl = Idle
  <2>1. ctl' = Idle
    BY <1>3 DEF UserWrites, Idle
  <2> QED BY <1>1, <1>3, <2>1 DEF Idle, Resolved, Advanced
<1> QED BY <1>2, <1>3 DEF TypeInv, TypeOK

\* What an observation writes into the working copy.
Observed(o, r, j) ==
  IF j = None THEN [o EXCEPT !.phase = "Progressing"]
  ELSE [o EXCEPT !.activeJob = r, !.run = Counters(j), !.rolled = RolledOut(@, j, r),
                 !.phase = CASE j.st = "complete" -> "Ready"
                             [] j.st = "failed" -> "Failed"
                             [] OTHER -> "Progressing"]

\* It is a report on the NixJob in hand, with the run and revision of that Job.
LEMMA ObservedTyped ==
  ASSUME NEW o \in NixJobObject, NEW r \in Revs, NEW j \in JobVersion
  PROVE  /\ Observed(o, r, j) \in NixJobObject
         /\ \A x \in {"uid", "del", "fin", "susp", "once"} : Observed(o, r, j)[x] = o[x]
         /\ j = None => Observed(o, r, j).run = o.run /\ Observed(o, r, j).rolled = o.rolled
         /\ j # None => /\ Observed(o, r, j).run = Counters(j)
                        /\ Observed(o, r, j).rolled = RolledOut(o.rolled, j, r)
<1>1. CASE j = None
  BY <1>1 DEF Observed, NixJobObject, Phases
<1>2. CASE j # None
  <2> DEFINE ph == CASE j.st = "complete" -> "Ready"
                     [] j.st = "failed" -> "Failed"
                     [] OTHER -> "Progressing"
             c == Counters(j)
             ro == RolledOut(o.rolled, j, r)
  <2>1. ph \in Phases
    BY DEF Phases
  <2>2. c \in {"active", "failed", "succeeded"}
    BY DEF Counters
  <2>3. ro \in Revs \cup {None}
    BY DEF RolledOut, NixJobObject
  <2>4. Observed(o, r, j) = [o EXCEPT !.activeJob = r, !.run = c, !.rolled = ro, !.phase = ph]
    BY <1>2 DEF Observed, NixJobObject
  <2> HIDE DEF ph, c, ro
  <2>5. /\ Observed(o, r, j) \in NixJobObject
        /\ \A x \in {"uid", "del", "fin", "susp", "once"} : Observed(o, r, j)[x] = o[x]
        /\ Observed(o, r, j).run = c /\ Observed(o, r, j).rolled = ro
    BY <2>1, <2>2, <2>3, <2>4 DEF NixJobObject
  <2> QED BY <1>2, <2>5 DEF c, ro
<1> QED BY <1>1, <1>2

\* Observe as one report.
LEMMA ObserveReports ==
  ASSUME TypeInv, Observe
  PROVE  /\ ctl \in Busy /\ ctl.rev \in Revs
         /\ ctl' = [ctl EXCEPT !.pc = "gc", !.obj = Observed(ctl.obj, ctl.rev, Seen(jobs[ctl.rev]))]
         /\ ctl' \in Busy
<1>1. ctl \in Busy /\ ctl.rev \in Revs /\ ctl.obj \in NixJobObject
  BY BusyHere DEF TypeInv, Observe, At, Resolved, Advanced
<1> DEFINE o == ctl.obj
           j == Seen(jobs[ctl.rev])
<1>2. ctl' = [ctl EXCEPT !.pc = "gc", !.obj = Observed(o, ctl.rev, j)]
  <2>1. CASE j = None
    BY <1>1, <2>1 DEF Observe, Observed, Busy
  <2>2. CASE j # None
    BY <1>1, <2>2 DEF Observe, Observed, Busy, NixJobObject
  <2> QED BY <2>1, <2>2
<1>3. Observed(o, ctl.rev, j) \in NixJobObject
  BY <1>1, ObservedTyped, VersionsTyped DEF TypeInv
<1> HIDE DEF o, j
<1>4. ctl' \in Busy
  BY <1>1, <1>2, <1>3 DEF Busy, PCs
<1> QED BY <1>1, <1>2, <1>4 DEF o, j

\* A reconcile starts with the cached NixJob in hand.
LEMMA ReconcileStarts ==
  ASSUME TypeInv, Reconcile
  PROVE  /\ ctl' \in Busy /\ ctl'.obj = Seen(nj) /\ ctl'.obj # None
         /\ ctl'.fresh = InSync(nj) /\ ctl'.doomed = {}
         /\ ctl'.pc = IF Seen(nj).del THEN "release"
                      ELSE IF Seen(nj).fin THEN "resolve" ELSE "addFinalizer"
<1> DEFINE o == Seen(nj)
           p == IF o.del THEN "release" ELSE IF o.fin THEN "resolve" ELSE "addFinalizer"
           f == InSync(nj)
<1>1. o \in NixJobObject /\ o # None
  BY VersionsTyped DEF TypeInv, Reconcile, NixJobVersion
<1>2. ctl' = [Idle EXCEPT !.pc = p, !.obj = o, !.fresh = f]
  BY DEF Reconcile
<1>3. p \in PCs \ {"idle"} /\ f \in BOOLEAN
  BY DEF PCs, InSync
<1> HIDE DEF o, p, f
<1>4. ctl' \in Busy /\ ctl'.obj = o /\ ctl'.fresh = f /\ ctl'.doomed = {} /\ ctl'.pc = p
  BY <1>1, <1>2, <1>3 DEF Idle, Busy
<1> QED BY <1>1, <1>4 DEF o, p, f

\* Every step of a pass keeps the types.
LEMMA StepTyped ==
  ASSUME TypeInv, Step
  PROVE  TypeInv'
<1>0. TypeOK
  BY DEF TypeInv
<1>1. CASE EnsureFinalizer
  <2>1. ctl \in Busy /\ ctl.obj \in NixJobObject
    BY <1>0, <1>1, BusyHere DEF EnsureFinalizer, At
  <2>2. [ctl.obj EXCEPT !.fin = TRUE] \in NixJobVersion
    BY <2>1 DEF NixJobObject, NixJobVersion
  <2>3. nj' \in Logs(NixJobVersion)
    BY <1>0, <1>1, <2>2, NixJobWritten DEF EnsureFinalizer
  <2>4. ctl' \in Busy /\ ctl'.pc = "resolve"
    BY <1>1, <2>1 DEF EnsureFinalizer, Busy, PCs, NixJobObject
  <2>5. UNCHANGED <<jobs, head, infra, set, uids, moves, upsets, made, completed>>
    BY <1>1 DEF EnsureFinalizer, world, history
  <2> QED BY <1>0, <2>3, <2>4, <2>5 DEF TypeInv, TypeOK, Resolved, NixJobVersion, Advanced
<1>2. CASE RemoveFinalizer
  <2>3. nj' \in Logs(NixJobVersion)
    BY <1>0, <1>2, NixJobWritten DEF RemoveFinalizer, NixJobVersion
  <2>5. UNCHANGED <<jobs, head, infra, set, uids, moves, upsets, made, completed>> /\ ctl' = Idle
    BY <1>2 DEF RemoveFinalizer, world, history
  <2> QED BY <1>0, <2>3, <2>5 DEF TypeInv, TypeOK, Resolved, NixJobVersion, Advanced, Idle
<1>3. CASE DropOnConflict
  BY <1>0, <1>3, OnlyPass DEF DropOnConflict, world, history, TypeOK
<1>4. CASE Suspended
  <2>1. ctl \in Busy /\ ctl.obj \in NixJobObject
    BY <1>0, <1>4, BusyHere DEF Suspended, At
  <2>2. ctl' \in Busy /\ ctl'.pc = "status"
    BY <1>4, <2>1 DEF Suspended, Busy, PCs, NixJobObject, Phases
  <2> QED BY <1>0, <1>4, <2>2, OnlyPass DEF Suspended, world, history, TypeOK, Advanced
<1>5. CASE Resolve
  <2>1. ctl \in Busy /\ ctl.obj \in NixJobObject /\ head \in Revs
    BY <1>0, <1>5, BusyHere DEF Resolve, At, TypeOK
  <2>2. ctl' \in Busy /\ (ctl'.pc \in Advanced => ctl'.rev = head)
    <3>1. CASE infra
      BY <1>5, <2>1, <3>1 DEF Resolve, Busy, PCs, NixJobObject, Phases
    <3>2. CASE ~infra
      BY <1>5, <2>1, <3>2 DEF Resolve, Busy, PCs, NixJobObject, Phases, Advanced
    <3> QED BY <3>1, <3>2
  <2> QED BY <1>0, <1>5, <2>1, <2>2, OnlyPass DEF Resolve, world, history, TypeOK
<1>6. CASE EnsureRunJob
  <2>1. ctl \in Busy /\ ctl.obj \in NixJobObject /\ ctl.rev \in Revs /\ made \in Nat
    BY <1>0, <1>6, BusyHere DEF EnsureRunJob, At, TypeInv, TypeOK, Resolved, Advanced
  <2>2. ctl' \in Busy /\ ctl'.rev = ctl.rev
    BY <1>6, <2>1 DEF EnsureRunJob, Goto, Busy, PCs
  <2>3. jobs' \in [Revs -> Logs(JobVersion)] /\ made' \in Nat
    <3>1. CASE NeedsRun(ctl.rev) /\ Cur(jobs[ctl.rev]) = None
      <4> DEFINE v == [owner |-> ctl.obj.uid, made |-> made + 1, st |-> "running"]
      <4>1. v \in JobVersion
        BY <2>1, JobTyped DEF NixJobObject, JobVersion
      <4>2. jobs' = [jobs EXCEPT ![ctl.rev] = Put(set.job, @, v)] /\ made' = made + 1
        BY <1>6, <3>1 DEF EnsureRunJob
      <4> HIDE DEF v
      <4>3. jobs' \in [Revs -> Logs(JobVersion)]
        BY <1>0, <2>1, <4>1, <4>2, JobWritten
      <4> QED BY <2>1, <4>2, <4>3
    <3>2. CASE ~(NeedsRun(ctl.rev) /\ Cur(jobs[ctl.rev]) = None)
      BY <1>0, <1>6, <3>2 DEF EnsureRunJob, TypeOK, JobVersion
    <3> QED BY <3>1, <3>2
  <2>4. UNCHANGED <<nj, head, infra, set, uids, moves, upsets, completed>>
    BY <1>6 DEF EnsureRunJob, world
  <2> QED BY <1>0, <2>1, <2>2, <2>3, <2>4 DEF TypeInv, TypeOK, Resolved, JobVersion
<1>7. CASE Observe
  <2>1. ctl' \in Busy /\ ctl'.rev \in Revs
    BY <1>7, ObserveReports DEF Busy
  <2> QED BY <1>0, <1>7, <2>1, OnlyPass DEF Observe, world, history, TypeOK
<1>8. CASE ListOldJobs
  <2>1. ctl \in Busy /\ ctl.rev \in Revs /\ Doomed \subseteq Entries
    BY <1>0, <1>8, BusyHere, DoomedTyped DEF ListOldJobs, At, TypeInv, Resolved, Advanced
  <2>2. ctl' \in Busy /\ ctl'.rev \in Revs
    <3> HIDE DEF Outdated, Doomed
    <3> QED BY <1>8, <2>1 DEF ListOldJobs, Busy, PCs
  <2> QED BY <1>0, <1>8, <2>2, OnlyPass DEF ListOldJobs, world, history, TypeOK
<1>9. CASE Prune
  <2>1. ctl \in Busy /\ ctl.rev \in Revs /\ ctl.doomed \subseteq Entries
    BY <1>0, <1>9, BusyHere DEF Prune, At, TypeInv, Resolved, Advanced
  <2>2. PICK d \in ctl.doomed :
          /\ jobs' = [jobs EXCEPT ![d[1]] = Put(set.job, @, None)]
          /\ ctl' = [ctl EXCEPT !.doomed = @ \ {d},
                                !.pc = IF ctl.doomed = {d} THEN "status" ELSE "prune"]
    BY <1>9 DEF Prune
  <2>3. ctl' \in Busy /\ ctl'.rev \in Revs
    BY <2>1, <2>2 DEF Busy, PCs
  <2>4. jobs' \in [Revs -> Logs(JobVersion)]
    BY <1>0, <2>1, <2>2, JobWritten DEF JobVersion, Entries
  <2>5. UNCHANGED <<nj, head, infra, set, uids, moves, upsets, made, completed>>
    BY <1>9 DEF Prune, world, history
  <2> QED BY <1>0, <2>3, <2>4, <2>5 DEF TypeInv, TypeOK, Resolved, JobVersion
<1>10. CASE StatusUpdate
  <2>1. ctl.obj \in NixJobVersion
    BY <1>0, <1>10, BusyHere DEF StatusUpdate, At, NixJobVersion
  <2>3. nj' \in Logs(NixJobVersion)
    BY <1>0, <1>10, <2>1, NixJobWritten DEF StatusUpdate
  <2>5. UNCHANGED <<jobs, head, infra, set, uids, moves, upsets, made, completed>> /\ ctl' = Idle
    BY <1>10 DEF StatusUpdate, world, history
  <2> QED BY <1>0, <2>3, <2>5 DEF TypeInv, TypeOK, Resolved, NixJobVersion, Advanced, Idle
<1> QED BY <1>1, <1>2, <1>3, <1>4, <1>5, <1>6, <1>7, <1>8, <1>9, <1>10 DEF Step

\* What a fault leaves of the pass and of the caches.
LEMMA FaultTyped ==
  ASSUME TypeInv, Reconcile \/ GitError \/ ApiError \/ Crash
  PROVE  TypeInv'
<1>0. TypeOK
  BY DEF TypeInv
<1>1. CASE Reconcile
  <2>1. ctl' \in Busy /\ ctl'.pc \notin Advanced
    BY <1>1, ReconcileStarts DEF Advanced
  <2> QED BY <1>0, <1>1, <2>1, OnlyPass DEF Reconcile, world, history, TypeOK
<1>2. CASE GitError
  <2>1. ctl \in Busy /\ ctl.obj \in NixJobObject
    BY <1>0, <1>2, BusyHere DEF GitError, At
  <2>2. ctl' \in Busy /\ ctl'.pc = "status"
    BY <1>2, <2>1 DEF GitError, Busy, PCs, NixJobObject, Phases
  <2>3. upsets' \in Nat
    BY <1>0, <1>2 DEF GitError, Disturb, TypeOK
  <2> QED BY <1>0, <1>2, <2>2, <2>3, OnlyPass DEF GitError, history, Advanced
<1>3. CASE ApiError
  <2>1. ctl \in Busy
    BY <1>0, <1>3, BusyHere DEF ApiError, At
  <2>2. ctl' = Idle \/ (ctl' \in Busy /\ ctl'.pc = "status")
    BY <1>3, <2>1 DEF ApiError, Busy, PCs
  <2>3. upsets' \in Nat
    BY <1>0, <1>3 DEF ApiError, Disturb, TypeOK
  <2> QED BY <1>0, <1>3, <2>2, <2>3, OnlyPass DEF ApiError, history, Advanced
<1>4. CASE Crash
  <2>1. nj' \in Logs(NixJobVersion) /\ jobs' \in [Revs -> Logs(JobVersion)]
    <3>1. nj \in Logs(NixJobVersion) /\ jobs \in [Revs -> Logs(JobVersion)]
      BY <1>0 DEF TypeOK, NixJobVersion, JobVersion
    <3>2. nj' = Relisted(nj) /\ jobs' = [r \in Revs |-> Relisted(jobs[r])]
      BY <1>4 DEF Crash
    <3> QED BY <3>1, <3>2, LogRelisted
  <2>2. upsets' \in Nat
    BY <1>0, <1>4 DEF Crash, Disturb, TypeOK
  <2>3. UNCHANGED <<head, infra, set, uids, moves, made, completed>> /\ ctl' = Idle
    BY <1>4 DEF Crash, history
  <2> QED BY <1>0, <2>1, <2>2, <2>3 DEF TypeInv, TypeOK, Resolved, NixJobVersion, JobVersion, Advanced, Idle
<1> QED BY <1>1, <1>2, <1>3, <1>4

\* What the users write.
LEMMA UserTyped ==
  ASSUME TypeInv, User
  PROVE  TypeInv'
<1>0. TypeOK /\ Cur(nj) \in NixJobVersion
  BY VersionsTyped DEF TypeInv
<1>1. ASSUME NEW v \in NixJobVersion, UserWrites(v),
             UNCHANGED <<jobs, head, infra, set, completed, moves>>,
             uids' \in Nat, made' \in Nat, upsets' \in Nat
      PROVE  TypeInv'
  <2>1. nj' \in Logs(NixJobVersion) /\ ctl' \in Busy \cup {Idle} /\ Resolved'
    BY <1>1, UserWritesTyped
  <2> QED BY <1>0, <1>1, <2>1 DEF TypeInv, TypeOK, NixJobVersion
<1>2. CASE CreateNixJob
  <2>1. PICK o \in set.onces :
          UserWrites([uid |-> uids + 1, del |-> FALSE, fin |-> FALSE, susp |-> FALSE,
                      once |-> o, phase |-> "", resolved |-> None, rolled |-> None,
                      activeJob |-> None, run |-> "active"])
    BY <1>2 DEF CreateNixJob
  <2> DEFINE v == [uid |-> uids + 1, del |-> FALSE, fin |-> FALSE, susp |-> FALSE,
                   once |-> o, phase |-> "", resolved |-> None, rolled |-> None,
                   activeJob |-> None, run |-> "active"]
  <2>2. v \in NixJobVersion
    <3>1. uids + 1 \in Nat /\ o \in BOOLEAN
      <4>1. uids \in Nat
        BY <1>0 DEF TypeOK
      <4>2. set.onces \subseteq BOOLEAN
        BY <1>0, SettingTyped
      <4>3. o \in BOOLEAN
        BY <4>2, Zenon
      <4> QED BY <4>1, <4>3
    <3> QED BY <3>1, NewNixJobTyped DEF NixJobVersion
  <2> HIDE DEF v
  <2>3. UserWrites(v)
    BY <2>1 DEF v
  <2>4. uids' \in Nat /\ made' \in Nat /\ upsets' \in Nat
    <3>1. uids' = uids + 1 /\ made' = 0 /\ upsets' = upsets
      BY <1>2, Zenon DEF CreateNixJob
    <3> QED BY <1>0, <3>1 DEF TypeOK
  <2>5. UNCHANGED <<jobs, head, infra, set, completed, moves>>
    BY <1>2 DEF CreateNixJob
  <2> QED BY <1>1, <2>2, <2>3, <2>4, <2>5
<1>3. CASE SuspendNixJob
  <2> DEFINE v == [Cur(nj) EXCEPT !.susp = ~@]
  <2>1. v \in NixJobVersion
    BY <1>0, <1>3 DEF SuspendNixJob, NixJobVersion, NixJobObject
  <2>2. UserWrites(v) /\ UNCHANGED <<jobs, head, infra, set, completed, moves, uids, made>>
    BY <1>3 DEF SuspendNixJob, history
  <2>3. uids' \in Nat /\ made' \in Nat /\ upsets' \in Nat
    BY <1>0, <1>3 DEF SuspendNixJob, history, Disturb, TypeOK
  <2> HIDE DEF v
  <2> QED BY <1>1, <2>1, <2>2, <2>3
<1>4. CASE DeleteNixJob
  <2> DEFINE v == IF Cur(nj).fin THEN [Cur(nj) EXCEPT !.del = TRUE] ELSE None
  <2>1. v \in NixJobVersion
    BY <1>0, <1>4 DEF DeleteNixJob, NixJobVersion, NixJobObject
  <2>2. UserWrites(v) /\ UNCHANGED <<jobs, head, infra, set, completed, moves, uids, made>>
    BY <1>4 DEF DeleteNixJob, world, history
  <2>3. uids' \in Nat /\ made' \in Nat /\ upsets' \in Nat
    BY <1>0, <1>4 DEF DeleteNixJob, world, history, TypeOK
  <2> HIDE DEF v
  <2> QED BY <1>1, <2>1, <2>2, <2>3
<1> QED BY <1>2, <1>3, <1>4 DEF User

\* The rest of the cluster.
LEMMA ClusterTyped ==
  ASSUME TypeInv,
         \/ Push \/ InfraChanges \/ DeliverNixJob
         \/ \E r \in Revs : JobRuns(r) \/ JobReaped(r) \/ JobCollected(r) \/ DeliverJob(r)
  PROVE  TypeInv'
<1>0. TypeOK
  BY DEF TypeInv
<1>1. CASE Push
  <2>1. head' \in Revs /\ UNCHANGED <<nj, jobs, infra, set, ctl, uids, made, completed, upsets>>
    BY <1>1, Zenon DEF Push, history
  <2>2. moves' \in Nat
    BY <1>0, <1>1 DEF Push, Move, TypeOK
  <2> QED BY <1>0, <2>1, <2>2 DEF TypeInv, TypeOK, Resolved
<1>2. CASE InfraChanges
  <2>1. infra' = ~infra /\ UNCHANGED <<nj, jobs, head, set, ctl, uids, made, completed, moves>>
    BY <1>2, Zenon DEF InfraChanges, history
  <2>2. upsets' \in Nat
    BY <1>0, <1>2 DEF InfraChanges, Disturb, TypeOK
  <2> QED BY <1>0, <2>1, <2>2 DEF TypeInv, TypeOK, Resolved
<1>3. CASE DeliverNixJob
  <2>1. nj' \in Logs(NixJobVersion)
    <3>1. nj \in Logs(NixJobVersion) /\ ~InSync(nj) /\ nj' = Delivered(nj)
      BY <1>0, <1>3 DEF DeliverNixJob, TypeOK, NixJobVersion
    <3> QED BY <3>1, LogDelivered
  <2>2. UNCHANGED <<jobs, head, infra, set, uids, moves, upsets, ctl, made, completed>>
    BY <1>3 DEF DeliverNixJob, world, history
  <2> QED BY <1>0, <2>1, <2>2 DEF TypeInv, TypeOK, Resolved, NixJobVersion
<1>4. ASSUME NEW r \in Revs, NEW v \in JobVersion,
             jobs' = [jobs EXCEPT ![r] = Put(set.job, @, v)],
             UNCHANGED <<nj, head, infra, set, uids, upsets, ctl, made>>,
             moves' \in Nat, completed' \subseteq Revs
      PROVE  TypeInv'
  <2>1. jobs' \in [Revs -> Logs(JobVersion)]
    BY <1>0, <1>4, JobWritten
  <2> QED BY <1>0, <1>4, <2>1 DEF TypeInv, TypeOK, Resolved, JobVersion
<1>5. ASSUME NEW r \in Revs, JobRuns(r)
      PROVE  TypeInv'
  <2>1. PICK s \in {"retrying", "complete", "failed"} :
          /\ jobs' = [jobs EXCEPT ![r] = Put(set.job, @, [Cur(jobs[r]) EXCEPT !.st = s])]
          /\ completed' = IF s = "complete" THEN completed \cup {r} ELSE completed
    BY <1>5, Zenon DEF JobRuns
  <2>2. Cur(jobs[r]) \in JobObject
    BY <1>0, <1>5, VersionsTyped DEF JobRuns, JobVersion
  <2>3. [Cur(jobs[r]) EXCEPT !.st = s] \in JobVersion
    BY <2>2, JobTyped DEF JobVersion
  <2>4. UNCHANGED <<nj, head, infra, set, uids, moves, upsets, ctl, made>>
    BY <1>5 DEF JobRuns, world
  <2>5. completed' \subseteq Revs /\ moves' \in Nat
    BY <1>0, <2>1, <2>4 DEF TypeOK
  <2> QED BY <1>4, <2>1, <2>3, <2>4, <2>5
<1>6. ASSUME NEW r \in Revs, JobReaped(r)
      PROVE  TypeInv'
  <2>1. /\ jobs' = [jobs EXCEPT ![r] = Put(set.job, @, None)]
        /\ UNCHANGED <<nj, head, infra, set, uids, upsets, ctl, made, completed>>
    BY <1>6 DEF JobReaped, history
  <2>2. moves' \in Nat /\ completed' \subseteq Revs
    BY <1>0, <1>6, <2>1 DEF JobReaped, Move, TypeOK
  <2> QED BY <1>4, <2>1, <2>2 DEF JobVersion
<1>7. ASSUME NEW r \in Revs, JobCollected(r)
      PROVE  TypeInv'
  <2>1. /\ jobs' = [jobs EXCEPT ![r] = Put(set.job, @, None)]
        /\ UNCHANGED <<nj, head, infra, set, uids, moves, upsets, ctl, made, completed>>
    BY <1>7 DEF JobCollected, world, history
  <2>2. moves' \in Nat /\ completed' \subseteq Revs
    BY <1>0, <2>1 DEF TypeOK
  <2> QED BY <1>4, <2>1, <2>2 DEF JobVersion
<1>8. ASSUME NEW r \in Revs, DeliverJob(r)
      PROVE  TypeInv'
  <2>1. jobs' \in [Revs -> Logs(JobVersion)]
    <3>1. jobs \in [Revs -> Logs(JobVersion)] /\ ~InSync(jobs[r])
          /\ jobs' = [jobs EXCEPT ![r] = Delivered(@)]
      BY <1>0, <1>8 DEF DeliverJob, TypeOK, JobVersion
    <3>2. Delivered(jobs[r]) \in Logs(JobVersion)
      BY <3>1, LogDelivered
    <3> QED BY <3>1, <3>2
  <2>2. UNCHANGED <<nj, head, infra, set, uids, moves, upsets, ctl, made, completed>>
    BY <1>8 DEF DeliverJob, world, history
  <2> QED BY <1>0, <2>1, <2>2 DEF TypeInv, TypeOK, Resolved, JobVersion
<1> QED BY <1>1, <1>2, <1>3, <1>5, <1>6, <1>7, <1>8

\* The type invariant with Resolved is inductive.
LEMMA TypeInvariant ==
  Spec => []TypeInv
<1>1. Init => TypeInv
  <2> SUFFICES ASSUME Init PROVE TypeInv
    OBVIOUS
  <2>1. nj \in Logs(NixJobObject \cup {None}) /\ \A r \in Revs : <<None>> \in Logs(JobObject \cup {None})
    BY LogOfOne DEF Init
  <2>2. head \in Revs
    BY NoneIsNoRevision DEF Init
  <2>3. ctl = Idle /\ ctl.pc \notin Advanced
    BY DEF Init, Idle, Advanced
  <2> QED BY <2>1, <2>2, <2>3 DEF Init, TypeInv, TypeOK, Resolved
<1>2. TypeInv /\ [Next]_vars => TypeInv'
  <2> SUFFICES ASSUME TypeInv, [Next]_vars PROVE TypeInv'
    OBVIOUS
  <2>1. CASE UNCHANGED vars
    BY <2>1 DEF vars, TypeInv, TypeOK, Resolved
  <2>2. CASE Next
    BY <2>2, StepTyped, FaultTyped, UserTyped, ClusterTyped DEF Next
  <2> QED BY <2>1, <2>2
<1> QED BY <1>1, <1>2, PTL DEF Spec

\* Every value the controller, its users and the cluster store has its type.
THEOREM NixJobTypeCorrect == Spec => []TypeOK
<1>1. TypeInv => TypeOK
  BY DEF TypeInv
<1> QED BY <1>1, TypeInvariant, PTL

-----------------------------------------------------------------------------
(* What a step does to each part of the state.  The invariants below are    *)
(* proved from these facts instead of from the twenty actions.              *)

\* The reasons for a write v to the run-Job of revision r.
JobRemoved(r) ==
  \/ ctl.pc = "prune" /\ \E d \in ctl.doomed : d[1] = r
  \/ moves' = moves + 1
  \/ Cur(jobs[r]) # None /\ (Cur(nj) # None => Cur(nj).uid # Cur(jobs[r]).owner)

JobStarted(r, v) ==
  /\ ctl.pc = "ensure" /\ r = ctl.rev
  /\ Cur(jobs[r]) = None /\ Seen(jobs[r]) = None
  /\ v \in JobObject /\ v.owner = ctl.obj.uid /\ v.st = "running"

JobWent(r, v) ==
  /\ Cur(jobs[r]) \in JobObject /\ ~Finished(Cur(jobs[r]))
  /\ v \in JobObject /\ v.owner = Cur(jobs[r]).owner
  /\ v.st \in {"retrying", "complete", "failed"}
  /\ v.st = "complete" => r \in completed'

\* What happens to a run-Job, and why.
LEMMA JobMoves ==
  ASSUME TypeInv, [Next]_vars, NEW r \in Revs
  PROVE  \/ jobs'[r] = jobs[r]
         \/ jobs'[r] = Relisted(jobs[r])
         \/ ~InSync(jobs[r]) /\ jobs'[r] = Delivered(jobs[r])
         \/ \E v \in JobVersion :
              /\ jobs'[r] = Put(set.job, jobs[r], v)
              /\ (v = None /\ JobRemoved(r)) \/ JobStarted(r, v) \/ JobWent(r, v)
<1>0. TypeOK /\ jobs \in [Revs -> Logs(JobVersion)]
  BY DEF TypeInv, TypeOK, JobVersion
<1>1. ASSUME NEW q \in Revs, NEW v \in JobVersion,
             jobs' = [jobs EXCEPT ![q] = Put(set.job, @, v)],
             (v = None /\ JobRemoved(q)) \/ JobStarted(q, v) \/ JobWent(q, v)
      PROVE  \/ jobs'[r] = jobs[r]
             \/ \E w \in JobVersion :
                  /\ jobs'[r] = Put(set.job, jobs[r], w)
                  /\ (w = None /\ JobRemoved(r)) \/ JobStarted(r, w) \/ JobWent(r, w)
  <2>1. CASE q = r
    <3>1. jobs'[r] = Put(set.job, jobs[r], v)
      BY <1>0, <1>1, <2>1
    <3> QED BY <1>1, <2>1, <3>1
  <2>2. CASE q # r
    BY <1>0, <1>1, <2>2
  <2> QED BY <2>1, <2>2
<1>2. CASE EnsureRunJob
  <2>1. ctl.obj \in NixJobObject /\ ctl.rev \in Revs /\ made \in Nat
    BY <1>0, <1>2, BusyHere DEF EnsureRunJob, At, TypeInv, TypeOK, Resolved, Advanced
  <2>2. CASE NeedsRun(ctl.rev) /\ Cur(jobs[ctl.rev]) = None
    <3> DEFINE v == [owner |-> ctl.obj.uid, made |-> made + 1, st |-> "running"]
    <3>1. v \in JobObject
      BY <2>1, JobTyped DEF NixJobObject
    <3>2. jobs' = [jobs EXCEPT ![ctl.rev] = Put(set.job, @, v)]
      BY <1>2, <2>2 DEF EnsureRunJob
    <3>3. v.owner = ctl.obj.uid /\ v.st = "running"
      OBVIOUS
    <3> HIDE DEF v
    <3>4. JobStarted(ctl.rev, v)
      BY <1>2, <2>2, <3>1, <3>3 DEF JobStarted, EnsureRunJob, NeedsRun, At
    <3>5. v \in JobVersion
      BY <3>1 DEF JobVersion
    <3> QED BY <1>1, <2>1, <3>2, <3>4, <3>5
  <2>3. CASE ~(NeedsRun(ctl.rev) /\ Cur(jobs[ctl.rev]) = None)
    BY <1>2, <2>3 DEF EnsureRunJob
  <2> QED BY <2>2, <2>3
<1>3. CASE Prune
  <2>1. PICK d \in ctl.doomed : jobs' = [jobs EXCEPT ![d[1]] = Put(set.job, @, None)]
    BY <1>3 DEF Prune
  <2>2. d[1] \in Revs /\ JobRemoved(d[1])
    BY <1>0, <1>3, BusyHere DEF Prune, At, JobRemoved, Entries
  <2> QED BY <1>1, <2>1, <2>2 DEF JobVersion
<1>4. CASE Crash
  BY <1>4 DEF Crash
<1>5. ASSUME NEW q \in Revs, JobRuns(q)
      PROVE  \/ jobs'[r] = jobs[r]
             \/ \E w \in JobVersion :
                  /\ jobs'[r] = Put(set.job, jobs[r], w)
                  /\ (w = None /\ JobRemoved(r)) \/ JobStarted(r, w) \/ JobWent(r, w)
  <2>1. PICK s \in {"retrying", "complete", "failed"} :
          /\ jobs' = [jobs EXCEPT ![q] = Put(set.job, @, [Cur(jobs[q]) EXCEPT !.st = s])]
          /\ completed' = IF s = "complete" THEN completed \cup {q} ELSE completed
    BY <1>5, Zenon DEF JobRuns
  <2>2. Cur(jobs[q]) \in JobObject /\ ~Finished(Cur(jobs[q]))
    BY <1>0, <1>5, VersionsTyped DEF JobRuns, JobVersion
  <2> DEFINE v == [Cur(jobs[q]) EXCEPT !.st = s]
  <2>3. v \in JobObject /\ v.owner = Cur(jobs[q]).owner /\ v.st = s
    BY <2>2, JobTyped DEF JobObject
  <2> HIDE DEF v
  <2>4. JobWent(q, v)
    BY <2>1, <2>2, <2>3 DEF JobWent
  <2>5. jobs' = [jobs EXCEPT ![q] = Put(set.job, @, v)] /\ v \in JobVersion
    BY <2>1, <2>3 DEF v, JobVersion
  <2> QED BY <1>1, <2>4, <2>5
<1>6. ASSUME NEW q \in Revs, JobReaped(q) \/ JobCollected(q)
      PROVE  \/ jobs'[r] = jobs[r]
             \/ \E w \in JobVersion :
                  /\ jobs'[r] = Put(set.job, jobs[r], w)
                  /\ (w = None /\ JobRemoved(r)) \/ JobStarted(r, w) \/ JobWent(r, w)
  <2>1. jobs' = [jobs EXCEPT ![q] = Put(set.job, @, None)] /\ JobRemoved(q)
    BY <1>6 DEF JobReaped, Move, JobCollected, JobRemoved
  <2> QED BY <1>1, <2>1 DEF JobVersion
<1>7. ASSUME NEW q \in Revs, DeliverJob(q)
      PROVE  jobs'[r] = jobs[r] \/ (~InSync(jobs[r]) /\ jobs'[r] = Delivered(jobs[r]))
  BY <1>0, <1>7 DEF DeliverJob
<1>8. CASE jobs' = jobs
  BY <1>8
<1> QED
  BY <1>2, <1>3, <1>4, <1>5, <1>6, <1>7, <1>8, Zenon
  DEF Next, Step, User, vars, Reconcile, EnsureFinalizer, RemoveFinalizer, DropOnConflict,
      Suspended, Resolve, Observe, ListOldJobs, StatusUpdate, GitError, ApiError,
      CreateNixJob, SuspendNixJob, DeleteNixJob, Push, InfraChanges, DeliverNixJob

\* The reasons for a write v to the NixJob: the pass, and its users.
PassWrote(v) ==
  /\ ctl \in Busy /\ ctl.fresh
  /\ \/ /\ ctl.pc = "addFinalizer" /\ v \in NixJobObject
        /\ v = [ctl.obj EXCEPT !.fin = TRUE]
        /\ ctl' = [ctl EXCEPT !.pc = "resolve", !.obj = v]
     \/ ctl.pc = "release" /\ v = None /\ ctl' = Idle
     \/ ctl.pc = "status" /\ v = ctl.obj /\ ctl' = Idle

UserWrote(v) ==
  /\ ctl'.fresh = FALSE /\ ctl'.pc = ctl.pc /\ ctl'.obj = ctl.obj
  /\ ctl'.rev = ctl.rev /\ ctl'.doomed = ctl.doomed
  /\ \/ /\ Cur(nj) = None /\ OldRunsGone
        /\ v \in NixJobObject /\ ~v.del /\ ~v.fin /\ v.rolled = None /\ v.run = "active"
     \/ /\ Cur(nj) \in NixJobObject
        /\ v = [Cur(nj) EXCEPT !.susp = ~@]
     \/ /\ Cur(nj) \in NixJobObject /\ ~Cur(nj).del /\ Cur(nj).fin
        /\ v = [Cur(nj) EXCEPT !.del = TRUE]
     \/ Cur(nj) \in NixJobObject /\ ~Cur(nj).del /\ ~Cur(nj).fin /\ v = None

\* What the pass and the users write to the NixJob.
LEMMA NixJobWrites ==
  ASSUME TypeInv, EnsureFinalizer \/ RemoveFinalizer \/ StatusUpdate \/ User
  PROVE  \E v \in NixJobVersion :
           /\ Write(v) /\ UNCHANGED <<jobs, head, completed, moves>>
           /\ PassWrote(v) \/ UserWrote(v)
<1>0. TypeOK /\ Cur(nj) \in NixJobVersion
  BY VersionsTyped DEF TypeInv
<1>1. CASE EnsureFinalizer
  <2> DEFINE v == [ctl.obj EXCEPT !.fin = TRUE]
  <2>1. ctl \in Busy /\ ctl.obj \in NixJobObject /\ ctl.pc = "addFinalizer" /\ ctl.fresh
    BY <1>0, <1>1, BusyHere DEF EnsureFinalizer, At
  <2>2. v \in NixJobObject
    BY <2>1 DEF NixJobObject
  <2>3. ctl' = [ctl EXCEPT !.pc = "resolve", !.obj = v]
    BY <1>1, <2>1 DEF EnsureFinalizer, Busy, NixJobObject
  <2>4. Write(v) /\ UNCHANGED <<jobs, head, completed, moves>>
    BY <1>1 DEF EnsureFinalizer, world, history
  <2>5. PassWrote(v)
    BY <2>1, <2>2, <2>3 DEF PassWrote
  <2> QED BY <2>2, <2>4, <2>5 DEF NixJobVersion
<1>2. CASE RemoveFinalizer
  <2>1. PassWrote(None)
    BY <1>0, <1>2, BusyHere DEF RemoveFinalizer, PassWrote, At
  <2>2. Write(None) /\ UNCHANGED <<jobs, head, completed, moves>>
    BY <1>2 DEF RemoveFinalizer, world, history
  <2> QED BY <2>1, <2>2 DEF NixJobVersion
<1>3. CASE StatusUpdate
  <2>1. PassWrote(ctl.obj) /\ ctl.obj \in NixJobObject
    BY <1>0, <1>3, BusyHere DEF StatusUpdate, PassWrote, At
  <2>2. Write(ctl.obj) /\ UNCHANGED <<jobs, head, completed, moves>>
    BY <1>3 DEF StatusUpdate, world, history
  <2> QED BY <2>1, <2>2 DEF NixJobVersion
<1>4. CASE CreateNixJob
  <2>1. PICK o \in set.onces :
          UserWrites([uid |-> uids + 1, del |-> FALSE, fin |-> FALSE, susp |-> FALSE,
                      once |-> o, phase |-> "", resolved |-> None, rolled |-> None,
                      activeJob |-> None, run |-> "active"])
    BY <1>4 DEF CreateNixJob
  <2> DEFINE v == [uid |-> uids + 1, del |-> FALSE, fin |-> FALSE, susp |-> FALSE,
                   once |-> o, phase |-> "", resolved |-> None, rolled |-> None,
                   activeJob |-> None, run |-> "active"]
  <2>2. v \in NixJobObject
    <3>1. uids + 1 \in Nat /\ o \in BOOLEAN
      <4>1. uids \in Nat
        BY <1>0 DEF TypeOK
      <4>2. set.onces \subseteq BOOLEAN
        BY <1>0, SettingTyped
      <4>3. o \in BOOLEAN
        BY <4>2, Zenon
      <4> QED BY <4>1, <4>3
    <3> QED BY <3>1, NewNixJobTyped
  <2>3. ~v.del /\ ~v.fin /\ v.rolled = None /\ v.run = "active"
    OBVIOUS
  <2> HIDE DEF v
  <2>4. UserWrites(v) /\ v \in NixJobVersion
    BY <2>1, <2>2 DEF v, NixJobVersion
  <2>5. UserWrote(v)
    BY <1>4, <2>2, <2>3, <2>4, UserWritesTyped DEF UserWrote, CreateNixJob
  <2>6. Write(v) /\ UNCHANGED <<jobs, head, completed, moves>>
    BY <1>4, <2>4 DEF CreateNixJob, UserWrites
  <2> QED BY <2>4, <2>5, <2>6
<1>5. CASE SuspendNixJob
  <2> DEFINE v == [Cur(nj) EXCEPT !.susp = ~@]
  <2>1. v \in NixJobVersion /\ Cur(nj) \in NixJobObject
    BY <1>0, <1>5 DEF SuspendNixJob, NixJobVersion, NixJobObject
  <2>2. UserWrites(v) /\ UNCHANGED <<jobs, head, completed, moves>>
    BY <1>5 DEF SuspendNixJob, history
  <2>3. UserWrote(v)
    BY <2>1, <2>2, UserWritesTyped DEF UserWrote
  <2> QED BY <2>1, <2>2, <2>3 DEF UserWrites
<1>6. CASE DeleteNixJob
  <2> DEFINE v == IF Cur(nj).fin THEN [Cur(nj) EXCEPT !.del = TRUE] ELSE None
  <2>1. v \in NixJobVersion /\ Cur(nj) \in NixJobObject /\ ~Cur(nj).del
    BY <1>0, <1>6 DEF DeleteNixJob, NixJobVersion, NixJobObject
  <2>2. UserWrites(v) /\ UNCHANGED <<jobs, head, completed, moves>>
    BY <1>6 DEF DeleteNixJob, world, history
  <2>3. UserWrote(v)
    <3>1. ctl'.fresh = FALSE /\ ctl'.pc = ctl.pc /\ ctl'.obj = ctl.obj
          /\ ctl'.rev = ctl.rev /\ ctl'.doomed = ctl.doomed
      <4> HIDE DEF v
      <4> QED BY <2>1, <2>2, UserWritesTyped
    <3> QED BY <2>1, <3>1 DEF UserWrote
  <2> QED BY <2>1, <2>2, <2>3 DEF UserWrites
<1> QED BY <1>1, <1>2, <1>3, <1>4, <1>5, <1>6 DEF User

\* The steps of the pass itself.
Working == Advanced \cup {"resolve", "status"}

Begins ==
  /\ ctl.pc = "idle" /\ nj' = nj
  /\ ctl' \in Busy /\ ctl'.obj = Seen(nj) /\ ctl'.obj # None
  /\ ctl'.fresh = InSync(nj) /\ ctl'.doomed = {}
  /\ ctl'.pc = IF Seen(nj).del THEN "release"
               ELSE IF Seen(nj).fin THEN "resolve" ELSE "addFinalizer"

\* A step between the finalizer and the status write: the revision is looked up
\* once, the report comes from the Job of that revision, the old Jobs from a list.
GoesOn ==
  /\ ctl \in Busy /\ ctl' \in Busy /\ nj' = nj
  /\ ctl.pc \in Working /\ ctl'.pc \in Working /\ ctl'.fresh = ctl.fresh
  /\ \A x \in {"uid", "del", "fin", "susp"} : ctl'.obj[x] = ctl.obj[x]
  /\ ctl'.pc \in Advanced =>
       \/ ctl.pc \in Advanced /\ ctl'.rev = ctl.rev
       \/ ctl'.rev = head /\ ~ctl.obj.susp
  /\ \/ ctl'.doomed \subseteq ctl.doomed
     \/ ctl.pc = "gc" /\ ctl'.doomed = Doomed
  /\ \/ ctl'.obj.run = ctl.obj.run /\ ctl'.obj.rolled = ctl.obj.rolled
     \/ LET j == Seen(jobs[ctl.rev]) IN
        /\ ctl.pc = "observe" /\ j \in JobObject /\ jobs' = jobs
        /\ ctl'.obj.run = Counters(j)
        /\ ctl'.obj.rolled = RolledOut(ctl.obj.rolled, j, ctl.rev)

\* What happens to the NixJob and to the pass, and why.
LEMMA StepKinds ==
  ASSUME TypeInv, [Next]_vars
  PROVE  \/ \E v \in NixJobVersion :
              /\ Write(v) /\ UNCHANGED <<jobs, head, completed, moves>>
              /\ PassWrote(v) \/ UserWrote(v)
         \/ nj' = nj /\ (ctl' = ctl \/ ctl' = Idle)
         \/ nj' = Relisted(nj) /\ ctl' = Idle
         \/ ~InSync(nj) /\ nj' = Delivered(nj) /\ ctl' = ctl /\ jobs' = jobs
         \/ Begins /\ UNCHANGED <<jobs, completed, moves, head>>
         \/ GoesOn /\ UNCHANGED <<completed, moves, head>>
<1>0. TypeOK
  BY DEF TypeInv
<1>1. CASE Reconcile
  <2>1. Begins
    BY <1>1, ReconcileStarts DEF Begins, Reconcile, At
  <2> QED BY <1>1, <2>1 DEF Reconcile, world, history
<1>2. CASE Suspended
  <2>1. ctl \in Busy /\ ctl.obj \in NixJobObject
    BY <1>0, <1>2, BusyHere DEF Suspended, At
  <2>2. GoesOn
    BY <1>2, <2>1 DEF Suspended, At, GoesOn, Busy, PCs, NixJobObject, Phases, Working, Advanced
  <2> QED BY <1>2, <2>2 DEF Suspended, world, history
<1>3. CASE Resolve
  <2>1. ctl \in Busy /\ ctl.obj \in NixJobObject /\ head \in Revs
    BY <1>0, <1>3, BusyHere DEF Resolve, At, TypeOK
  <2>2. GoesOn
    <3>1. CASE infra
      BY <1>3, <2>1, <3>1 DEF Resolve, At, GoesOn, Busy, PCs, NixJobObject, Phases, Working, Advanced
    <3>2. CASE ~infra
      BY <1>3, <2>1, <3>2 DEF Resolve, At, GoesOn, Busy, PCs, NixJobObject, Phases, Working, Advanced
    <3> QED BY <3>1, <3>2
  <2> QED BY <1>3, <2>2 DEF Resolve, world, history
<1>4. CASE GitError
  <2>1. ctl \in Busy /\ ctl.obj \in NixJobObject
    BY <1>0, <1>4, BusyHere DEF GitError, At
  <2>2. GoesOn
    BY <1>4, <2>1 DEF GitError, At, GoesOn, Busy, PCs, NixJobObject, Phases, Working, Advanced
  <2> QED BY <1>4, <2>2 DEF GitError, history
<1>5. CASE EnsureRunJob
  <2>1. ctl \in Busy
    BY <1>0, <1>5, BusyHere DEF EnsureRunJob, At
  <2>2. GoesOn
    BY <1>5, <2>1 DEF EnsureRunJob, Goto, At, GoesOn, Busy, PCs, Working, Advanced
  <2> QED BY <1>5, <2>2 DEF EnsureRunJob, world
<1>6. CASE Observe
  <2> DEFINE j == Seen(jobs[ctl.rev])
             w == Observed(ctl.obj, ctl.rev, j)
  <2>1. ctl \in Busy /\ ctl' \in Busy /\ ctl.rev \in Revs /\ ctl.obj \in NixJobObject
        /\ ctl' = [ctl EXCEPT !.pc = "gc", !.obj = w]
    BY <1>6, ObserveReports DEF Busy
  <2>2. /\ \A x \in {"uid", "del", "fin", "susp"} : w[x] = ctl.obj[x]
        /\ \/ w.run = ctl.obj.run /\ w.rolled = ctl.obj.rolled
           \/ /\ j \in JobObject /\ w.run = Counters(j)
              /\ w.rolled = RolledOut(ctl.obj.rolled, j, ctl.rev)
    BY <1>0, <2>1, VersionsTyped, ObservedTyped DEF JobVersion
  <2>3. ctl.pc = "observe" /\ UNCHANGED <<nj, jobs, completed, moves, head>>
    BY <1>6 DEF Observe, At, world, history
  <2>4. ctl'.pc = "gc" /\ ctl'.obj = w /\ ctl'.rev = ctl.rev /\ ctl'.doomed = ctl.doomed
        /\ ctl'.fresh = ctl.fresh
    <3> HIDE DEF w
    <3> QED BY <2>1 DEF Busy
  <2>5. GoesOn
    <3> HIDE DEF w
    <3> QED BY <2>1, <2>2, <2>3, <2>4 DEF GoesOn, Working, Advanced
  <2> QED BY <2>3, <2>5
<1>7. CASE ListOldJobs
  <2>1. ctl \in Busy /\ Doomed \subseteq Entries
    BY <1>0, <1>7, BusyHere, DoomedTyped DEF ListOldJobs, At
  <2>2. GoesOn
    <3> HIDE DEF Outdated, Doomed
    <3> QED BY <1>7, <2>1 DEF ListOldJobs, At, GoesOn, Busy, PCs, Working, Advanced
  <2> QED BY <1>7, <2>2 DEF ListOldJobs, world, history
<1>8. CASE Prune
  <2>1. ctl \in Busy
    BY <1>0, <1>8, BusyHere DEF Prune, At
  <2>2. PICK d \in ctl.doomed :
          ctl' = [ctl EXCEPT !.doomed = @ \ {d},
                             !.pc = IF ctl.doomed = {d} THEN "status" ELSE "prune"]
    BY <1>8 DEF Prune
  <2>3. GoesOn
    BY <1>8, <2>1, <2>2 DEF Prune, At, GoesOn, Busy, PCs, Working, Advanced
  <2> QED BY <1>8, <2>3 DEF Prune, world, history
<1>9. CASE ApiError
  <2>1. ctl \in Busy
    BY <1>0, <1>9, BusyHere DEF ApiError, At
  <2>2. (nj' = nj /\ ctl' = Idle) \/ GoesOn
    BY <1>9, <2>1 DEF ApiError, At, GoesOn, Busy, PCs, Working, Advanced
  <2> QED BY <1>9, <2>2 DEF ApiError, history
<1>10. CASE EnsureFinalizer \/ RemoveFinalizer \/ StatusUpdate \/ User
  BY <1>10, NixJobWrites, Zenon
<1>11. CASE DropOnConflict
  BY <1>11 DEF DropOnConflict
<1>12. CASE Crash \/ DeliverNixJob
  BY <1>12 DEF Crash, DeliverNixJob
<1>13. CASE nj' = nj /\ ctl' = ctl
  BY <1>13
<1> QED
  BY <1>1, <1>2, <1>3, <1>4, <1>5, <1>6, <1>7, <1>8, <1>9, <1>10, <1>11, <1>12, <1>13, Zenon
  DEF Next, Step, vars, Push, Move, InfraChanges, JobRuns, JobReaped, JobCollected, DeliverJob

\* The same, for the NixJob alone.
LEMMA NixJobMoves ==
  ASSUME TypeInv, [Next]_vars
  PROVE  \/ nj' = nj \/ nj' = Relisted(nj) \/ (~InSync(nj) /\ nj' = Delivered(nj))
         \/ \E v \in NixJobVersion :
              /\ Write(v) /\ UNCHANGED <<jobs, head, completed, moves>>
              /\ PassWrote(v) \/ UserWrote(v)
BY StepKinds, Zenon DEF Begins, GoesOn

\* And for the pass alone.
LEMMA PassMoves ==
  ASSUME TypeInv, [Next]_vars
  PROVE  \/ ctl' = ctl
         \/ ctl' = Idle
         \/ Begins /\ UNCHANGED <<jobs, completed, moves, head>>
         \/ \E v \in NixJobVersion :
              /\ Write(v) /\ UNCHANGED <<jobs, head, completed, moves>>
              /\ PassWrote(v) \/ UserWrote(v)
         \/ GoesOn /\ UNCHANGED <<completed, moves, head>>
BY StepKinds, Zenon

\* A write of one field of the metadata or the spec leaves the status alone.
LEMMA Rewritten ==
  ASSUME NEW o \in NixJobObject
  PROVE  LET f == [o EXCEPT !.fin = TRUE]
             s == [o EXCEPT !.susp = ~@]
             d == [o EXCEPT !.del = TRUE] IN
         /\ f \in NixJobObject /\ s \in NixJobObject /\ d \in NixJobObject
         /\ f.rolled = o.rolled /\ s.rolled = o.rolled /\ d.rolled = o.rolled
         /\ f.run = o.run /\ s.run = o.run /\ d.run = o.run
         /\ f.uid = o.uid /\ s.uid = o.uid /\ d.uid = o.uid
         /\ f.del = o.del /\ s.del = o.del /\ d.del
         /\ f.fin /\ s.fin = o.fin /\ d.fin = o.fin
BY DEF NixJobObject

-----------------------------------------------------------------------------
(* RolledOutRan. *)

\* Reports, and run-Jobs of revision r, that the set C of revisions whose run
\* completed accounts for.
Proved(C) == {v \in NixJobVersion : v # None => v.rolled \in C \cup {None}}
RanIn(r, C) == {v \in JobVersion : v # None /\ v.st = "complete" => r \in C}

\* Every version of the NixJob and of its Jobs, in the cache, in the store or
\* on the way, and the working copy, are accounted for.
RanInv ==
  /\ nj \in Logs(Proved(completed))
  /\ ctl.pc # "idle" => ctl.obj \in Proved(completed)
  /\ \A r \in Revs : jobs[r] \in Logs(RanIn(r, completed))

\* The record of completed runs only grows.
LEMMA CompletedGrows ==
  ASSUME [Next]_vars
  PROVE  completed \subseteq completed'
BY DEF Next, Step, User, vars, history, Reconcile, EnsureFinalizer, RemoveFinalizer,
       DropOnConflict, Suspended, Resolve, EnsureRunJob, Observe, ListOldJobs, Prune,
       StatusUpdate, GitError, ApiError, Crash, CreateNixJob, SuspendNixJob, DeleteNixJob,
       Push, Move, InfraChanges, JobRuns, JobReaped, JobCollected, DeliverNixJob, DeliverJob

\* Steps preserve RanInv.
LEMMA RanInvKept ==
  ASSUME TypeInv, RanInv, [Next]_vars
  PROVE  RanInv'
<1>0. /\ TypeOK /\ completed \subseteq completed' /\ set.job \in Nat /\ set.nixjob \in Nat
      /\ Cur(nj) \in Proved(completed) /\ Seen(nj) \in Proved(completed)
  BY CompletedGrows, SettingTyped, LogVersions DEF TypeInv, RanInv
<1>1. /\ Proved(completed) \subseteq Proved(completed')
      /\ \A r \in Revs : RanIn(r, completed) \subseteq RanIn(r, completed')
  BY <1>0 DEF Proved, RanIn
<1>2. ASSUME NEW r \in Revs PROVE jobs'[r] \in Logs(RanIn(r, completed'))
  <2>1. jobs[r] \in Logs(RanIn(r, completed'))
    BY <1>1, LogWidened DEF RanInv
  <2>2. ASSUME NEW v \in JobVersion, jobs'[r] = Put(set.job, jobs[r], v),
               (v = None /\ JobRemoved(r)) \/ JobStarted(r, v) \/ JobWent(r, v)
        PROVE  jobs'[r] \in Logs(RanIn(r, completed'))
    <3>1. v \in RanIn(r, completed')
      BY <2>2 DEF RanIn, JobStarted, JobWent
    <3> QED BY <1>0, <2>1, <2>2, <3>1, LogPut
  <2> QED BY <2>1, <2>2, JobMoves, LogRelisted, LogDelivered
<1>3. ASSUME NEW v \in NixJobVersion, Write(v), completed' = completed,
             PassWrote(v) \/ UserWrote(v)
      PROVE  /\ v \in Proved(completed')
             /\ ctl'.pc # "idle" => ctl'.obj \in Proved(completed')
  <2>1. CASE PassWrote(v)
    <3>1. ctl.obj \in Proved(completed) /\ ctl.obj \in NixJobObject
      BY <2>1 DEF PassWrote, RanInv, Busy
    <3>2. v = None \/ (v \in NixJobObject /\ v.rolled = ctl.obj.rolled)
      BY <2>1, <3>1, Rewritten DEF PassWrote
    <3>2a. v \in Proved(completed)
      BY <1>3, <3>1, <3>2, NoneIsNoJob DEF Proved
    <3>3. ctl' = Idle \/ ctl'.obj = v
      BY <2>1 DEF PassWrote, Busy
    <3> QED BY <1>3, <3>2a, <3>3 DEF Idle
  <2>2. CASE UserWrote(v)
    <3>0. \/ v = None \/ v.rolled = None
          \/ Cur(nj) \in NixJobObject /\ v.rolled = Cur(nj).rolled
      <4>1. CASE Cur(nj) \in NixJobObject
        <5>1. /\ [Cur(nj) EXCEPT !.susp = ~@].rolled = Cur(nj).rolled
              /\ [Cur(nj) EXCEPT !.del = TRUE].rolled = Cur(nj).rolled
          BY <4>1, Rewritten
        <5> QED BY <2>2, <4>1, <5>1, Zenon DEF UserWrote
      <4>2. CASE Cur(nj) \notin NixJobObject
        BY <2>2, <4>2 DEF UserWrote
      <4> QED BY <4>1, <4>2
    <3>1. v \in Proved(completed)
      BY <1>0, <1>3, <3>0, NoneIsNoJob DEF Proved
    <3> QED BY <1>3, <2>2, <3>1 DEF UserWrote, RanInv
  <2> QED BY <1>3, <2>1, <2>2
<1>4. nj' \in Logs(Proved(completed'))
  <2>1. nj \in Logs(Proved(completed'))
    BY <1>1, LogWidened DEF RanInv
  <2>2. ASSUME NEW v \in NixJobVersion, Write(v), completed' = completed,
               PassWrote(v) \/ UserWrote(v)
        PROVE  nj' \in Logs(Proved(completed'))
    BY <1>0, <1>3, <2>1, <2>2, LogPut DEF Write
  <2> QED BY <2>1, <2>2, NixJobMoves, LogRelisted, LogDelivered
<1>5. ctl'.pc # "idle" => ctl'.obj \in Proved(completed')
  <2>1. CASE ctl' = ctl
    BY <1>1, <2>1 DEF RanInv
  <2>2. CASE ctl' = Idle
    BY <2>2 DEF Idle
  <2>3. CASE Begins
    BY <1>0, <1>1, <2>3 DEF Begins
  <2>4. CASE \E v \in NixJobVersion : Write(v) /\ completed' = completed /\ (PassWrote(v) \/ UserWrote(v))
    BY <1>3, <2>4
  <2>5. CASE GoesOn /\ UNCHANGED <<completed, moves, head>>
    <3>1. ctl.obj \in Proved(completed) /\ ctl'.obj \in NixJobObject
      BY <2>5 DEF GoesOn, Busy, PCs, RanInv
    <3>2. ctl'.obj.rolled = ctl.obj.rolled \/
            LET j == Seen(jobs[ctl.rev]) IN
            ctl.rev \in Revs /\ j # None /\ ctl'.obj.rolled = RolledOut(ctl.obj.rolled, j, ctl.rev)
      BY <2>5, NoneIsNoJob DEF GoesOn, TypeInv, Resolved, Advanced
    <3>3. \A r \in Revs : Seen(jobs[r]) \in RanIn(r, completed)
      BY LogVersions DEF RanInv
    <3>4. ctl'.obj.rolled \in completed \cup {None}
      BY <2>5, <3>1, <3>2, <3>3, NoneIsNoJob DEF Proved, RanIn, RolledOut, GoesOn, Busy
    <3> QED BY <1>0, <3>1, <3>4 DEF Proved, NixJobVersion
  <2> QED BY <2>1, <2>2, <2>3, <2>4, <2>5, PassMoves
<1> QED BY <1>2, <1>4, <1>5 DEF RanInv

\* A revision is reported as rolled out only if a run of it completed: through
\* stale reads, pruned and re-created Jobs, crashes and Jobs of an earlier push.
THEOREM NixJobRolledOutRan == Spec => []RolledOutRan
<1>1. Init => RanInv
  <2> SUFFICES ASSUME Init PROVE RanInv
    OBVIOUS
  <2>1. nj \in Logs(Proved(completed))
    BY LogOfOne DEF Init, Proved, NixJobVersion
  <2>2. \A r \in Revs : jobs[r] \in Logs(RanIn(r, completed))
    BY LogOfOne DEF Init, RanIn, JobVersion
  <2>3. ctl.pc = "idle"
    BY DEF Init, Idle
  <2> QED BY <2>1, <2>2, <2>3 DEF RanInv
<1>2. TypeInv /\ RanInv /\ [Next]_vars => RanInv'
  BY RanInvKept
<1>3. RanInv => RolledOutRan
  BY LogVersions DEF RanInv, RolledOutRan, Exists, Proved
<1>4. Spec => []RanInv
  BY <1>1, <1>2, TypeInvariant, PTL DEF Spec
<1> QED BY <1>3, <1>4, PTL

-----------------------------------------------------------------------------
(* SuspensionHolds. *)

\* A pass whose copy is fresh knows the stored NixJob, up to its status; and
\* where the pass is says what it read.
CopyIsCurrent ==
  ctl.pc # "idle" /\ ctl.fresh =>
    Cur(nj) # None /\ \A x \in {"uid", "del", "fin", "susp"} : Cur(nj)[x] = ctl.obj[x]

PassKnows ==
  /\ ctl.pc = "release" => ctl.obj.del
  /\ ctl.pc = "addFinalizer" => ~ctl.obj.del /\ ~ctl.obj.fin
  /\ ctl.pc \in Working => ~ctl.obj.del /\ ctl.obj.fin
  /\ ctl.pc \in Advanced => ~ctl.obj.susp

CopyInv == CopyIsCurrent /\ PassKnows

\* Steps preserve CopyInv.
LEMMA CopyInvKept ==
  ASSUME TypeInv, CopyInv, [Next]_vars
  PROVE  CopyInv'
<1>0. TypeOK /\ Cur(nj) \in NixJobVersion /\ Seen(nj) \in NixJobVersion
      /\ (InSync(nj) => Seen(nj) = Cur(nj))
  BY VersionsTyped DEF TypeInv
<1>1. CASE ctl' = Idle
  BY <1>1 DEF CopyInv, CopyIsCurrent, PassKnows, Idle, Working, Advanced
<1>2. CASE ctl' = ctl
  <2>1. ctl.pc = "idle" \/ ~ctl.fresh \/ Cur(nj') = Cur(nj)
    <3>1. nj \in Logs(NixJobVersion)
      BY <1>0 DEF TypeOK, NixJobVersion
    <3>2. CASE nj' = nj \/ nj' = Relisted(nj) \/ (~InSync(nj) /\ nj' = Delivered(nj))
      BY <3>1, <3>2, LogRelisted, LogDelivered
    <3>3. CASE \E v \in NixJobVersion : PassWrote(v) \/ UserWrote(v)
      <4>1. ctl.fresh => ctl.fresh # FALSE
        OBVIOUS
      <4>2. ASSUME NEW v \in NixJobVersion, PassWrote(v)
            PROVE  ctl'.pc # ctl.pc
        <5>1. CASE ctl' = Idle
          BY <4>2, <5>1 DEF PassWrote, Idle
        <5>2. CASE ctl' # Idle
          <6>1. ctl \in Busy /\ ctl.pc = "addFinalizer" /\ ctl' = [ctl EXCEPT !.pc = "resolve", !.obj = v]
            BY <4>2, <5>2, Zenon DEF PassWrote
          <6> QED BY <6>1 DEF Busy
        <5> QED BY <5>1, <5>2
      <4>3. ASSUME NEW v \in NixJobVersion, UserWrote(v)
            PROVE  ctl'.fresh = FALSE
        BY <4>3 DEF UserWrote
      <4> QED BY <1>2, <3>3, <4>1, <4>2, <4>3
    <3> QED BY <3>2, <3>3, NixJobMoves
  <2> QED BY <1>2, <2>1 DEF CopyInv, CopyIsCurrent, PassKnows
<1>3. CASE Begins
  <2>1. ctl'.obj = Seen(nj) /\ ctl'.fresh = InSync(nj) /\ ctl'.obj \in NixJobObject /\ nj' = nj
    BY <1>3 DEF Begins, Busy
  <2>2. CopyIsCurrent'
    BY <1>0, <2>1, NoneIsNoJob DEF CopyIsCurrent
  <2>3. PassKnows'
    BY <1>3, <2>1 DEF PassKnows, Begins, Working, Advanced, NixJobObject
  <2> QED BY <2>2, <2>3 DEF CopyInv
<1>4. ASSUME NEW v \in NixJobVersion, Write(v), PassWrote(v)
      PROVE  CopyInv'
  <2>1. CASE ctl' = Idle
    BY <1>1, <2>1
  <2>2. CASE ctl' # Idle
    <3>1. /\ ctl.pc = "addFinalizer" /\ v = [ctl.obj EXCEPT !.fin = TRUE] /\ v \in NixJobObject
          /\ ctl'.obj = v /\ ctl'.pc = "resolve" /\ ctl.obj \in NixJobObject
      BY <1>4, <2>2 DEF PassWrote, Busy
    <3>2. Cur(nj') = v
      BY <1>0, <1>4, NixJobWritten
    <3>3. v.del = ctl.obj.del /\ v.fin
      BY <3>1 DEF NixJobObject
    <3> QED BY <3>1, <3>2, <3>3, NoneIsNoJob
            DEF CopyInv, CopyIsCurrent, PassKnows, Working, Advanced
  <2> QED BY <2>1, <2>2
<1>5. ASSUME NEW v \in NixJobVersion, UserWrote(v)
      PROVE  CopyInv'
  BY <1>5 DEF UserWrote, CopyInv, CopyIsCurrent, PassKnows
<1>6. CASE GoesOn
  BY <1>6 DEF GoesOn, CopyInv, CopyIsCurrent, PassKnows, Working, Advanced
<1> QED BY <1>1, <1>2, <1>3, <1>4, <1>5, <1>6, PassMoves

\* CopyInv holds throughout.
LEMMA CopyInvariant == Spec => []CopyInv
<1>1. Init => CopyInv
  BY DEF Init, CopyInv, CopyIsCurrent, PassKnows, Idle, Working, Advanced
<1>2. TypeInv /\ CopyInv /\ [Next]_vars => CopyInv'
  BY CopyInvKept
<1> QED BY <1>1, <1>2, TypeInvariant, PTL DEF Spec

\* A run that starts while the NixJob is suspended was decided by a reconcile
\* whose copy is outdated: no reconcile that knows of the suspension starts one.
THEOREM NixJobSuspensionHolds == Spec => SuspensionHolds
<1>1. ASSUME TypeInv, CopyInv, [Next]_vars
      PROVE  [made' > made /\ Exists /\ Cur(nj).susp => ~ctl.fresh]_vars
  <2>1. CASE EnsureRunJob
    <3>1. ctl.pc = "ensure"
      BY <2>1 DEF EnsureRunJob, At
    <3> QED BY <1>1, <3>1 DEF CopyInv, CopyIsCurrent, PassKnows, Advanced
  <2>2. CASE made' = made \/ made' = 0
    BY <1>1, <2>2 DEF TypeInv, TypeOK
  <2>3. EnsureRunJob \/ made' = made \/ made' = 0
    BY <1>1, Zenon
    DEF Next, Step, User, vars, history, Reconcile, EnsureFinalizer, RemoveFinalizer,
        DropOnConflict, Suspended, Resolve, Observe, ListOldJobs, Prune,
        StatusUpdate, GitError, ApiError, Crash, CreateNixJob, SuspendNixJob, DeleteNixJob,
        Push, Move, InfraChanges, JobRuns, JobReaped, JobCollected, DeliverNixJob, DeliverJob
  <2> QED BY <2>1, <2>2, <2>3
<1> QED BY <1>1, TypeInvariant, CopyInvariant, PTL DEF Spec, SuspensionHolds

-----------------------------------------------------------------------------
(* IsAChild: the NixJob refines NixJobChild. *)

\* A version that a pass works on, and the versions of which the stored one c is
\* the successor: a NixJob with its finalizer is still there.
Live(v) == v # None /\ ~v.del /\ v.fin

LiveUnder(c) == {v \in NixJobVersion : Live(v) => c # None /\ c.uid = v.uid /\ c.fin}

OwnedBy(u) == {v \in JobVersion : v # None => v.owner = u}

\* The NixJob that a pass works on, and whose Jobs there are, is the stored one.
Owned ==
  /\ nj \in Logs(LiveUnder(Cur(nj)))
  /\ ctl.pc \in Working => Cur(nj) # None /\ Cur(nj).uid = ctl.obj.uid /\ Cur(nj).fin
  /\ ctl.pc = "release" /\ ctl.fresh => InSync(nj)
  /\ Cur(nj) # None => \A r \in Revs : jobs[r] \in Logs(OwnedBy(Cur(nj).uid))

\* What a write makes of the stored NixJob: it is gone for good reason, or it is
\* the same NixJob with its finalizer, or a new one.
Succeeds(v) ==
  \/ v = None /\ ((ctl.pc = "release" /\ ctl.fresh) \/ (Cur(nj) # None /\ ~Cur(nj).fin))
  \/ /\ v \in NixJobObject /\ Cur(nj) \in NixJobObject /\ v.uid = Cur(nj).uid
     /\ Cur(nj).fin => v.fin
  \/ v \in NixJobObject /\ Cur(nj) = None /\ ~v.fin /\ v.run = "active" /\ OldRunsGone

\* Writes by the pass and by users are of these kinds.
LEMMA WritesSucceed ==
  ASSUME TypeInv, CopyInv, NEW v \in NixJobVersion, PassWrote(v) \/ UserWrote(v)
  PROVE  Succeeds(v)
<1>1. CASE PassWrote(v)
  <2>1. ctl \in Busy /\ ctl.fresh /\ ctl.obj \in NixJobObject /\ ctl.pc # "idle"
    BY <1>1 DEF PassWrote, Busy
  <2>2. Cur(nj) # None /\ \A x \in {"uid", "del", "fin", "susp"} : Cur(nj)[x] = ctl.obj[x]
    BY <2>1 DEF CopyInv, CopyIsCurrent
  <2>3. Cur(nj) \in NixJobObject
    BY <2>2, VersionsTyped DEF TypeInv, NixJobVersion
  <2>4. LET f == [ctl.obj EXCEPT !.fin = TRUE] IN
        f \in NixJobObject /\ f.uid = ctl.obj.uid /\ f.fin
    BY <2>1, Rewritten
  <2>5. CASE ctl.pc = "addFinalizer"
    <3>1. v = [ctl.obj EXCEPT !.fin = TRUE]
      BY <1>1, <2>5, Zenon DEF PassWrote
    <3> QED BY <2>2, <2>3, <2>4, <3>1 DEF Succeeds
  <2>6. CASE ctl.pc = "release"
    BY <1>1, <2>1, <2>6 DEF Succeeds, PassWrote
  <2>7. CASE ctl.pc = "status"
    <3>1. v = ctl.obj
      BY <1>1, <2>7 DEF PassWrote
    <3> QED BY <2>1, <2>2, <2>3, <3>1 DEF Succeeds
  <2> QED BY <1>1, <2>5, <2>6, <2>7 DEF PassWrote
<1>2. CASE UserWrote(v)
  <2>1. CASE Cur(nj) \in NixJobObject
    <3> DEFINE s == [Cur(nj) EXCEPT !.susp = ~@]
               d == [Cur(nj) EXCEPT !.del = TRUE]
    <3>1. /\ s \in NixJobObject /\ s.uid = Cur(nj).uid /\ s.fin = Cur(nj).fin
          /\ d \in NixJobObject /\ d.uid = Cur(nj).uid /\ d.fin = Cur(nj).fin
      BY <2>1, Rewritten
    <3>2. v = s \/ v = d \/ (v = None /\ ~Cur(nj).fin)
      BY <1>2, <2>1, NoneIsNoJob, Zenon DEF UserWrote
    <3> HIDE DEF s, d
    <3> QED BY <2>1, <3>1, <3>2, NoneIsNoJob DEF Succeeds
  <2>2. CASE Cur(nj) \notin NixJobObject
    BY <1>2, <2>2 DEF UserWrote, Succeeds
  <2> QED BY <2>1, <2>2
<1> QED BY <1>1, <1>2

\* After a write the NixJob of the log is the one written.
LEMMA OwnedWrite ==
  ASSUME TypeInv, CopyInv, Owned, NEW v \in NixJobVersion, Write(v), jobs' = jobs, Succeeds(v)
  PROVE  /\ nj' \in Logs(LiveUnder(v)) /\ Cur(nj') = v
         /\ v # None => \A r \in Revs : jobs'[r] \in Logs(OwnedBy(v.uid))
<1>0. TypeOK /\ set.nixjob \in Nat /\ nj \in Logs(LiveUnder(Cur(nj))) /\ Cur(nj) \in NixJobVersion
  BY SettingTyped, VersionsTyped DEF TypeInv, Owned
<1>1. Cur(nj') = v
  BY <1>0, NixJobWritten
<1>2. v \in LiveUnder(v)
  BY DEF LiveUnder, Live
<1>3. CASE v = None /\ ctl.pc = "release" /\ ctl.fresh
  <2>1. InSync(nj) /\ Cur(nj) # None /\ Cur(nj).del
    <3>1. Cur(nj).del = ctl.obj.del /\ ctl.obj.del /\ InSync(nj) /\ Cur(nj) # None
      BY <1>3 DEF Owned, CopyInv, CopyIsCurrent, PassKnows
    <3> QED BY <3>1
  <2>2. Cur(nj) \in LiveUnder(v)
    BY <1>0, <2>1 DEF LiveUnder, Live
  <2>3. nj = <<Cur(nj)>>
    BY <1>0, <2>1 DEF InSync, Logs, Cur
  <2>4. nj \in Logs(LiveUnder(v))
    BY <2>2, <2>3, LogOfOne
  <2> QED BY <1>0, <1>1, <1>2, <1>3, <2>4, LogPut DEF Write
<1>4. CASE v = None /\ Cur(nj) # None /\ ~Cur(nj).fin
  <2>1. LiveUnder(Cur(nj)) \subseteq LiveUnder(v)
    BY <1>4 DEF LiveUnder
  <2>2. nj \in Logs(LiveUnder(v))
    BY <1>0, <2>1, LogWidened
  <2> QED BY <1>0, <1>1, <1>2, <1>4, <2>2, LogPut DEF Write
<1>5. CASE v \in NixJobObject /\ Cur(nj) \in NixJobObject /\ v.uid = Cur(nj).uid /\ (Cur(nj).fin => v.fin)
  <2>1. LiveUnder(Cur(nj)) \subseteq LiveUnder(v)
    BY <1>5, NoneIsNoJob DEF LiveUnder
  <2>2. nj \in Logs(LiveUnder(v))
    BY <1>0, <2>1, LogWidened
  <2>3. nj' \in Logs(LiveUnder(v))
    BY <1>0, <1>2, <2>2, LogPut DEF Write
  <2> QED BY <1>1, <1>5, <2>3, NoneIsNoJob DEF Owned
<1>6. CASE v \in NixJobObject /\ Cur(nj) = None /\ OldRunsGone
  <2>1. LiveUnder(Cur(nj)) \subseteq LiveUnder(v)
    BY <1>6 DEF LiveUnder
  <2>2. nj \in Logs(LiveUnder(v))
    BY <1>0, <2>1, LogWidened
  <2>3. nj' \in Logs(LiveUnder(v))
    BY <1>0, <1>2, <2>2, LogPut DEF Write
  <2>4. \A r \in Revs : jobs'[r] \in Logs(OwnedBy(v.uid))
    <3>1. None \in OwnedBy(v.uid)
      BY DEF OwnedBy, JobVersion
    <3>2. <<None>> \in Logs(OwnedBy(v.uid))
      BY <3>1, LogOfOne
    <3> QED BY <1>6, <3>2 DEF OldRunsGone
  <2> QED BY <1>1, <2>3, <2>4
<1> QED BY <1>3, <1>4, <1>5, <1>6 DEF Succeeds

\* Steps preserve Owned.
LEMMA OwnedKept ==
  ASSUME TypeInv, CopyInv, Owned, [Next]_vars
  PROVE  Owned'
<1>0. /\ TypeOK /\ Cur(nj) \in NixJobVersion /\ set.job \in Nat
      /\ Seen(nj) \in LiveUnder(Cur(nj)) /\ nj \in Logs(LiveUnder(Cur(nj)))
  BY VersionsTyped, SettingTyped, LogVersions DEF TypeInv, Owned
<1>1. ASSUME NEW v \in NixJobVersion, Write(v), jobs' = jobs, PassWrote(v) \/ UserWrote(v)
      PROVE  Owned'
  <2>1. Succeeds(v)
    BY <1>1, WritesSucceed
  <2>2. /\ nj' \in Logs(LiveUnder(v)) /\ Cur(nj') = v
        /\ v # None => \A r \in Revs : jobs'[r] \in Logs(OwnedBy(v.uid))
    BY <1>1, <2>1, OwnedWrite
  <2>3. CASE PassWrote(v)
    <3>1. CASE ctl' = Idle
      BY <2>2, <3>1 DEF Owned, Idle, Working, Advanced
    <3>2. CASE ctl' # Idle
      <4>1. /\ ctl.pc = "addFinalizer" /\ v = [ctl.obj EXCEPT !.fin = TRUE] /\ v \in NixJobObject
            /\ ctl'.obj = v /\ ctl'.pc = "resolve" /\ ctl.obj \in NixJobObject
        BY <2>3, <3>2 DEF PassWrote, Busy
      <4>2. [ctl.obj EXCEPT !.fin = TRUE].fin
        BY <4>1, Rewritten
      <4>3. v.fin /\ v # None
        BY <4>1, <4>2, NoneIsNoJob
      <4> QED BY <2>2, <4>1, <4>3 DEF Owned, Working, Advanced
    <3> QED BY <3>1, <3>2
  <2>4. CASE UserWrote(v)
    <3>1. ctl'.fresh = FALSE /\ ctl'.pc = ctl.pc /\ ctl'.obj = ctl.obj
      BY <2>4 DEF UserWrote
    <3>2. ASSUME ctl.pc \in Working
          PROVE  v # None /\ v.uid = ctl.obj.uid /\ v.fin
      <4>1. Cur(nj) # None /\ Cur(nj).uid = ctl.obj.uid /\ Cur(nj).fin /\ ctl.pc # "release"
        BY <3>2 DEF Owned, Working, Advanced
      <4> QED BY <2>1, <4>1, NoneIsNoJob DEF Succeeds
    <3> QED BY <2>2, <3>1, <3>2 DEF Owned
  <2> QED BY <1>1, <2>3, <2>4
<1>2. ASSUME Cur(nj') = Cur(nj)
      PROVE  Cur(nj') # None => \A r \in Revs : jobs'[r] \in Logs(OwnedBy(Cur(nj').uid))
  <2> SUFFICES ASSUME Cur(nj) # None, NEW r \in Revs
               PROVE  jobs'[r] \in Logs(OwnedBy(Cur(nj).uid))
    BY <1>2
  <2>1. jobs[r] \in Logs(OwnedBy(Cur(nj).uid))
    BY DEF Owned
  <2>2. ASSUME NEW v \in JobVersion, jobs'[r] = Put(set.job, jobs[r], v),
               (v = None /\ JobRemoved(r)) \/ JobStarted(r, v) \/ JobWent(r, v)
        PROVE  jobs'[r] \in Logs(OwnedBy(Cur(nj).uid))
    <3>1. CASE v = None
      <4>1. v \in OwnedBy(Cur(nj).uid)
        BY <3>1 DEF OwnedBy, JobVersion
      <4> QED BY <1>0, <2>1, <2>2, <4>1, LogPut
    <3>2. CASE JobStarted(r, v)
      <4>1. v.owner = Cur(nj).uid
        BY <3>2 DEF JobStarted, Owned, Working, Advanced
      <4>2. v \in OwnedBy(Cur(nj).uid)
        BY <2>2, <4>1 DEF OwnedBy
      <4> QED BY <1>0, <2>1, <2>2, <4>2, LogPut
    <3>3. CASE JobWent(r, v)
      <4>1. Cur(jobs[r]) \in OwnedBy(Cur(nj).uid)
        BY <2>1, LogVersions
      <4>2. v \in OwnedBy(Cur(nj).uid)
        BY <2>2, <3>3, <4>1, NoneIsNoJob DEF JobWent, OwnedBy
      <4> QED BY <1>0, <2>1, <2>2, <4>2, LogPut
    <3> QED BY <2>2, <3>1, <3>2, <3>3
  <2> QED BY <2>1, <2>2, JobMoves, LogRelisted, LogDelivered
<1>3. ASSUME nj' = nj \/ nj' = Relisted(nj) \/ (~InSync(nj) /\ nj' = Delivered(nj)),
             ctl'.pc \in Working => Cur(nj) # None /\ Cur(nj).uid = ctl'.obj.uid /\ Cur(nj).fin,
             ctl'.pc = "release" /\ ctl'.fresh => InSync(nj) /\ nj' = nj
      PROVE  Owned'
  <2>1. Cur(nj') = Cur(nj) /\ nj' \in Logs(LiveUnder(Cur(nj)))
    BY <1>0, <1>3, LogRelisted, LogDelivered
  <2>2. Cur(nj') # None => \A r \in Revs : jobs'[r] \in Logs(OwnedBy(Cur(nj').uid))
    BY <1>2, <2>1
  <2> QED BY <1>3, <2>1, <2>2 DEF Owned
<1>4. CASE ctl' = Idle /\ (nj' = nj \/ nj' = Relisted(nj))
  BY <1>3, <1>4 DEF Idle, Working, Advanced
<1>5. CASE ctl' = ctl /\ (nj' = nj \/ (~InSync(nj) /\ nj' = Delivered(nj)))
  BY <1>3, <1>5 DEF Owned
<1>6. CASE Begins
  <2>1. ctl'.pc \in Working => Cur(nj) # None /\ Cur(nj).uid = ctl'.obj.uid /\ Cur(nj).fin
    BY <1>0, <1>6 DEF Begins, Working, Advanced, LiveUnder, Live
  <2> QED BY <1>3, <1>6, <2>1 DEF Begins
<1>7. CASE GoesOn
  <2>1. /\ nj' = nj /\ ctl'.pc # "release"
        /\ Cur(nj) # None /\ Cur(nj).uid = ctl'.obj.uid /\ Cur(nj).fin
    BY <1>7 DEF GoesOn, Owned, Working, Advanced
  <2> QED BY <1>3, <2>1
<1> QED BY <1>1, <1>4, <1>5, <1>6, <1>7, StepKinds

\* A run is reported as active, then perhaps failed, then perhaps succeeded.
Runs == {"active", "failed", "succeeded"}

RunLeq(a, b) == a = b \/ a = "active" \/ (a = "failed" /\ b = "succeeded")

RunOf(v) == IF v = None THEN "active" ELSE Counters(v)

RunOrder == {p \in JobVersion \X JobVersion : RunLeq(RunOf(p[1]), RunOf(p[2]))}

\* As long as nothing justified a new run, there is one run-Job, of the revision
\* the ref points at, its versions are in the order of the report, and the stored
\* report, the one of a fresh pass and the cached Job follow each other.
Reported ==
  moves = 0 =>
    /\ \A r \in Revs \ {head} : jobs[r] = <<None>>
    /\ ctl.pc \in Advanced => ctl.rev = head
    /\ ctl.doomed = {}
    /\ Cur(nj) # None =>
         /\ Ordered(jobs[head], RunOrder)
         /\ RunLeq(Cur(nj).run, RunOf(Seen(jobs[head])))
         /\ ctl.pc # "idle" /\ ctl.fresh =>
              /\ RunLeq(Cur(nj).run, ctl.obj.run)
              /\ RunLeq(ctl.obj.run, RunOf(Seen(jobs[head])))

\* The order of reports is transitive, and Jobs have a place in it.
LEMMA RunOrdered ==
  /\ \A a, b, c \in Runs : RunLeq(a, b) /\ RunLeq(b, c) => RunLeq(a, c)
  /\ \A v \in JobVersion : RunOf(v) \in Runs
  /\ \A o \in NixJobObject : o.run \in Runs
  /\ \A p \in JobVersion, q \in JobVersion :
       <<p, q>> \in RunOrder <=> RunLeq(RunOf(p), RunOf(q))
<1>1. \A a, b, c \in Runs : RunLeq(a, b) /\ RunLeq(b, c) => RunLeq(a, c)
  BY DEF Runs, RunLeq
<1>2. \A v \in JobVersion : RunOf(v) \in Runs
  BY DEF RunOf, Counters, Runs
<1>3. \A o \in NixJobObject : o.run \in Runs
  BY DEF NixJobObject, Runs
<1>4. \A p \in JobVersion, q \in JobVersion :
        <<p, q>> \in RunOrder <=> RunLeq(RunOf(p), RunOf(q))
  BY DEF RunOrder
<1> QED BY <1>1, <1>2, <1>3, <1>4

\* A push or a reaped Job counts as a move; nothing else moves the ref.
LEMMA MovesGrow ==
  ASSUME TypeInv, [Next]_vars
  PROVE  (moves' = moves /\ head' = head) \/ moves' = moves + 1
BY Zenon
DEF Next, Step, User, vars, world, Reconcile, EnsureFinalizer, RemoveFinalizer,
    DropOnConflict, Suspended, Resolve, EnsureRunJob, Observe, ListOldJobs, Prune,
    StatusUpdate, GitError, ApiError, Crash, CreateNixJob, SuspendNixJob, DeleteNixJob,
    Push, Move, InfraChanges, JobRuns, JobReaped, JobCollected, DeliverNixJob, DeliverJob

\* What a write reports.
LEMMA WriteReports ==
  ASSUME TypeInv, CopyInv, NEW v \in NixJobVersion, PassWrote(v) \/ UserWrote(v)
  PROVE  \/ /\ ctl \in Busy /\ ctl.fresh /\ ctl.pc # "idle"
            /\ v \in NixJobObject /\ Cur(nj) \in NixJobObject
            /\ ~v.del /\ ~Cur(nj).del /\ v.run = ctl.obj.run
            /\ ctl' = Idle \/ (ctl'.pc = "resolve" /\ ctl'.obj = v /\ ctl'.doomed = ctl.doomed)
         \/ v = None /\ Cur(nj) \in NixJobObject /\ Cur(nj).del /\ ctl' = Idle
         \/ /\ ctl'.fresh = FALSE /\ ctl'.pc = ctl.pc /\ ctl'.doomed = ctl.doomed /\ ctl'.rev = ctl.rev
            /\ \/ v = None /\ Cur(nj) \in NixJobObject /\ ~Cur(nj).del
               \/ /\ v \in NixJobObject /\ Cur(nj) = None /\ ~v.del /\ v.run = "active"
                  /\ OldRunsGone
               \/ /\ v \in NixJobObject /\ Cur(nj) \in NixJobObject /\ v.run = Cur(nj).run
                  /\ v.del = Cur(nj).del \/ (~Cur(nj).del /\ v.del = TRUE)
<1>1. CASE PassWrote(v)
  <2>1. ctl \in Busy /\ ctl.fresh /\ ctl.obj \in NixJobObject /\ ctl.pc # "idle"
    BY <1>1 DEF PassWrote, Busy
  <2>2. Cur(nj) # None /\ Cur(nj).del = ctl.obj.del
    BY <2>1 DEF CopyInv, CopyIsCurrent
  <2>3. Cur(nj) \in NixJobObject
    BY <2>2, VersionsTyped DEF TypeInv, NixJobVersion
  <2>5. CASE ctl.pc = "addFinalizer"
    <3>1. v = [ctl.obj EXCEPT !.fin = TRUE] /\ v \in NixJobObject
          /\ ctl' = [ctl EXCEPT !.pc = "resolve", !.obj = v]
      BY <1>1, <2>5, Zenon DEF PassWrote
    <3>2. v.run = ctl.obj.run /\ v.del = ctl.obj.del
      <4>1. /\ [ctl.obj EXCEPT !.fin = TRUE].run = ctl.obj.run
            /\ [ctl.obj EXCEPT !.fin = TRUE].del = ctl.obj.del
        BY <2>1, Rewritten
      <4> QED BY <3>1, <4>1
    <3>3. ~ctl.obj.del
      BY <2>5 DEF CopyInv, PassKnows
    <3>4. ctl'.pc = "resolve" /\ ctl'.obj = v /\ ctl'.doomed = ctl.doomed
      <4>1. ctl' = [ctl EXCEPT !.pc = "resolve", !.obj = v]
        BY <3>1
      <4> QED BY <2>1, <4>1 DEF Busy
    <3> QED BY <2>1, <2>2, <2>3, <3>1, <3>2, <3>3, <3>4
  <2>6. CASE ctl.pc = "release"
    BY <1>1, <2>1, <2>2, <2>3, <2>6 DEF PassWrote, CopyInv, PassKnows
  <2>7. CASE ctl.pc = "status"
    BY <1>1, <2>1, <2>2, <2>3, <2>7 DEF PassWrote, CopyInv, PassKnows, Working
  <2> QED BY <1>1, <2>5, <2>6, <2>7 DEF PassWrote
<1>2. CASE UserWrote(v)
  <2>0. ctl'.fresh = FALSE /\ ctl'.pc = ctl.pc /\ ctl'.doomed = ctl.doomed /\ ctl'.rev = ctl.rev
    BY <1>2 DEF UserWrote
  <2>1. CASE Cur(nj) \in NixJobObject
    <3> DEFINE s == [Cur(nj) EXCEPT !.susp = ~@]
               d == [Cur(nj) EXCEPT !.del = TRUE]
    <3>1. /\ s \in NixJobObject /\ s.run = Cur(nj).run /\ s.del = Cur(nj).del
          /\ d \in NixJobObject /\ d.run = Cur(nj).run /\ d.del = TRUE
      <4>1. d.del = TRUE
        BY <2>1 DEF NixJobObject
      <4> QED BY <2>1, <4>1, Rewritten
    <3>2. v = s \/ (v = d /\ ~Cur(nj).del) \/ (v = None /\ ~Cur(nj).del)
      BY <1>2, <2>1, NoneIsNoJob, Zenon DEF UserWrote
    <3> HIDE DEF s, d
    <3> QED BY <2>0, <2>1, <3>1, <3>2
  <2>2. CASE Cur(nj) \notin NixJobObject
    BY <1>2, <2>0, <2>2 DEF UserWrote
  <2> QED BY <2>1, <2>2
<1> QED BY <1>1, <1>2

\* The Job of the current revision keeps its order while its NixJob exists: it
\* is neither pruned, nor collected, nor reaped.
LEMMA HeadJobOrdered ==
  ASSUME TypeInv, Owned, Reported, [Next]_vars, moves = 0, moves' = 0, Cur(nj) # None
  PROVE  /\ Ordered(jobs'[head], RunOrder)
         /\ RunLeq(RunOf(Seen(jobs[head])), RunOf(Seen(jobs'[head])))
         /\ Seen(jobs'[head]) \in JobVersion
<1> DEFINE l == jobs[head]
<1>1. /\ head \in Revs /\ l \in Logs(JobVersion) /\ set.job \in Nat /\ Ordered(l, RunOrder)
      /\ l \in Logs(OwnedBy(Cur(nj).uid))
  BY SettingTyped DEF TypeInv, TypeOK, JobVersion, Owned, Reported
<1>2. /\ Seen(l) \in JobVersion /\ Cur(l) \in JobVersion
      /\ Cur(l) # None => Cur(l).owner = Cur(nj).uid
  BY <1>1, LogVersions DEF OwnedBy
<1>3. \A i \in 1..Len(l) : l[i] \in JobVersion /\ <<l[i], Cur(l)>> \in RunOrder
  BY <1>1, OrderedKept
<1>4. ASSUME Ordered(jobs'[head], RunOrder) /\ <<Seen(l), Seen(jobs'[head])>> \in RunOrder
      PROVE  /\ RunLeq(RunOf(Seen(l)), RunOf(Seen(jobs'[head])))
             /\ Seen(jobs'[head]) \in JobVersion
  BY <1>4 DEF RunOrder
<1>5. CASE jobs'[head] = l \/ jobs'[head] = Relisted(l) \/ (~InSync(l) /\ jobs'[head] = Delivered(l))
  <2>1. Ordered(jobs'[head], RunOrder) /\ <<Seen(l), Seen(jobs'[head])>> \in RunOrder
    BY <1>1, <1>5, OrderedKept
  <2> QED BY <1>4, <2>1
<1>6. ASSUME NEW v \in JobVersion, jobs'[head] = Put(set.job, l, v),
             (v = None /\ JobRemoved(head)) \/ JobStarted(head, v) \/ JobWent(head, v)
      PROVE  Ordered(jobs'[head], RunOrder) /\ <<Seen(l), Seen(jobs'[head])>> \in RunOrder
  <2>1. ~JobRemoved(head)
    <3>1. ctl.doomed = {} /\ moves' # moves + 1
      BY DEF Reported
    <3> QED BY <1>2, <3>1 DEF JobRemoved
  <2>2. RunLeq(RunOf(Cur(l)), RunOf(v))
    <3>1. CASE JobStarted(head, v)
      BY <3>1, NoneIsNoJob DEF JobStarted, RunLeq, RunOf
    <3>2. CASE JobWent(head, v)
      BY <3>2, NoneIsNoJob DEF JobWent, RunLeq, RunOf, Counters, Finished, JobObject
    <3> QED BY <1>6, <2>1, <3>1, <3>2
  <2>3. <<v, v>> \in RunOrder
    BY <1>6, RunOrdered DEF RunLeq
  <2>4. \A i \in 1..Len(l) : <<l[i], v>> \in RunOrder
    BY <1>2, <1>3, <1>6, <2>2, RunOrdered
  <2> HIDE DEF l
  <2> QED BY <1>1, <1>6, <2>3, <2>4, OrderedPut
<1> QED BY <1>1, <1>4, <1>5, <1>6, JobMoves

\* Steps preserve Reported.
LEMMA ReportedKept ==
  ASSUME TypeInv, CopyInv, Owned, Reported, [Next]_vars
  PROVE  Reported'
<1> SUFFICES ASSUME moves' = 0
             PROVE  /\ \A r \in Revs \ {head'} : jobs'[r] = <<None>>
                    /\ ctl'.pc \in Advanced => ctl'.rev = head'
                    /\ ctl'.doomed = {}
                    /\ Cur(nj') # None =>
                         /\ Ordered(jobs'[head'], RunOrder)
                         /\ RunLeq(Cur(nj').run, RunOf(Seen(jobs'[head'])))
                         /\ ctl'.pc # "idle" /\ ctl'.fresh =>
                              /\ RunLeq(Cur(nj').run, ctl'.obj.run)
                              /\ RunLeq(ctl'.obj.run, RunOf(Seen(jobs'[head'])))
  BY DEF Reported
<1>0. /\ TypeOK /\ head \in Revs /\ jobs[head] \in Logs(JobVersion) /\ moves \in Nat
      /\ Seen(jobs[head]) \in JobVersion /\ nj \in Logs(NixJobVersion)
      /\ Cur(nj) \in NixJobVersion
  BY VersionsTyped DEF TypeInv, TypeOK, JobVersion, NixJobVersion
<1>1. moves = 0 /\ head' = head
  BY <1>0, MovesGrow
<1>2. /\ \A r \in Revs \ {head} : jobs[r] = <<None>>
      /\ ctl.pc \in Advanced => ctl.rev = head
      /\ ctl.doomed = {}
  BY <1>1 DEF Reported
<1>3. \A r \in Revs \ {head} : jobs'[r] = <<None>>
  <2> SUFFICES ASSUME NEW r \in Revs \ {head} PROVE jobs'[r] = <<None>>
    OBVIOUS
  <2>1. jobs[r] = <<None>> /\ Cur(jobs[r]) = None /\ InSync(jobs[r]) /\ Relisted(jobs[r]) = <<None>>
    <3>1. jobs[r] = <<None>> /\ Len(<<None>>) = 1 /\ <<None>>[1] = None
      BY <1>2
    <3> QED BY <3>1 DEF Cur, InSync, Relisted
  <2>2. ~JobStarted(r, jobs'[r]) /\ \A v \in JobVersion : ~JobStarted(r, v) /\ ~JobWent(r, v)
    BY <1>2, <2>1, NoneIsNoJob DEF JobStarted, JobWent, Advanced
  <2>3. Put(set.job, jobs[r], None) = jobs[r]
    BY <2>1 DEF Put
  <2> QED BY <2>1, <2>2, <2>3, JobMoves
<1>4. ctl'.doomed = {} /\ (ctl'.pc \in Advanced => ctl'.rev = head)
  <2>1. CASE ctl' = ctl \/ ctl' = Idle \/ Begins
    BY <1>2, <2>1 DEF Idle, Begins, Advanced
  <2>2. ASSUME NEW v \in NixJobVersion, PassWrote(v) \/ UserWrote(v)
        PROVE  ctl'.doomed = {} /\ (ctl'.pc \in Advanced => ctl'.rev = head)
    <3>1. \/ ctl' = Idle
          \/ ctl'.pc = "resolve" /\ ctl'.doomed = ctl.doomed
          \/ ctl'.pc = ctl.pc /\ ctl'.doomed = ctl.doomed /\ ctl'.rev = ctl.rev
      BY <2>2, WriteReports, Zenon
    <3> QED BY <1>2, <3>1 DEF Idle, Advanced
  <2>3. CASE GoesOn
    <3>1. ctl.pc = "gc" => Doomed = {}
      <4> SUFFICES ASSUME ctl.pc = "gc" PROVE Outdated = {}
        BY DEF Doomed
      <4>1. ctl.rev = head
        BY <1>2 DEF Advanced
      <4>2. \A r \in Revs \ {head} : Seen(jobs[r]) = None
        BY <1>2 DEF Seen
      <4> QED BY <4>1, <4>2 DEF Outdated, Completed
    <3> HIDE DEF Outdated, Doomed
    <3> QED BY <1>2, <2>3, <3>1 DEF GoesOn
  <2> QED BY <2>1, <2>2, <2>3, PassMoves
<1>5. ASSUME Cur(nj) # None
      PROVE  /\ Ordered(jobs[head], RunOrder) /\ Cur(nj).run \in Runs /\ Cur(nj) \in NixJobObject
             /\ RunLeq(Cur(nj).run, RunOf(Seen(jobs[head])))
             /\ ctl.pc # "idle" /\ ctl.fresh =>
                  /\ RunLeq(Cur(nj).run, ctl.obj.run)
                  /\ RunLeq(ctl.obj.run, RunOf(Seen(jobs[head])))
             /\ Ordered(jobs'[head], RunOrder)
             /\ RunOf(Seen(jobs[head])) \in Runs /\ RunOf(Seen(jobs'[head])) \in Runs
             /\ RunLeq(RunOf(Seen(jobs[head])), RunOf(Seen(jobs'[head])))
  <2>1. Cur(nj) \in NixJobObject /\ Cur(nj).run \in Runs
    BY <1>0, <1>5, RunOrdered DEF NixJobVersion
  <2>2. /\ Ordered(jobs'[head], RunOrder) /\ Seen(jobs'[head]) \in JobVersion
        /\ RunLeq(RunOf(Seen(jobs[head])), RunOf(Seen(jobs'[head])))
    BY <1>1, <1>5, HeadJobOrdered
  <2>3. RunOf(Seen(jobs[head])) \in Runs /\ RunOf(Seen(jobs'[head])) \in Runs
    BY <1>0, <2>2, RunOrdered
  <2> QED BY <1>1, <1>5, <2>1, <2>2, <2>3 DEF Reported
<1>6. ASSUME NEW v \in NixJobVersion, Write(v), jobs' = jobs, PassWrote(v) \/ UserWrote(v), v # None
      PROVE  /\ Ordered(jobs[head], RunOrder)
             /\ RunLeq(v.run, RunOf(Seen(jobs[head])))
             /\ ctl'.pc # "idle" /\ ctl'.fresh => v.run = ctl'.obj.run
  <2>1. CASE /\ ctl \in Busy /\ ctl.fresh /\ ctl.pc # "idle" /\ Cur(nj) \in NixJobObject
             /\ v.run = ctl.obj.run /\ (ctl' = Idle \/ ctl'.obj = v)
    BY <1>5, <2>1, NoneIsNoJob DEF Idle
  <2>2. CASE ctl'.fresh = FALSE /\ Cur(nj) = None /\ v.run = "active" /\ OldRunsGone
    <3>1. jobs[head] = <<None>>
      BY <1>0, <2>2 DEF OldRunsGone
    <3>2. <<None, None>> \in RunOrder
      BY DEF RunOrder, RunLeq, JobVersion
    <3>3. Ordered(jobs[head], RunOrder)
      BY <3>1, <3>2 DEF Ordered
    <3> QED BY <2>2, <3>3 DEF RunLeq
  <2>3. CASE ctl'.fresh = FALSE /\ Cur(nj) \in NixJobObject /\ v.run = Cur(nj).run
    BY <1>5, <2>3, NoneIsNoJob
  <2> QED BY <1>6, <2>1, <2>2, <2>3, WriteReports
<1>7. ASSUME Cur(nj') # None
      PROVE  /\ Ordered(jobs'[head], RunOrder)
             /\ RunLeq(Cur(nj').run, RunOf(Seen(jobs'[head])))
             /\ ctl'.pc # "idle" /\ ctl'.fresh =>
                  /\ RunLeq(Cur(nj').run, ctl'.obj.run)
                  /\ RunLeq(ctl'.obj.run, RunOf(Seen(jobs'[head])))
  <2>1. ASSUME NEW v \in NixJobVersion, Write(v), jobs' = jobs, PassWrote(v) \/ UserWrote(v)
        PROVE  /\ Ordered(jobs'[head], RunOrder)
               /\ RunLeq(Cur(nj').run, RunOf(Seen(jobs'[head])))
               /\ ctl'.pc # "idle" /\ ctl'.fresh =>
                    /\ RunLeq(Cur(nj').run, ctl'.obj.run)
                    /\ RunLeq(ctl'.obj.run, RunOf(Seen(jobs'[head])))
    <3>1. Cur(nj') = v /\ v # None
      BY <1>0, <1>7, <2>1, NixJobWritten
    <3> QED BY <1>6, <2>1, <3>1 DEF RunLeq
  <2>2. ASSUME Cur(nj') = Cur(nj),
               ctl'.pc # "idle" /\ ctl'.fresh =>
                 /\ ctl'.obj \in NixJobObject
                 /\ RunLeq(Cur(nj).run, ctl'.obj.run)
                 /\ RunLeq(ctl'.obj.run, RunOf(Seen(jobs[head])))
        PROVE  /\ Ordered(jobs'[head], RunOrder)
               /\ RunLeq(Cur(nj').run, RunOf(Seen(jobs'[head])))
               /\ ctl'.pc # "idle" /\ ctl'.fresh =>
                    /\ RunLeq(Cur(nj').run, ctl'.obj.run)
                    /\ RunLeq(ctl'.obj.run, RunOf(Seen(jobs'[head])))
    <3>1. RunLeq(Cur(nj).run, RunOf(Seen(jobs'[head])))
      BY <1>5, <1>7, <2>2, RunOrdered
    <3>2. ctl'.pc # "idle" /\ ctl'.fresh => RunLeq(ctl'.obj.run, RunOf(Seen(jobs'[head])))
      BY <1>5, <1>7, <2>2, RunOrdered
    <3> QED BY <1>5, <1>7, <2>2, <3>1, <3>2
  <2>3. CASE ctl' = Idle /\ (nj' = nj \/ nj' = Relisted(nj))
    <3>1. Cur(nj') = Cur(nj) /\ ctl'.pc = "idle"
      BY <1>0, <2>3, LogRelisted DEF Idle
    <3> QED BY <2>2, <3>1
  <2>4. CASE ctl' = ctl /\ (nj' = nj \/ (~InSync(nj) /\ nj' = Delivered(nj)))
    <3>1. Cur(nj') = Cur(nj)
      BY <1>0, <2>4, LogDelivered
    <3>2. ctl.pc # "idle" => ctl.obj \in NixJobObject
      BY <1>0, BusyHere
    <3> QED BY <1>5, <1>7, <2>2, <2>4, <3>1, <3>2
  <2>5. CASE Begins
    <3>1. nj' = nj /\ ctl'.obj = Seen(nj) /\ ctl'.obj \in NixJobObject /\ ctl'.fresh = InSync(nj)
      BY <2>5 DEF Begins, Busy
    <3>2. ctl'.fresh => ctl'.obj = Cur(nj)
      BY <1>0, <3>1, LogVersions
    <3>3. RunLeq(Cur(nj).run, Cur(nj).run)
      BY DEF RunLeq
    <3> QED BY <1>5, <1>7, <2>2, <3>1, <3>2, <3>3
  <2>6. CASE GoesOn
    <3>1. /\ nj' = nj /\ ctl'.fresh = ctl.fresh /\ ctl.pc # "idle" /\ ctl'.obj \in NixJobObject
          /\ \/ ctl'.obj.run = ctl.obj.run
             \/ /\ ctl.pc = "observe" /\ Seen(jobs[ctl.rev]) \in JobObject
                /\ ctl'.obj.run = Counters(Seen(jobs[ctl.rev]))
      BY <2>6 DEF GoesOn, Busy
    <3>2. CASE ctl'.obj.run = ctl.obj.run
      BY <1>5, <1>7, <2>2, <3>1, <3>2
    <3>3. CASE /\ ctl.pc = "observe" /\ Seen(jobs[ctl.rev]) \in JobObject
               /\ ctl'.obj.run = Counters(Seen(jobs[ctl.rev]))
      <4>1. ctl.rev = head
        BY <1>2, <3>3 DEF Advanced
      <4>2. ctl'.obj.run = RunOf(Seen(jobs[head]))
        BY <3>3, <4>1, NoneIsNoJob DEF RunOf
      <4>3. RunLeq(ctl'.obj.run, RunOf(Seen(jobs[head])))
        BY <4>2 DEF RunLeq
      <4> QED BY <1>5, <1>7, <2>2, <3>1, <4>2, <4>3
    <3> QED BY <3>1, <3>2, <3>3
  <2> QED BY <2>1, <2>3, <2>4, <2>5, <2>6, StepKinds
<1> QED BY <1>1, <1>3, <1>4, <1>7

\* The invariant behind the refinement.
ChildInv == TypeInv /\ CopyInv /\ Owned /\ Reported

\* It holds throughout.
LEMMA ChildInvariant == Spec => []ChildInv
<1>1. Init => Owned /\ Reported
  <2> SUFFICES ASSUME Init PROVE Owned /\ Reported
    OBVIOUS
  <2>1. nj \in Logs(LiveUnder(Cur(nj))) /\ Cur(nj) = None
    <3>1. None \in LiveUnder(None)
      BY DEF LiveUnder, Live, NixJobVersion
    <3> QED BY <3>1, LogOfOne DEF Init
  <2>2. ctl.pc = "idle" /\ ctl.doomed = {}
    BY DEF Init, Idle
  <2> QED BY <2>1, <2>2 DEF Init, Owned, Reported, Working, Advanced
<1>2. Owned /\ Reported /\ TypeInv /\ CopyInv /\ [Next]_vars => Owned' /\ Reported'
  BY OwnedKept, ReportedKept
<1>3. Spec => [](Owned /\ Reported)
  BY <1>1, <1>2, TypeInvariant, CopyInvariant, PTL DEF Spec
<1> QED BY <1>3, TypeInvariant, CopyInvariant, PTL DEF ChildInv

\* What the orchestrator reads of the version c of the NixJob.
ReportOf(c) == IF c # None THEN [st |-> c.run, del |-> c.del] ELSE None

\* A step of the controller is a step of the child, or none.
LEMMA ChildStep ==
  ASSUME ChildInv, [Next]_vars
  PROVE  Child!Next \/ (ReportOf(Cur(nj'))  = ReportOf(Cur(nj)) /\ (moves' > 0) = (moves > 0))
<1> DEFINE c == Cur(nj)
           a == ReportOf(Cur(nj))
           b == ReportOf(Cur(nj'))
<1>0. TypeInv /\ CopyInv /\ Owned /\ Reported /\ TypeOK /\ c \in NixJobVersion /\ moves \in Nat
      /\ nj \in Logs(NixJobVersion)
  BY VersionsTyped DEF ChildInv, TypeInv, TypeOK, NixJobVersion
<1>1. /\ a = IF Exists THEN [st |-> Cur(nj).run, del |-> Cur(nj).del] ELSE None
      /\ b = IF Exists' THEN [st |-> Cur(nj').run, del |-> Cur(nj').del] ELSE None
  BY DEF ReportOf, Exists
<1>2. \A o \in NixJobObject : /\ ReportOf(o) = [st |-> o.run, del |-> o.del]
                              /\ ReportOf(o) # None /\ ReportOf(o).st = o.run /\ ReportOf(o).del = o.del
  BY NoneIsNoJob, NoneIsNoReport DEF ReportOf, NixJobObject
<1>3. CASE Cur(nj') = Cur(nj)
  <2>1. CASE (moves' > 0) = (moves > 0)
    BY <1>3, <2>1
  <2>2. CASE (moves' > 0) # (moves > 0)
    <3>1. moves' = moves + 1
      BY <1>0, <2>2, MovesGrow
    <3>2. (moves' > 0) = TRUE
      BY <1>0, <3>1
    <3>3. a = b
      BY <1>3
    <3>4. Child!Move
      BY <1>1, <3>2, <3>3, Zenon DEF Child!Move
    <3> QED BY <3>4 DEF Child!Next
  <2> QED BY <2>1, <2>2
<1>4. ASSUME NEW v \in NixJobVersion, Write(v), moves' = moves, PassWrote(v) \/ UserWrote(v)
      PROVE  Child!Next \/ (b = a /\ (moves' > 0) = (moves > 0))
  <2>0. Cur(nj') = v /\ b = ReportOf(v) /\ (moves' > 0) = (moves > 0)
    BY <1>0, <1>4, NixJobWritten
  <2> HIDE DEF a, b
  <2>1. CASE /\ ctl.fresh /\ ctl.pc # "idle" /\ v \in NixJobObject /\ c \in NixJobObject
             /\ ~v.del /\ ~c.del /\ v.run = ctl.obj.run
    <3>1. a = [st |-> c.run, del |-> FALSE] /\ b = [st |-> v.run, del |-> FALSE]
      <4>1. c.del = FALSE /\ v.del = FALSE
        BY <2>1 DEF NixJobObject
      <4> QED BY <1>2, <2>0, <2>1, <4>1 DEF a
    <3>2. a # None /\ a.st = c.run /\ a.del = FALSE
      <4>1. a # None
        BY <1>2, <2>1 DEF a
      <4>2. a.st = c.run /\ a.del = FALSE
        BY <3>1
      <4> QED BY <4>1, <4>2
    <3>3. v.run \in Runs
      BY <2>1, RunOrdered
    <3>4. CASE moves > 0
      <4>1. Child!Rerun
        BY <1>1, <2>0, <3>1, <3>2, <3>3, <3>4 DEF Child!Rerun, Child!Report, Runs
      <4> QED BY <4>1 DEF Child!Next
    <3>5. CASE ~(moves > 0)
      <4>1. RunLeq(c.run, v.run)
        BY <1>0, <2>1, <3>5, NoneIsNoJob DEF Reported
      <4>2. CASE c.run = v.run
        BY <2>0, <3>1, <4>2
      <4>3. CASE c.run # v.run
        <5>1. v.run \in {"failed", "succeeded"}
              /\ (c.run = "active" \/ (c.run = "failed" /\ v.run = "succeeded"))
          BY <3>3, <4>1, <4>3 DEF RunLeq, Runs
        <5>2. Child!Outcome
          BY <1>1, <2>0, <3>1, <3>2, <5>1 DEF Child!Outcome
        <5> QED BY <5>2 DEF Child!Next
      <4> QED BY <4>2, <4>3
    <3> QED BY <3>4, <3>5
  <2>2. CASE v = None /\ c \in NixJobObject /\ c.del
    <3>1. a # None /\ a.del /\ b = None
      BY <1>2, <2>0, <2>2 DEF a, ReportOf
    <3>2. Child!Release
      BY <1>1, <2>0, <3>1 DEF Child!Release
    <3> QED BY <3>2 DEF Child!Next
  <2>3. CASE v = None /\ c \in NixJobObject /\ ~c.del
    <3>1. a # None /\ ~a.del /\ b = None
      BY <1>2, <2>0, <2>3 DEF a, ReportOf
    <3>2. Child!Delete
      BY <1>1, <2>0, <3>1 DEF Child!Delete
    <3> QED BY <3>2 DEF Child!Next
  <2>4. CASE v \in NixJobObject /\ c = None /\ ~v.del /\ v.run = "active"
    <3>1. a = None /\ b = [st |-> "active", del |-> FALSE]
      <4>1. v.del = FALSE
        BY <2>4 DEF NixJobObject
      <4> QED BY <1>2, <2>0, <2>4, <4>1 DEF a, ReportOf
    <3>2. Child!Create
      BY <1>1, <2>0, <3>1 DEF Child!Create
    <3> QED BY <3>2 DEF Child!Next
  <2>5. CASE v \in NixJobObject /\ c \in NixJobObject /\ v.run = c.run /\ v.del = c.del
    BY <1>2, <2>0, <2>5 DEF a
  <2>6. CASE v \in NixJobObject /\ c \in NixJobObject /\ v.run = c.run /\ ~c.del /\ v.del = TRUE
    <3>1. a = [st |-> c.run, del |-> c.del] /\ a # None /\ ~a.del /\ b = [st |-> c.run, del |-> TRUE]
      BY <1>2, <2>0, <2>6 DEF a
    <3>2. b = [a EXCEPT !.del = TRUE]
      <4>1. a \in [st : Runs, del : BOOLEAN] /\ b \in [st : Runs, del : BOOLEAN]
        BY <2>6, <3>1, RunOrdered DEF NixJobObject
      <4>2. a.st = b.st /\ b.del = TRUE
        BY <3>1
      <4> QED BY <4>1, <4>2
    <3>3. Child!Delete
      BY <1>1, <2>0, <3>1, <3>2 DEF Child!Delete
    <3> QED BY <3>3 DEF Child!Next
  <2> QED BY <1>0, <1>4, <2>1, <2>2, <2>3, <2>4, <2>5, <2>6, WriteReports
<1>5. CASE nj' = nj \/ nj' = Relisted(nj) \/ (~InSync(nj) /\ nj' = Delivered(nj))
  BY <1>0, <1>3, <1>5, LogRelisted, LogDelivered
<1> QED BY <1>0, <1>4, <1>5, NixJobMoves

\* The NixJob is a child as the orchestrator expects it: it reports an outcome
\* once, takes a success back only after its ref moved or its Job was reaped, and
\* reports nothing new once it is being deleted.
THEOREM NixJobIsAChild == Spec => IsAChild
<1>1. Init => Child!Init
  <2> SUFFICES ASSUME Init PROVE Child!Init
    OBVIOUS
  <2>1. Cur(nj) = None
    BY LogOfOne DEF Init
  <2> QED BY <2>1 DEF Init, Child!Init, Exists
<1>2. ChildInv /\ [Next]_vars =>
        [Child!Next]_<<IF Exists THEN [st |-> Cur(nj).run, del |-> Cur(nj).del] ELSE None, moves > 0>>
  BY ChildStep, Zenon DEF ReportOf, Exists
<1> QED BY <1>1, <1>2, ChildInvariant, PTL DEF Spec, IsAChild, Child!Spec
=============================================================================
