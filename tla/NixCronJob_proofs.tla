-------------------------- MODULE NixCronJob_proofs --------------------------
(***************************************************************************)
(* Theorems about the NixCronJob controller: its types, that the times it  *)
(* records only move forward, and that a revision is recorded as rolled    *)
(* out only after its one-off Job was created; for any number of           *)
(* revisions, scheduled runs and disturbances, and every lag of the        *)
(* informers.                                                              *)
(***************************************************************************)
EXTENDS NixCronJob, Informer_proofs

-----------------------------------------------------------------------------
(* Times.  Max is a CHOOSE: that it is a time at all needs a bound on what *)
(* it is taken of.                                                         *)

\* The greatest of some times that none of is after b.
LEMMA MaxOfTimes ==
  ASSUME NEW S, S \subseteq Nat, S # {}, NEW b \in Nat, \A y \in S : y <= b
  PROVE  /\ Max(S) \in S /\ Max(S) \in Nat /\ Max(S) <= b
         /\ \A y \in S : y <= Max(S)
<1>1. PICK x \in S : \A y \in S : y <= x
  BY GreatestNat
<1>2. x \in S /\ \A y \in S : x >= y
  BY <1>1
<1>3. Max(S) \in S /\ \A y \in S : Max(S) >= y
  BY <1>2, Zenon DEF Max
<1> DEFINE mx == Max(S)
<1> HIDE DEF mx
<1>4. mx \in S /\ \A y \in S : mx >= y
  BY <1>3 DEF mx
<1>5. mx \in S /\ mx \in Nat /\ mx <= b /\ \A y \in S : y <= mx
  BY <1>4
<1> QED BY <1>5 DEF mx

\* Objects with no time after t.
NixCronJobBy(t) == {o \in NixCronJobObject : o.failed <= t /\ o.succeeded <= t}
CronJobBy(t) == {o \in CronJobObject : o.succeeded <= t}
JobBy(t) == {o \in JobObject : o.at <= t}

NixCronJobVersion(t) == NixCronJobBy(t) \cup {None}
CronJobVersion(t) == CronJobBy(t) \cup {None}
JobVersion(t) == JobBy(t) \cup {None}

BusyBy(t) == [pc : PCs \ {"idle"}, obj : NixCronJobBy(t), fresh : BOOLEAN, rev : Revs \cup {None}]

Scalars ==
  /\ head \in Revs /\ infra \in BOOLEAN /\ clock \in Nat /\ set \in Settings
  /\ created \in BOOLEAN /\ used \subseteq Slots /\ fired \subseteq Revs
  /\ lost \in BOOLEAN /\ missed \in BOOLEAN
  /\ lastFailed \in Nat /\ lastSucceeded \in Nat /\ upsets \in Nat

Resolving == {"project", "fire", "observe"}

\* A pass that got past resolveRevision has a revision.
Resolved == ctl.pc \in Resolving => ctl.rev \in Revs

\* TypeOK, with no time anywhere after the clock.
TypeInv ==
  /\ ncj \in Logs(NixCronJobVersion(clock))
  /\ cj \in Logs(CronJobVersion(clock))
  /\ jobs \in [Jobs -> Logs(JobVersion(clock))]
  /\ ctl \in BusyBy(clock) \cup {Idle}
  /\ Scalars
  /\ Resolved

\* Later times are further away.
LEMMA Later ==
  ASSUME NEW t \in Nat, NEW u \in Nat, t <= u
  PROVE  /\ NixCronJobVersion(t) \subseteq NixCronJobVersion(u)
         /\ CronJobVersion(t) \subseteq CronJobVersion(u)
         /\ JobVersion(t) \subseteq JobVersion(u)
         /\ BusyBy(t) \subseteq BusyBy(u)
<1>1. \A x \in Nat : x <= t => x <= u
  OBVIOUS
<1>2. NixCronJobBy(t) \subseteq NixCronJobBy(u)
  <2> SUFFICES ASSUME NEW o \in NixCronJobBy(t) PROVE o \in NixCronJobBy(u)
    OBVIOUS
  <2>1. o \in NixCronJobObject /\ o.failed \in Nat /\ o.succeeded \in Nat
    BY DEF NixCronJobBy, NixCronJobObject
  <2>2. o.failed <= t /\ o.succeeded <= t
    BY DEF NixCronJobBy
  <2> QED BY <1>1, <2>1, <2>2 DEF NixCronJobBy
<1>3. CronJobBy(t) \subseteq CronJobBy(u)
  BY <1>1 DEF CronJobBy, CronJobObject
<1>4. JobBy(t) \subseteq JobBy(u)
  BY <1>1 DEF JobBy, JobObject
<1>5. BusyBy(t) \subseteq BusyBy(u)
  <2> HIDE DEF NixCronJobBy
  <2> QED BY <1>2 DEF BusyBy
<1> QED BY <1>2, <1>3, <1>4, <1>5 DEF NixCronJobVersion, CronJobVersion, JobVersion

\* The invariant gives the types.
LEMMA InvTyped ==
  ASSUME TypeInv
  PROVE  TypeOK
<1>1. /\ NixCronJobVersion(clock) \subseteq NixCronJobObject \cup {None}
      /\ CronJobVersion(clock) \subseteq CronJobObject \cup {None}
      /\ JobVersion(clock) \subseteq JobObject \cup {None}
      /\ BusyBy(clock) \subseteq Busy
  BY DEF NixCronJobVersion, CronJobVersion, JobVersion, NixCronJobBy, CronJobBy, JobBy, BusyBy, Busy
<1>2. /\ ncj \in Logs(NixCronJobVersion(clock)) /\ cj \in Logs(CronJobVersion(clock))
      /\ jobs \in [Jobs -> Logs(JobVersion(clock))]
  BY DEF TypeInv
<1>3. /\ ncj \in Logs(NixCronJobObject \cup {None}) /\ cj \in Logs(CronJobObject \cup {None})
      /\ jobs \in [Jobs -> Logs(JobObject \cup {None})]
  <2> HIDE DEF NixCronJobVersion, CronJobVersion, JobVersion, NixCronJobObject, CronJobObject, JobObject
  <2>1. Logs(JobVersion(clock)) \subseteq Logs(JobObject \cup {None})
    BY <1>1, LogWidened
  <2> QED BY <1>1, <1>2, <2>1, LogWidened
<1> QED BY <1>1, <1>3 DEF TypeInv, TypeOK, Scalars

-----------------------------------------------------------------------------
(* What a step reads and writes. *)

\* The bounds of the setting are numbers.
LEMMA SettingTyped ==
  ASSUME TypeInv
  PROVE  /\ set.ncj \in Nat /\ set.cj \in Nat /\ set.job \in Nat
         /\ set.specs \subseteq [trig : BOOLEAN, forbid : BOOLEAN]
BY SettingsAreSettings DEF TypeInv, Scalars

\* The stored and the cached objects have their types.
LEMMA VersionsTyped ==
  ASSUME TypeInv
  PROVE  /\ Cur(ncj) \in NixCronJobVersion(clock) /\ Seen(ncj) \in NixCronJobVersion(clock)
         /\ Cur(cj) \in CronJobVersion(clock) /\ Seen(cj) \in CronJobVersion(clock)
         /\ \A j \in Jobs : /\ Cur(jobs[j]) \in JobVersion(clock)
                            /\ Seen(jobs[j]) \in JobVersion(clock)
<1>1. /\ ncj \in Logs(NixCronJobVersion(clock)) /\ cj \in Logs(CronJobVersion(clock))
      /\ \A j \in Jobs : jobs[j] \in Logs(JobVersion(clock))
  BY DEF TypeInv
<1> QED BY <1>1, LogVersions

\* A pass that is not idle has a NixCronJob in hand.
LEMMA BusyHere ==
  ASSUME TypeInv, ctl.pc # "idle"
  PROVE  /\ ctl \in BusyBy(clock) /\ ctl.obj \in NixCronJobBy(clock) /\ ctl.fresh \in BOOLEAN
         /\ ctl.rev \in Revs \cup {None}
BY DEF TypeInv, Idle, BusyBy

\* Writes keep the logs, and are what the server holds then.
LEMMA Written ==
  ASSUME TypeInv
  PROVE  /\ \A v \in NixCronJobVersion(clock) :
              Write(v) => ncj' \in Logs(NixCronJobVersion(clock)) /\ Cur(ncj') = v
         /\ \A v \in CronJobVersion(clock) : Put(set.cj, cj, v) \in Logs(CronJobVersion(clock))
<1>1. /\ ncj \in Logs(NixCronJobVersion(clock)) /\ set.ncj \in Nat
      /\ cj \in Logs(CronJobVersion(clock)) /\ set.cj \in Nat
  BY SettingTyped DEF TypeInv
<1> HIDE DEF NixCronJobVersion, CronJobVersion
<1> QED BY <1>1, LogPut DEF Write

\* The same of a run, which may end later than everything before.
LEMMA JobWritten ==
  ASSUME TypeInv, NEW t \in Nat, clock <= t, NEW j \in Jobs, NEW v \in JobVersion(t), PutJob(j, v)
  PROVE  /\ jobs' \in [Jobs -> Logs(JobVersion(t))] /\ Cur(jobs'[j]) = v
         /\ \A i \in Jobs \ {j} : jobs'[i] = jobs[i]
<1>1. jobs \in [Jobs -> Logs(JobVersion(clock))] /\ set.job \in Nat /\ clock \in Nat
  BY SettingTyped DEF TypeInv, Scalars
<1>2. JobVersion(clock) \subseteq JobVersion(t)
  BY <1>1, Later
<1> HIDE DEF JobVersion
<1>3. \A i \in Jobs : jobs[i] \in Logs(JobVersion(t))
  BY <1>1, <1>2, LogWidened
<1>4. Put(set.job, jobs[j], v) \in Logs(JobVersion(t)) /\ Cur(Put(set.job, jobs[j], v)) = v
  BY <1>1, <1>3, LogPut
<1> QED BY <1>1, <1>3, <1>4 DEF PutJob

\* What users, the finalizer, a stall and a suspension write into a NixCronJob.
LEMMA FieldsTyped ==
  ASSUME NEW t \in Nat, NEW o \in NixCronJobBy(t)
  PROVE  /\ [o EXCEPT !.fin = TRUE] \in NixCronJobBy(t)
         /\ [o EXCEPT !.del = TRUE] \in NixCronJobBy(t)
         /\ [o EXCEPT !.susp = ~@] \in NixCronJobBy(t)
         /\ \A p \in Phases : [o EXCEPT !.phase = p] \in NixCronJobBy(t)
         /\ Stall(o) \in NixCronJobBy(t)
         /\ \A r \in Revs : /\ [o EXCEPT !.resolved = r] \in NixCronJobBy(t)
                            /\ Stall([o EXCEPT !.resolved = r]) \in NixCronJobBy(t)
<1>1. /\ [o EXCEPT !.fin = TRUE] \in NixCronJobBy(t)
      /\ [o EXCEPT !.del = TRUE] \in NixCronJobBy(t)
      /\ [o EXCEPT !.susp = ~@] \in NixCronJobBy(t)
  BY DEF NixCronJobBy, NixCronJobObject
<1>2. \A p \in Phases : [o EXCEPT !.phase = p] \in NixCronJobBy(t)
  BY DEF NixCronJobBy, NixCronJobObject
<1>3. \A x \in NixCronJobBy(t) : Stall(x) \in NixCronJobBy(t)
  BY DEF NixCronJobBy, NixCronJobObject, Stall, Phases
<1>4. \A r \in Revs : [o EXCEPT !.resolved = r] \in NixCronJobBy(t)
  BY DEF NixCronJobBy, NixCronJobObject
<1> HIDE DEF NixCronJobBy
<1> QED BY <1>1, <1>2, <1>3, <1>4

\* A new NixCronJob has no status yet.
LEMMA NewTyped ==
  ASSUME NEW t \in Nat, NEW s \in [trig : BOOLEAN, forbid : BOOLEAN]
  PROVE  [del |-> FALSE, fin |-> FALSE, susp |-> FALSE, trig |-> s.trig,
          forbid |-> s.forbid, phase |-> "", stalled |-> FALSE,
          resolved |-> None, rolled |-> None, active |-> FALSE, failed |-> 0,
          succeeded |-> 0] \in NixCronJobBy(t)
<1>1. "" \in Phases /\ 0 <= t
  BY DEF Phases
<1> QED BY <1>1 DEF NixCronJobBy, NixCronJobObject

\* lastFinishedRuns gives a time that is not after now nor before the one recorded.
LEMMA LastFinishedTyped ==
  ASSUME TypeInv, NEW stored \in Nat, stored <= clock, NEW st
  PROVE  /\ LastFinished(stored, st) \in Nat /\ LastFinished(stored, st) <= clock
         /\ stored <= LastFinished(stored, st)
<1> DEFINE ends == {Seen(jobs[j]).at : j \in {i \in Jobs : Seen(jobs[i]) # None /\ Seen(jobs[i]).st = st}}
           S == {stored} \cup ends
<1>1. \A x \in ends : x \in Nat /\ x <= clock
  BY VersionsTyped DEF JobVersion, JobBy, JobObject
<1> HIDE DEF ends
<1>2. S \subseteq Nat /\ S # {} /\ (\A y \in S : y <= clock) /\ clock \in Nat /\ stored \in S
  BY <1>1 DEF TypeInv, Scalars
<1>3. LastFinished(stored, st) = Max(S)
  BY DEF LastFinished, ends
<1> HIDE DEF S
<1> QED BY <1>2, <1>3, MaxOfTimes

\* The greater of two times.
LEMMA MaxOfTwo ==
  ASSUME NEW t \in Nat, NEW a \in Nat, NEW b \in Nat, a <= t, b <= t
  PROVE  Max({a, b}) \in Nat /\ Max({a, b}) <= t /\ a <= Max({a, b}) /\ b <= Max({a, b})
<1> DEFINE S == {a, b}
<1>1. S \subseteq Nat /\ S # {} /\ (\A y \in S : y <= t) /\ a \in S /\ b \in S
  OBVIOUS
<1>2. Max(S) \in Nat /\ Max(S) <= t /\ \A y \in S : y <= Max(S)
  <2> HIDE DEF S
  <2> QED BY <1>1, MaxOfTimes
<1> QED BY <1>2

\* An observation keeps the spec, moves no time back, and records at most the
\* revision in hand as rolled out.
LEMMA ObserveReports ==
  ASSUME TypeInv, Observe
  PROVE  /\ ctl \in BusyBy(clock) /\ ctl' \in BusyBy(clock) /\ ctl'.pc = "status"
         /\ ctl'.fresh = ctl.fresh
         /\ ctl.obj.failed <= ctl'.obj.failed /\ ctl.obj.succeeded <= ctl'.obj.succeeded
         /\ ctl'.obj.trig = ctl.obj.trig /\ ctl'.obj.forbid = ctl.obj.forbid
         /\ ctl'.obj.rolled = ctl.obj.rolled \/ ctl'.obj.rolled = ctl.rev
<1>1. /\ ctl \in BusyBy(clock) /\ ctl.obj \in NixCronJobBy(clock) /\ clock \in Nat
      /\ ctl.rev \in Revs
  BY BusyHere DEF TypeInv, Observe, At, Scalars, Resolved, Resolving
<1>2. /\ ctl.obj.failed \in Nat /\ ctl.obj.failed <= clock
      /\ ctl.obj.succeeded \in Nat /\ ctl.obj.succeeded <= clock
  BY <1>1 DEF NixCronJobBy, NixCronJobObject
<1>3. CASE Seen(cj) = None
  <2> DEFINE v == [ctl.obj EXCEPT !.phase = "Progressing"]
  <2>1. ctl' = [ctl EXCEPT !.pc = "status", !.obj = v]
    BY <1>1, <1>3 DEF Observe, BusyBy, NixCronJobBy, NixCronJobObject
  <2>2. v \in NixCronJobBy(clock)
    BY <1>1, FieldsTyped DEF Phases
  <2>3. /\ v.failed = ctl.obj.failed /\ v.succeeded = ctl.obj.succeeded
        /\ v.trig = ctl.obj.trig /\ v.forbid = ctl.obj.forbid /\ v.rolled = ctl.obj.rolled
    BY <1>1 DEF NixCronJobBy, NixCronJobObject
  <2> HIDE DEF v
  <2>4. ctl' \in BusyBy(clock) /\ ctl'.pc = "status" /\ ctl'.obj = v /\ ctl'.fresh = ctl.fresh
    BY <1>1, <2>1, <2>2 DEF BusyBy, PCs
  <2> QED BY <1>1, <1>2, <2>3, <2>4
<1>4. CASE Seen(cj) # None
  <2> DEFINE c == Seen(cj)
             failed == LastFinished(ctl.obj.failed, "failed")
             complete == LastFinished(ctl.obj.succeeded, "complete")
             succeeded == Max({complete, c.succeeded})
             ph == IF LatestRunFailed(failed, succeeded) THEN "Degraded" ELSE "Ready"
             act == c.active # {}
             v == [ctl.obj EXCEPT !.active = act, !.failed = failed, !.succeeded = succeeded,
                                  !.rolled = ctl.rev, !.stalled = FALSE, !.phase = ph]
  <2>1. c.succeeded \in Nat /\ c.succeeded <= clock
    BY <1>4, VersionsTyped DEF CronJobVersion, CronJobBy, CronJobObject
  <2>2. failed \in Nat /\ failed <= clock /\ ctl.obj.failed <= failed
    BY <1>2, LastFinishedTyped
  <2>3. complete \in Nat /\ complete <= clock /\ ctl.obj.succeeded <= complete
    BY <1>2, LastFinishedTyped
  <2>4. succeeded \in Nat /\ succeeded <= clock /\ complete <= succeeded
    <3> HIDE DEF c, complete
    <3> QED BY <1>1, <2>1, <2>3, MaxOfTwo
  <2>5. ctl.obj.succeeded <= succeeded
    <3> HIDE DEF complete, succeeded
    <3> QED BY <1>2, <2>3, <2>4
  <2>6. ph \in Phases /\ act \in BOOLEAN
    BY DEF Phases
  <2>7. ctl' = [ctl EXCEPT !.pc = "status", !.obj.active = act, !.obj.failed = failed,
                           !.obj.succeeded = succeeded, !.obj.rolled = ctl.rev,
                           !.obj.stalled = FALSE, !.obj.phase = ph]
    BY <1>4 DEF Observe
  <2> HIDE DEF c, failed, complete, succeeded, ph, act
  <2>8. ctl' = [ctl EXCEPT !.pc = "status", !.obj = v]
    BY <1>1, <2>7 DEF BusyBy, NixCronJobBy, NixCronJobObject
  <2>9. /\ v \in NixCronJobBy(clock) /\ v.failed = failed /\ v.succeeded = succeeded
        /\ v.trig = ctl.obj.trig /\ v.forbid = ctl.obj.forbid /\ v.rolled = ctl.rev
    BY <1>1, <2>2, <2>4, <2>6 DEF NixCronJobBy, NixCronJobObject
  <2> HIDE DEF v
  <2>10. ctl' \in BusyBy(clock) /\ ctl'.pc = "status" /\ ctl'.obj = v /\ ctl'.fresh = ctl.fresh
    BY <1>1, <2>8, <2>9 DEF BusyBy, PCs
  <2> QED BY <1>1, <2>2, <2>5, <2>9, <2>10
<1> QED BY <1>3, <1>4

-----------------------------------------------------------------------------
(* Type correctness. *)

\* Steps that write no log.
LEMMA OnlyPass ==
  ASSUME TypeInv, UNCHANGED <<ncj, cj, jobs, clock>>, Scalars',
         ctl' = Idle \/ (ctl' \in BusyBy(clock) /\ (ctl'.pc \in Resolving => ctl'.rev \in Revs))
  PROVE  TypeInv'
BY DEF TypeInv, Resolved, Idle, Resolving

\* Steps that write logs but leave the clock.
LEMMA OnlyLogs ==
  ASSUME TypeInv, clock' = clock, Scalars',
         ncj' \in Logs(NixCronJobVersion(clock)), cj' \in Logs(CronJobVersion(clock)),
         jobs' \in [Jobs -> Logs(JobVersion(clock))],
         ctl' = Idle \/ (ctl' \in BusyBy(clock) /\ (ctl'.pc \in Resolving => ctl'.rev \in Revs))
  PROVE  TypeInv'
BY DEF TypeInv, Resolved, Idle, Resolving

\* A reconcile starts with the cached NixCronJob in hand.
LEMMA ReconcileStarts ==
  ASSUME TypeInv, Reconcile
  PROVE  /\ ctl' \in BusyBy(clock) /\ ctl'.obj = Seen(ncj) /\ Seen(ncj) # None
         /\ ctl'.fresh = InSync(ncj) /\ ctl'.pc \in {"release", "resolve", "addFinalizer"}
<1> DEFINE o == Seen(ncj)
           p == IF o.del THEN "release" ELSE IF o.fin THEN "resolve" ELSE "addFinalizer"
           f == InSync(ncj)
<1>1. o \in NixCronJobBy(clock) /\ o # None
  BY VersionsTyped DEF Reconcile, NixCronJobVersion
<1>2. ctl' = [Idle EXCEPT !.pc = p, !.obj = o, !.fresh = f]
  BY DEF Reconcile
<1>3. p \in {"release", "resolve", "addFinalizer"} /\ f \in BOOLEAN
  BY DEF InSync
<1> HIDE DEF o, p, f
<1>4. ctl' \in BusyBy(clock) /\ ctl'.obj = o /\ ctl'.fresh = f /\ ctl'.pc = p
  BY <1>1, <1>2, <1>3 DEF Idle, BusyBy, PCs
<1> QED BY <1>1, <1>3, <1>4 DEF o, p, f

\* A pass goes on with another object in hand.
LEMMA PassMoves ==
  ASSUME TypeInv, ctl.pc # "idle", NEW p \in PCs \ {"idle"}, NEW o \in NixCronJobBy(clock),
         ctl' = [ctl EXCEPT !.pc = p, !.obj = o]
  PROVE  /\ ctl' \in BusyBy(clock) /\ ctl'.pc = p /\ ctl'.obj = o
         /\ ctl'.fresh = ctl.fresh /\ ctl'.rev = ctl.rev
BY BusyHere DEF BusyBy

\* What EnsureFinalizer, Suspended, Resolve and GitError leave in hand.
LEMMA PassWrites ==
  ASSUME TypeInv
  PROVE  /\ EnsureFinalizer =>
              /\ ctl' \in BusyBy(clock) /\ ctl'.pc = "resolve" /\ ctl'.fresh = ctl.fresh
              /\ ctl'.obj = [ctl.obj EXCEPT !.fin = TRUE]
         /\ Suspended =>
              /\ ctl' \in BusyBy(clock) /\ ctl'.pc = "status" /\ ctl'.fresh = ctl.fresh
              /\ ctl'.obj = [ctl.obj EXCEPT !.phase = "Suspended"]
         /\ Resolve =>
              /\ ctl' \in BusyBy(clock) /\ ctl'.fresh = ctl.fresh
              /\ \/ /\ ctl'.pc = "project" /\ ctl'.rev = head
                    /\ ctl'.obj = [ctl.obj EXCEPT !.resolved = head]
                 \/ /\ ctl'.pc = "status"
                    /\ ctl'.obj = Stall([ctl.obj EXCEPT !.resolved = head])
         /\ GitError =>
              /\ ctl' \in BusyBy(clock) /\ ctl'.pc = "status" /\ ctl'.fresh = ctl.fresh
              /\ ctl'.obj = Stall(ctl.obj)
<1>0. clock \in Nat /\ head \in Revs
  BY DEF TypeInv, Scalars
<1>1. ASSUME EnsureFinalizer
      PROVE  /\ ctl' \in BusyBy(clock) /\ ctl'.pc = "resolve" /\ ctl'.fresh = ctl.fresh
             /\ ctl'.obj = [ctl.obj EXCEPT !.fin = TRUE]
  <2>1. ctl \in BusyBy(clock) /\ ctl.obj \in NixCronJobBy(clock) /\ ctl.pc # "idle"
    BY <1>1, BusyHere DEF EnsureFinalizer, At
  <2>2. [ctl.obj EXCEPT !.fin = TRUE] \in NixCronJobBy(clock)
    BY <1>0, <2>1, FieldsTyped
  <2>3. ctl' = [ctl EXCEPT !.pc = "resolve", !.obj = [ctl.obj EXCEPT !.fin = TRUE]]
    BY <1>1, <2>1 DEF EnsureFinalizer, BusyBy, NixCronJobBy, NixCronJobObject
  <2> QED BY <2>1, <2>2, <2>3, PassMoves DEF PCs
<1>2. ASSUME Suspended
      PROVE  /\ ctl' \in BusyBy(clock) /\ ctl'.pc = "status" /\ ctl'.fresh = ctl.fresh
             /\ ctl'.obj = [ctl.obj EXCEPT !.phase = "Suspended"]
  <2>1. ctl \in BusyBy(clock) /\ ctl.obj \in NixCronJobBy(clock) /\ ctl.pc # "idle"
    BY <1>2, BusyHere DEF Suspended, At
  <2>2. [ctl.obj EXCEPT !.phase = "Suspended"] \in NixCronJobBy(clock)
    BY <1>0, <2>1, FieldsTyped DEF Phases
  <2>3. ctl' = [ctl EXCEPT !.pc = "status", !.obj = [ctl.obj EXCEPT !.phase = "Suspended"]]
    BY <1>2, <2>1 DEF Suspended, BusyBy, NixCronJobBy, NixCronJobObject
  <2> QED BY <2>1, <2>2, <2>3, PassMoves DEF PCs
<1>3. ASSUME Resolve
      PROVE  /\ ctl' \in BusyBy(clock) /\ ctl'.fresh = ctl.fresh
             /\ \/ /\ ctl'.pc = "project" /\ ctl'.rev = head
                   /\ ctl'.obj = [ctl.obj EXCEPT !.resolved = head]
                \/ /\ ctl'.pc = "status"
                   /\ ctl'.obj = Stall([ctl.obj EXCEPT !.resolved = head])
  <2> DEFINE o == [ctl.obj EXCEPT !.resolved = head]
             so == Stall(o)
  <2>1. ctl \in BusyBy(clock) /\ ctl.obj \in NixCronJobBy(clock) /\ ctl.pc # "idle"
    BY <1>3, BusyHere DEF Resolve, At
  <2>2. o \in NixCronJobBy(clock) /\ so \in NixCronJobBy(clock)
    BY <1>0, <2>1, FieldsTyped
  <2>3. ctl' = IF infra THEN [ctl EXCEPT !.pc = "project", !.obj = o, !.rev = head]
               ELSE [ctl EXCEPT !.pc = "status", !.obj = so]
    BY <1>3 DEF Resolve
  <2> HIDE DEF o, so
  <2>4. CASE infra
    <3>1. /\ ctl' \in BusyBy(clock) /\ ctl'.fresh = ctl.fresh
          /\ ctl'.pc = "project" /\ ctl'.rev = head /\ ctl'.obj = o
      BY <1>0, <2>1, <2>2, <2>3, <2>4 DEF BusyBy, PCs
    <3> QED BY <3>1 DEF o
  <2>5. CASE ~infra
    <3>1. /\ ctl' \in BusyBy(clock) /\ ctl'.fresh = ctl.fresh
          /\ ctl'.pc = "status" /\ ctl'.obj = so
      BY <2>1, <2>2, <2>3, <2>5, PassMoves DEF PCs
    <3> QED BY <3>1 DEF so, o
  <2> QED BY <2>4, <2>5
<1>4. ASSUME GitError
      PROVE  /\ ctl' \in BusyBy(clock) /\ ctl'.pc = "status" /\ ctl'.fresh = ctl.fresh
             /\ ctl'.obj = Stall(ctl.obj)
  <2>1. ctl \in BusyBy(clock) /\ ctl.obj \in NixCronJobBy(clock) /\ ctl.pc # "idle"
    BY <1>4, BusyHere DEF GitError, At
  <2>2. Stall(ctl.obj) \in NixCronJobBy(clock)
    BY <1>0, <2>1, FieldsTyped
  <2>3. ctl' = [ctl EXCEPT !.pc = "status", !.obj = Stall(ctl.obj)]
    BY <1>4, <2>1 DEF GitError, BusyBy
  <2> QED BY <2>1, <2>2, <2>3, PassMoves DEF PCs
<1> QED BY <1>1, <1>2, <1>3, <1>4

\* What a pass writes into the CronJob is a version of it.
LEMMA ProjectWrites ==
  ASSUME TypeInv, At("project"), cj' = Put(set.cj, cj, Projected)
  PROVE  cj' \in Logs(CronJobVersion(clock))
<1>1. ctl \in BusyBy(clock) /\ ctl.obj \in NixCronJobBy(clock)
  BY BusyHere DEF At
<1>2. ctl.rev \in Revs /\ ctl.obj.forbid \in BOOLEAN /\ clock \in Nat
  BY <1>1 DEF TypeInv, Scalars, At, Resolved, Resolving, NixCronJobBy, NixCronJobObject
<1>3. Projected \in CronJobVersion(clock)
  <2>1. CASE Seen(cj) = None
    BY <1>2, <2>1 DEF Projected, CronJobVersion, CronJobBy, CronJobObject
  <2>2. CASE Seen(cj) # None
    BY <1>2, <2>2, VersionsTyped DEF Projected, CronJobVersion, CronJobBy, CronJobObject
  <2> QED BY <2>1, <2>2
<1> QED BY <1>3, Written

\* Every step of a pass keeps the types.
LEMMA StepTyped ==
  ASSUME TypeInv, Step
  PROVE  TypeInv'
<1>0. /\ ncj \in Logs(NixCronJobVersion(clock)) /\ cj \in Logs(CronJobVersion(clock))
      /\ jobs \in [Jobs -> Logs(JobVersion(clock))] /\ Scalars /\ Resolved
      /\ clock \in Nat /\ head \in Revs
  BY DEF TypeInv, Scalars
<1>1. ASSUME UNCHANGED <<world, history>> PROVE Scalars' /\ clock' = clock
  BY <1>0, <1>1 DEF Scalars, world, history, truth
<1>2. CASE EnsureFinalizer
  <2>1. ctl' \in BusyBy(clock) /\ ctl'.pc = "resolve" /\ ctl.obj \in NixCronJobBy(clock)
    BY <1>2, PassWrites, BusyHere DEF EnsureFinalizer, At
  <2>2. ncj' \in Logs(NixCronJobVersion(clock))
    BY <1>0, <1>2, <2>1, FieldsTyped, Written DEF EnsureFinalizer, NixCronJobVersion
  <2> QED BY <1>0, <1>1, <1>2, <2>1, <2>2, OnlyLogs DEF EnsureFinalizer, Resolving
<1>3. CASE RemoveFinalizer
  <2>1. ncj' \in Logs(NixCronJobVersion(clock))
    BY <1>3, Written DEF RemoveFinalizer, NixCronJobVersion
  <2> QED BY <1>0, <1>1, <1>3, <2>1, OnlyLogs DEF RemoveFinalizer
<1>4. CASE DropOnConflict
  BY <1>1, <1>4, OnlyPass DEF DropOnConflict
<1>5. CASE Suspended
  <2>1. ctl' \in BusyBy(clock) /\ ctl'.pc = "status"
    BY <1>5, PassWrites
  <2> QED BY <1>1, <1>5, <2>1, OnlyPass DEF Suspended, Resolving
<1>6. CASE Resolve
  <2>1. ctl' \in BusyBy(clock) /\ (ctl'.pc = "status" \/ ctl'.rev = head)
    BY <1>6, PassWrites
  <2> QED BY <1>0, <1>1, <1>6, <2>1, OnlyPass DEF Resolve, Resolving
<1>7. CASE Project
  <2>1. ctl \in BusyBy(clock) /\ ctl.rev \in Revs
    BY <1>0, <1>7, BusyHere DEF Project, At, Resolved, Resolving
  <2>2. cj' \in Logs(CronJobVersion(clock))
    BY <1>7, ProjectWrites DEF Project
  <2>3. ctl' \in BusyBy(clock) /\ ctl'.rev = ctl.rev
    BY <1>7, <2>1 DEF Project, Goto, BusyBy, PCs
  <2> QED BY <1>0, <1>1, <1>7, <2>1, <2>2, <2>3, OnlyLogs DEF Project
<1>8. CASE ProjectFails
  BY <1>1, <1>8, OnlyPass DEF ProjectFails
<1>9. CASE FireImmediateJob
  <2>1. ctl \in BusyBy(clock) /\ ctl.rev \in Revs /\ ctl.rev \in Jobs
    BY <1>0, <1>9, BusyHere DEF FireImmediateJob, At, Resolved, Resolving, Jobs
  <2>2. ctl' \in BusyBy(clock) /\ ctl'.rev = ctl.rev
    BY <1>9, <2>1 DEF FireImmediateJob, Goto, BusyBy, PCs
  <2>3. [st |-> "running", at |-> 0] \in JobVersion(clock)
    BY <1>0 DEF JobVersion, JobBy, JobObject
  <2>4. jobs' \in [Jobs -> Logs(JobVersion(clock))] /\ fired' \subseteq Revs
    <3>1. CASE PutJob(ctl.rev, [st |-> "running", at |-> 0]) /\ fired' = fired \cup {ctl.rev}
      BY <1>0, <2>1, <2>3, <3>1, JobWritten DEF Scalars
    <3>2. CASE UNCHANGED <<jobs, fired>>
      BY <1>0, <3>2 DEF Scalars
    <3> QED BY <1>9, <3>1, <3>2, Zenon DEF FireImmediateJob
  <2>5. Scalars' /\ clock' = clock
    BY <1>0, <1>9, <2>4 DEF FireImmediateJob, Scalars, world, truth
  <2> QED BY <1>0, <1>9, <2>1, <2>2, <2>4, <2>5, OnlyLogs DEF FireImmediateJob
<1>10. CASE Observe
  <2>1. ctl' \in BusyBy(clock) /\ ctl'.pc = "status"
    BY <1>10, ObserveReports
  <2> QED BY <1>1, <1>10, <2>1, OnlyPass DEF Observe, Resolving
<1>11. CASE StatusUpdate
  <2>1. ctl.obj \in NixCronJobVersion(clock)
    BY <1>11, BusyHere DEF StatusUpdate, At, NixCronJobVersion
  <2>2. ncj' \in Logs(NixCronJobVersion(clock))
    BY <1>11, <2>1, Written DEF StatusUpdate
  <2> QED BY <1>0, <1>1, <1>11, <2>2, OnlyLogs DEF StatusUpdate
<1> QED BY <1>2, <1>3, <1>4, <1>5, <1>6, <1>7, <1>8, <1>9, <1>10, <1>11 DEF Step

\* What the start of a pass and a fault leave.
LEMMA FaultTyped ==
  ASSUME TypeInv, Reconcile \/ GitError \/ ApiError \/ ProjectAnswerLost \/ Crash
  PROVE  TypeInv'
<1>0. /\ ncj \in Logs(NixCronJobVersion(clock)) /\ cj \in Logs(CronJobVersion(clock))
      /\ jobs \in [Jobs -> Logs(JobVersion(clock))] /\ Scalars /\ Resolved
      /\ upsets \in Nat
  BY DEF TypeInv, Scalars
<1>1. CASE Reconcile
  <2>1. ctl' \in BusyBy(clock) /\ ctl'.pc \notin Resolving
    BY <1>1, ReconcileStarts DEF Resolving
  <2>2. Scalars' /\ clock' = clock
    BY <1>0, <1>1 DEF Reconcile, Scalars, world, history, truth
  <2> QED BY <1>1, <2>1, <2>2, OnlyPass DEF Reconcile
<1>2. CASE GitError
  <2>1. ctl' \in BusyBy(clock) /\ ctl'.pc = "status"
    BY <1>2, PassWrites
  <2>2. Scalars' /\ clock' = clock
    BY <1>0, <1>2 DEF GitError, Disturb, Scalars, history, truth
  <2> QED BY <1>2, <2>1, <2>2, OnlyPass DEF GitError, Resolving
<1>3. CASE ApiError
  <2>1. ctl \in BusyBy(clock)
    BY <1>3, BusyHere DEF ApiError
  <2>2. ctl' = Idle \/ (ctl' \in BusyBy(clock) /\ ctl'.rev \in Revs)
    <3>1. CASE At("fire")
      <4>1. ctl' = [ctl EXCEPT !.pc = "observe"] /\ ctl.rev \in Revs
        BY <1>0, <1>3, <3>1 DEF ApiError, At, Resolved, Resolving
      <4> QED BY <2>1, <4>1 DEF BusyBy, PCs
    <3>2. CASE ~At("fire")
      BY <1>3, <3>2 DEF ApiError
    <3> QED BY <3>1, <3>2
  <2>3. upsets' \in Nat
    BY <1>0, <1>3 DEF ApiError, Disturb
  <2>4. Scalars' /\ clock' = clock
    <3>1. lost' \in BOOLEAN
      BY <1>3, Zenon DEF ApiError
    <3> QED BY <1>0, <1>3, <2>3, <3>1 DEF ApiError, Scalars, truth
  <2> QED BY <1>3, <2>2, <2>4, OnlyPass DEF ApiError
<1>4. CASE Crash
  <2>1. ncj' = Relisted(ncj) /\ cj' = Relisted(cj) /\ jobs' = [j \in Jobs |-> Relisted(jobs[j])]
    BY <1>4 DEF Crash
  <2>2. /\ ncj' \in Logs(NixCronJobVersion(clock)) /\ cj' \in Logs(CronJobVersion(clock))
        /\ jobs' \in [Jobs -> Logs(JobVersion(clock))]
    BY <1>0, <2>1, LogRelisted
  <2>3. Scalars' /\ clock' = clock
    BY <1>0, <1>4 DEF Crash, Disturb, Scalars, history, truth
  <2> QED BY <1>4, <2>2, <2>3, OnlyLogs DEF Crash
<1>5. CASE ProjectAnswerLost
  <2>1. cj' \in Logs(CronJobVersion(clock))
    BY <1>5, ProjectWrites DEF ProjectAnswerLost
  <2>2. Scalars' /\ clock' = clock
    BY <1>0, <1>5 DEF ProjectAnswerLost, Disturb, Scalars, history, truth
  <2> QED BY <1>0, <1>5, <2>1, <2>2, OnlyLogs DEF ProjectAnswerLost
<1> QED BY <1>1, <1>2, <1>3, <1>4, <1>5

\* A user's write keeps the pass, which is then outdated.
LEMMA UserWritesTyped ==
  ASSUME TypeInv, NEW v \in NixCronJobVersion(clock), UserWrites(v)
  PROVE  /\ ncj' \in Logs(NixCronJobVersion(clock)) /\ Cur(ncj') = v
         /\ ctl' = Idle \/ (ctl' \in BusyBy(clock) /\ (ctl'.pc \in Resolving => ctl'.rev \in Revs))
         /\ ctl'.fresh = FALSE /\ ctl'.pc = ctl.pc /\ ctl'.obj = ctl.obj /\ ctl'.rev = ctl.rev
<1>1. ncj' \in Logs(NixCronJobVersion(clock)) /\ Cur(ncj') = v
  BY Written DEF UserWrites
<1>2. CASE ctl \in BusyBy(clock)
  BY <1>1, <1>2 DEF UserWrites, BusyBy, TypeInv, Resolved
<1>3. CASE ctl = Idle
  <2>1. ctl' = Idle
    BY <1>3 DEF UserWrites, Idle
  <2> QED BY <1>1, <1>3, <2>1 DEF Idle
<1> QED BY <1>2, <1>3 DEF TypeInv

\* What the user writes.
LEMMA UserTyped ==
  ASSUME TypeInv, User
  PROVE  /\ TypeInv'
         /\ \E v \in NixCronJobVersion(clock) :
              /\ UserWrites(v)
              /\ \/ /\ ~created /\ created' = TRUE
                    /\ v # None /\ v.rolled = None
                 \/ /\ Cur(ncj) # None /\ created' = created
                    /\ v # None => /\ v.rolled = Cur(ncj).rolled /\ v.trig = Cur(ncj).trig
                                   /\ v.forbid = Cur(ncj).forbid
                                   /\ v.failed = Cur(ncj).failed
                                   /\ v.succeeded = Cur(ncj).succeeded
         /\ UNCHANGED <<cj, jobs, fired, lost, clock>>
<1>0. /\ ncj \in Logs(NixCronJobVersion(clock)) /\ cj \in Logs(CronJobVersion(clock))
      /\ jobs \in [Jobs -> Logs(JobVersion(clock))] /\ Scalars
      /\ upsets \in Nat /\ clock \in Nat /\ Cur(ncj) \in NixCronJobVersion(clock)
  BY VersionsTyped DEF TypeInv, Scalars
<1>1. ASSUME NEW v \in NixCronJobVersion(clock), UserWrites(v), Scalars',
             UNCHANGED <<cj, jobs, clock>>
      PROVE  TypeInv'
  <2>1. /\ ncj' \in Logs(NixCronJobVersion(clock))
        /\ ctl' = Idle \/ (ctl' \in BusyBy(clock) /\ (ctl'.pc \in Resolving => ctl'.rev \in Revs))
    BY <1>1, UserWritesTyped
  <2> QED BY <1>0, <1>1, <2>1, OnlyLogs
<1>2. CASE CreateNixCronJob
  <2>1. PICK s \in set.specs :
          UserWrites([del |-> FALSE, fin |-> FALSE, susp |-> FALSE, trig |-> s.trig,
                      forbid |-> s.forbid, phase |-> "", stalled |-> FALSE,
                      resolved |-> None, rolled |-> None, active |-> FALSE, failed |-> 0,
                      succeeded |-> 0])
    BY <1>2, Zenon DEF CreateNixCronJob
  <2> DEFINE v == [del |-> FALSE, fin |-> FALSE, susp |-> FALSE, trig |-> s.trig,
                   forbid |-> s.forbid, phase |-> "", stalled |-> FALSE,
                   resolved |-> None, rolled |-> None, active |-> FALSE, failed |-> 0,
                   succeeded |-> 0]
  <2>2. v \in NixCronJobBy(clock) /\ v.rolled = None
    <3>1. s \in [trig : BOOLEAN, forbid : BOOLEAN]
      BY SettingTyped
    <3>2. v.rolled = None
      OBVIOUS
    <3>3. v \in NixCronJobBy(clock)
      BY <1>0, <3>1, NewTyped
    <3> QED BY <3>2, <3>3
  <2> HIDE DEF v
  <2>3. UserWrites(v)
    BY <2>1, Zenon DEF v
  <2>4. /\ ~created /\ created' = TRUE
        /\ UNCHANGED <<cj, jobs, world, used, fired, lost, truth>>
    BY <1>2, Zenon DEF CreateNixCronJob
  <2>5. v \in NixCronJobVersion(clock) /\ v # None
    BY <2>2, NoneIsNoCron DEF NixCronJobVersion, NixCronJobBy
  <2>6. Scalars' /\ UNCHANGED <<cj, jobs, fired, lost, clock>>
    BY <1>0, <2>4 DEF Scalars, world, truth
  <2>7. TypeInv'
    BY <1>1, <2>3, <2>5, <2>6
  <2> QED BY <2>2, <2>3, <2>4, <2>5, <2>6, <2>7
<1>3. CASE SuspendNixCronJob
  <2> DEFINE v == [Cur(ncj) EXCEPT !.susp = ~@]
  <2>1. Cur(ncj) \in NixCronJobBy(clock) /\ Cur(ncj) # None
    BY <1>0, <1>3 DEF SuspendNixCronJob, NixCronJobVersion
  <2>2. v \in NixCronJobVersion(clock)
    BY <1>0, <2>1, FieldsTyped DEF NixCronJobVersion
  <2>3. /\ v.rolled = Cur(ncj).rolled /\ v.trig = Cur(ncj).trig
        /\ v.forbid = Cur(ncj).forbid
        /\ v.failed = Cur(ncj).failed /\ v.succeeded = Cur(ncj).succeeded
    BY <2>1 DEF NixCronJobBy, NixCronJobObject
  <2>4. UserWrites(v)
    BY <1>3 DEF SuspendNixCronJob
  <2>5. Scalars' /\ UNCHANGED <<cj, jobs, fired, lost, clock, created>>
    BY <1>0, <1>3 DEF SuspendNixCronJob, Disturb, Scalars, history, truth
  <2> HIDE DEF v
  <2>6. TypeInv'
    BY <1>1, <2>2, <2>4, <2>5
  <2> QED BY <2>1, <2>2, <2>3, <2>4, <2>5, <2>6
<1>4. CASE DeleteNixCronJob
  <2> DEFINE v == IF Cur(ncj).fin THEN [Cur(ncj) EXCEPT !.del = TRUE] ELSE None
  <2>1. Cur(ncj) \in NixCronJobBy(clock) /\ Cur(ncj) # None
    BY <1>0, <1>4 DEF DeleteNixCronJob, NixCronJobVersion
  <2>2. v \in NixCronJobVersion(clock)
    BY <1>0, <2>1, FieldsTyped DEF NixCronJobVersion
  <2>3. v # None => /\ v.rolled = Cur(ncj).rolled /\ v.trig = Cur(ncj).trig
                    /\ v.forbid = Cur(ncj).forbid
                    /\ v.failed = Cur(ncj).failed /\ v.succeeded = Cur(ncj).succeeded
    BY <2>1 DEF NixCronJobBy, NixCronJobObject
  <2>4. UserWrites(v)
    BY <1>4 DEF DeleteNixCronJob
  <2>5. Scalars' /\ UNCHANGED <<cj, jobs, fired, lost, clock, created>>
    BY <1>0, <1>4 DEF DeleteNixCronJob, Scalars, world, history, truth
  <2> HIDE DEF v
  <2>6. TypeInv'
    BY <1>1, <2>2, <2>4, <2>5
  <2> QED BY <2>1, <2>2, <2>3, <2>4, <2>5, <2>6
<1> QED BY <1>2, <1>3, <1>4 DEF User

\* A run ends, perhaps in the next second.
LEMMA JobEndsTyped ==
  ASSUME TypeInv, NEW j \in Jobs, JobEnds(j)
  PROVE  TypeInv'
<1>0. /\ ncj \in Logs(NixCronJobVersion(clock)) /\ cj \in Logs(CronJobVersion(clock))
      /\ ctl \in BusyBy(clock) \cup {Idle} /\ Scalars /\ Resolved /\ clock \in Nat
  BY DEF TypeInv, Scalars
<1>1. PICK t \in {clock, clock + 1}, s \in {"complete", "failed"} :
        /\ clock' = t
        /\ PutJob(j, [st |-> s, at |-> t])
        /\ lastFailed' = IF s = "failed" THEN t ELSE lastFailed
        /\ lastSucceeded' = IF s = "complete" THEN t ELSE lastSucceeded
  BY Zenon DEF JobEnds
<1>2. t \in Nat /\ clock <= t
  BY <1>0
<1>3. [st |-> s, at |-> t] \in JobVersion(t)
  BY <1>2 DEF JobVersion, JobBy, JobObject
<1>4. jobs' \in [Jobs -> Logs(JobVersion(t))]
  BY <1>1, <1>2, <1>3, JobWritten
<1>5. UNCHANGED <<ncj, cj, head, infra, set, upsets, ctl, created, used, fired, lost, missed>>
  BY Zenon DEF JobEnds
<1>6. Scalars'
  BY <1>0, <1>1, <1>2, <1>5 DEF Scalars
<1>7. ncj \in Logs(NixCronJobVersion(t)) /\ cj \in Logs(CronJobVersion(t)) /\ ctl \in BusyBy(t) \cup {Idle}
  <2>1. /\ NixCronJobVersion(clock) \subseteq NixCronJobVersion(t)
        /\ CronJobVersion(clock) \subseteq CronJobVersion(t) /\ BusyBy(clock) \subseteq BusyBy(t)
    BY <1>0, <1>2, Later
  <2> HIDE DEF NixCronJobVersion, CronJobVersion, BusyBy
  <2> QED BY <1>0, <2>1, LogWidened
<1>8. Resolved'
  BY <1>0, <1>5 DEF Resolved
<1> QED BY <1>1, <1>4, <1>5, <1>6, <1>7, <1>8 DEF TypeInv

\* The rest of the cluster.
LEMMA ClusterTyped ==
  ASSUME TypeInv, Cluster
  PROVE  TypeInv'
<1>0. /\ ncj \in Logs(NixCronJobVersion(clock)) /\ cj \in Logs(CronJobVersion(clock))
      /\ jobs \in [Jobs -> Logs(JobVersion(clock))]
      /\ ctl = Idle \/ (ctl \in BusyBy(clock) /\ (ctl.pc \in Resolving => ctl.rev \in Revs))
      /\ Scalars /\ upsets \in Nat /\ clock \in Nat
  BY DEF TypeInv, Scalars, Resolved
<1>1. ASSUME UNCHANGED <<world, history>> PROVE Scalars' /\ clock' = clock
  BY <1>0, <1>1 DEF Scalars, world, history, truth
<1>2. CASE Push
  <2>1. head' \in Revs /\ upsets' = upsets + 1 /\ UNCHANGED <<ncj, cj, jobs, infra, clock, set, ctl, history>>
    BY <1>2, Zenon DEF Push, Disturb
  <2>2. Scalars'
    BY <1>0, <2>1 DEF Scalars, history, truth
  <2> QED BY <1>0, <2>1, <2>2, OnlyPass
<1>3. CASE InfraChanges
  <2>1. infra' = ~infra /\ upsets' = upsets + 1 /\ UNCHANGED <<ncj, cj, jobs, head, clock, set, ctl, history>>
    BY <1>3, Zenon DEF InfraChanges, Disturb
  <2>2. Scalars'
    BY <1>0, <2>1 DEF Scalars, history, truth
  <2> QED BY <1>0, <2>1, <2>2, OnlyPass
<1>4. CASE CronSyncs
  <2> DEFINE k == Cur(cj)
             ended == {s \in Slots : Cur(jobs[s]) # None /\ Cur(jobs[s]).st = "complete"}
             ends == {Cur(jobs[s]).at : s \in ended}
             S == {k.succeeded} \cup ends
             m == Max(S)
             a == {s \in Slots : Running(s)}
             v == [k EXCEPT !.active = a, !.succeeded = m]
  <2>1. k \in CronJobBy(clock) /\ k.succeeded \in Nat /\ k.succeeded <= clock
    BY <1>4, VersionsTyped DEF CronSyncs, CronJobVersion, CronJobBy, CronJobObject
  <2>2. \A x \in ends : x \in Nat /\ x <= clock
    BY VersionsTyped DEF Jobs, JobVersion, JobBy, JobObject
  <2>3. cj' = Put(set.cj, cj, v)
    <3>1. cj' = Put(set.cj, cj, [k EXCEPT !.active = a, !.succeeded = Max({@} \cup ends)])
      BY <1>4 DEF CronSyncs
    <3> HIDE DEF k, a, ends
    <3> QED BY <2>1, <3>1 DEF CronJobBy, CronJobObject
  <2>4. m \in Nat /\ m <= clock
    <3> HIDE DEF ends, k
    <3>1. S \subseteq Nat /\ S # {} /\ \A y \in S : y <= clock
      BY <2>1, <2>2
    <3> HIDE DEF S
    <3> QED BY <1>0, <3>1, MaxOfTimes
  <2>5. a \subseteq Slots
    OBVIOUS
  <2> HIDE DEF k, a, m
  <2>6. v \in CronJobVersion(clock)
    BY <2>1, <2>4, <2>5 DEF CronJobVersion, CronJobBy, CronJobObject
  <2> HIDE DEF v
  <2>7. cj' \in Logs(CronJobVersion(clock))
    BY <2>3, <2>6, Written
  <2> QED BY <1>0, <1>1, <1>4, <2>7, OnlyLogs DEF CronSyncs
<1>5. CASE CronCollected
  <2>1. cj' \in Logs(CronJobVersion(clock))
    BY <1>5, Written DEF CronCollected, CronJobVersion
  <2> QED BY <1>0, <1>1, <1>5, <2>1, OnlyLogs DEF CronCollected
<1>6. CASE DeliverNixCronJob
  <2>1. ncj' \in Logs(NixCronJobVersion(clock))
    BY <1>0, <1>6, LogDelivered DEF DeliverNixCronJob
  <2> QED BY <1>0, <1>1, <1>6, <2>1, OnlyLogs DEF DeliverNixCronJob
<1>7. CASE DeliverCronJob
  <2>1. cj' \in Logs(CronJobVersion(clock))
    BY <1>0, <1>7, LogDelivered DEF DeliverCronJob
  <2> QED BY <1>0, <1>1, <1>7, <2>1, OnlyLogs DEF DeliverCronJob
<1>8. ASSUME NEW s \in Slots, CronFires(s) PROVE TypeInv'
  <2>1. s \in Jobs /\ [st |-> "running", at |-> 0] \in JobVersion(clock)
    BY <1>0 DEF Jobs, JobVersion, JobBy, JobObject
  <2>2. jobs' \in [Jobs -> Logs(JobVersion(clock))]
    BY <1>0, <1>8, <2>1, JobWritten DEF CronFires
  <2>3. Scalars' /\ clock' = clock
    BY <1>0, <1>8 DEF CronFires, Scalars, world, truth
  <2> QED BY <1>0, <1>8, <2>2, <2>3, OnlyLogs DEF CronFires
<1>9. ASSUME NEW j \in Jobs, JobEnds(j) PROVE TypeInv'
  BY <1>9, JobEndsTyped
<1>10. ASSUME NEW j \in Jobs, JobReaped(j) PROVE TypeInv'
  <2>1. jobs' \in [Jobs -> Logs(JobVersion(clock))]
    BY <1>0, <1>10, JobWritten DEF JobReaped, JobVersion
  <2>2. Scalars' /\ clock' = clock
    <3>1. missed' \in BOOLEAN
      BY <1>10, Zenon DEF JobReaped
    <3>2. upsets' = upsets + 1
          /\ UNCHANGED <<ncj, cj, head, infra, clock, set, ctl, created, used, fired, lost,
                         lastFailed, lastSucceeded>>
      BY <1>10, Zenon DEF JobReaped, Disturb
    <3> QED BY <1>0, <3>1, <3>2 DEF Scalars
  <2> QED BY <1>0, <1>10, <2>1, <2>2, OnlyLogs DEF JobReaped
<1>11. ASSUME NEW j \in Jobs, DeliverJob(j) PROVE TypeInv'
  <2>1. Delivered(jobs[j]) \in Logs(JobVersion(clock)) /\ jobs' = [jobs EXCEPT ![j] = Delivered(@)]
    BY <1>0, <1>11, LogDelivered DEF DeliverJob
  <2>2. jobs' \in [Jobs -> Logs(JobVersion(clock))]
    BY <1>0, <2>1
  <2> QED BY <1>0, <1>1, <1>11, <2>2, OnlyLogs DEF DeliverJob
<1> QED BY <1>2, <1>3, <1>4, <1>5, <1>6, <1>7, <1>8, <1>9, <1>10, <1>11 DEF Cluster

\* The typed states are kept.
LEMMA TypeInvariant ==
  Spec => []TypeInv
<1>1. Init => TypeInv
  <2> SUFFICES ASSUME Init PROVE TypeInv
    OBVIOUS
  <2>1. ncj \in Logs(NixCronJobVersion(clock)) /\ cj \in Logs(CronJobVersion(clock))
    BY LogOfOne DEF Init, NixCronJobVersion, CronJobVersion
  <2>2. <<None>> \in Logs(JobVersion(clock))
    BY LogOfOne DEF JobVersion
  <2>3. head \in Revs
    BY NamesDiffer, Zenon DEF Init
  <2> QED BY <2>1, <2>2, <2>3 DEF Init, TypeInv, Scalars, Resolved, Resolving, Idle
<1>2. TypeInv /\ [Next]_vars => TypeInv'
  <2> SUFFICES ASSUME TypeInv, [Next]_vars PROVE TypeInv'
    OBVIOUS
  <2>1. CASE UNCHANGED vars
    BY <2>1 DEF vars, TypeInv, Scalars, Resolved
  <2>2. CASE Next
    BY <2>2, StepTyped, FaultTyped, UserTyped, ClusterTyped DEF Next
  <2> QED BY <2>1, <2>2
<1> QED BY <1>1, <1>2, PTL DEF Spec

\* The type invariant of the NixCronJob controller holds in every reachable state; in
\* particular lastFinishedRuns always finds a latest time.
THEOREM NixCronJobTypeCorrect ==
  Spec => []TypeOK
<1>1. TypeInv => TypeOK
  BY InvTyped
<1> QED BY <1>1, TypeInvariant, PTL

-----------------------------------------------------------------------------
(* How a pass moves. *)

\* v is a later report on the NixCronJob o: the same spec, no time moved back.
Grown(o, v) ==
  /\ o.failed <= v.failed /\ o.succeeded <= v.succeeded
  /\ v.trig = o.trig /\ v.forbid = o.forbid

\* The pass goes on, with a later report in hand.
GoesOn ==
  /\ ctl' \in BusyBy(clock) /\ ctl'.fresh = ctl.fresh /\ Grown(ctl.obj, ctl'.obj)
  /\ ctl'.obj.rolled = ctl.obj.rolled \/ (At("observe") /\ ctl'.obj.rolled = ctl.rev)
  /\ ctl'.pc = "observe" => At("project") \/ At("fire")

\* What it writes to the NixCronJob: nothing, its end, or the report in hand.
PassWritesNcj ==
  \/ ncj' = ncj
  \/ Write(None) /\ ctl' = Idle
  \/ ctl.fresh /\ Write(ctl.obj) /\ ctl' = Idle
  \/ ctl.fresh /\ Write(ctl'.obj) /\ GoesOn

\* Fields that a change of another field leaves.
LEMMA FieldsKept ==
  ASSUME NEW t \in Nat, NEW o \in NixCronJobBy(t)
  PROVE  /\ Grown(o, o)
         /\ \A v \in {[o EXCEPT !.fin = TRUE], [o EXCEPT !.phase = "Suspended"], Stall(o)} :
              Grown(o, v) /\ v.rolled = o.rolled
         /\ \A r \in Revs :
              \A v \in {[o EXCEPT !.resolved = r], Stall([o EXCEPT !.resolved = r])} :
                Grown(o, v) /\ v.rolled = o.rolled
<1>1. o \in NixCronJobObject /\ o.failed <= o.failed /\ o.succeeded <= o.succeeded
  BY DEF NixCronJobBy, NixCronJobObject
<1>2. Grown(o, o)
  BY <1>1 DEF Grown
<1>3. \A v \in {[o EXCEPT !.fin = TRUE], [o EXCEPT !.phase = "Suspended"], Stall(o)} :
        Grown(o, v) /\ v.rolled = o.rolled
  BY <1>1 DEF Grown, Stall, NixCronJobObject
<1>4. ASSUME NEW r \in Revs
      PROVE  \A v \in {[o EXCEPT !.resolved = r], Stall([o EXCEPT !.resolved = r])} :
                Grown(o, v) /\ v.rolled = o.rolled
  BY <1>1 DEF Grown, Stall, NixCronJobObject
<1> QED BY <1>2, <1>3, <1>4

\* Steps of a pass, and calls that fail.
LEMMA PassKinds ==
  ASSUME TypeInv, Step \/ GitError \/ ApiError \/ ProjectAnswerLost
  PROVE  /\ ctl \in BusyBy(clock) /\ ctl.pc # "idle" /\ created' = created
         /\ ctl' = Idle \/ GoesOn
         /\ PassWritesNcj
<1>1. ctl.pc # "idle"
  BY DEF At, Step, EnsureFinalizer, RemoveFinalizer, DropOnConflict, Suspended, Resolve, Project,
         ProjectFails, FireImmediateJob, Observe, StatusUpdate, GitError, ApiError, ProjectAnswerLost
<1>2. ctl \in BusyBy(clock) /\ ctl.obj \in NixCronJobBy(clock) /\ clock \in Nat /\ head \in Revs
  BY <1>1, BusyHere DEF TypeInv, Scalars
<1>3. CASE EnsureFinalizer
  <2> DEFINE v == [ctl.obj EXCEPT !.fin = TRUE]
  <2>1. ctl' \in BusyBy(clock) /\ ctl'.pc = "resolve" /\ ctl'.fresh = ctl.fresh /\ ctl'.obj = v
    BY <1>3, PassWrites
  <2>2. ctl.fresh /\ Write(v) /\ created' = created
    BY <1>3 DEF EnsureFinalizer, history
  <2>3. Grown(ctl.obj, v) /\ v.rolled = ctl.obj.rolled
    BY <1>2, FieldsKept
  <2> HIDE DEF v
  <2>4. GoesOn
    BY <2>1, <2>3 DEF GoesOn
  <2> QED BY <1>1, <1>2, <2>1, <2>2, <2>4 DEF PassWritesNcj
<1>4. CASE RemoveFinalizer
  BY <1>1, <1>2, <1>4 DEF RemoveFinalizer, history, PassWritesNcj
<1>5. CASE DropOnConflict \/ ProjectFails
  BY <1>1, <1>2, <1>5 DEF DropOnConflict, ProjectFails, history, PassWritesNcj
<1>6. CASE Suspended
  <2> DEFINE v == [ctl.obj EXCEPT !.phase = "Suspended"]
  <2>1. ctl' \in BusyBy(clock) /\ ctl'.pc = "status" /\ ctl'.fresh = ctl.fresh /\ ctl'.obj = v
    BY <1>6, PassWrites
  <2>2. ncj' = ncj /\ created' = created
    BY <1>6 DEF Suspended, history
  <2>3. Grown(ctl.obj, v) /\ v.rolled = ctl.obj.rolled
    BY <1>2, FieldsKept
  <2> HIDE DEF v
  <2>4. GoesOn
    BY <2>1, <2>3 DEF GoesOn
  <2> QED BY <1>1, <1>2, <2>2, <2>4 DEF PassWritesNcj
<1>7. CASE Resolve
  <2>1. /\ ctl' \in BusyBy(clock) /\ ctl'.pc # "observe" /\ ctl'.fresh = ctl.fresh
        /\ ctl'.obj \in {[ctl.obj EXCEPT !.resolved = head], Stall([ctl.obj EXCEPT !.resolved = head])}
    BY <1>7, PassWrites
  <2>2. ncj' = ncj /\ created' = created
    BY <1>7 DEF Resolve, history
  <2>3. Grown(ctl.obj, ctl'.obj) /\ ctl'.obj.rolled = ctl.obj.rolled
    BY <1>2, <2>1, FieldsKept
  <2>4. GoesOn
    BY <2>1, <2>3 DEF GoesOn
  <2> QED BY <1>1, <1>2, <2>2, <2>4 DEF PassWritesNcj
<1>8. CASE GitError
  <2>1. ctl' \in BusyBy(clock) /\ ctl'.pc = "status" /\ ctl'.fresh = ctl.fresh /\ ctl'.obj = Stall(ctl.obj)
    BY <1>8, PassWrites
  <2>2. ncj' = ncj /\ created' = created
    BY <1>8 DEF GitError, history
  <2>3. Grown(ctl.obj, ctl'.obj) /\ ctl'.obj.rolled = ctl.obj.rolled
    BY <1>2, <2>1, FieldsKept
  <2>4. GoesOn
    BY <2>1, <2>3 DEF GoesOn
  <2> QED BY <1>1, <1>2, <2>2, <2>4 DEF PassWritesNcj
<1>9. ASSUME NEW p \in PCs \ {"idle"}, ctl' = [ctl EXCEPT !.pc = p],
             p = "observe" => At("project") \/ At("fire")
      PROVE  GoesOn
  <2>1. ctl' \in BusyBy(clock) /\ ctl'.pc = p /\ ctl'.fresh = ctl.fresh /\ ctl'.obj = ctl.obj
    BY <1>2, <1>9 DEF BusyBy
  <2> QED BY <1>2, <1>9, <2>1, FieldsKept DEF GoesOn
<1>10. CASE Project
  <2> DEFINE p == IF RevChanged(ctl.obj, ctl.rev) /\ ctl.obj.trig THEN "fire" ELSE "observe"
  <2>1. ctl' = [ctl EXCEPT !.pc = p] /\ p \in PCs \ {"idle"} /\ At("project")
    BY <1>10 DEF Project, Goto, PCs
  <2> HIDE DEF p
  <2>2. GoesOn
    BY <1>9, <2>1
  <2> QED BY <1>1, <1>2, <1>10, <2>2 DEF Project, history, PassWritesNcj
<1>11. CASE FireImmediateJob
  <2>1. ctl' = [ctl EXCEPT !.pc = "observe"] /\ "observe" \in PCs \ {"idle"} /\ At("fire")
    BY <1>11 DEF FireImmediateJob, Goto, PCs
  <2>2. GoesOn
    BY <1>9, <2>1
  <2> QED BY <1>1, <1>2, <1>11, <2>2 DEF FireImmediateJob, PassWritesNcj
<1>12. CASE Observe
  <2>1. /\ ctl' \in BusyBy(clock) /\ ctl'.pc = "status" /\ ctl'.fresh = ctl.fresh
        /\ Grown(ctl.obj, ctl'.obj)
        /\ ctl'.obj.rolled = ctl.obj.rolled \/ ctl'.obj.rolled = ctl.rev
    BY <1>12, ObserveReports DEF Grown
  <2>2. ncj' = ncj /\ created' = created /\ At("observe")
    BY <1>12 DEF Observe, history
  <2>3. GoesOn
    BY <2>1, <2>2 DEF GoesOn
  <2> QED BY <1>1, <1>2, <2>2, <2>3 DEF PassWritesNcj
<1>13. CASE StatusUpdate
  BY <1>1, <1>2, <1>13 DEF StatusUpdate, history, PassWritesNcj
<1>14. CASE ApiError
  <2>1. ncj' = ncj /\ created' = created
    BY <1>14 DEF ApiError
  <2>2. CASE At("fire")
    <3>1. ctl' = [ctl EXCEPT !.pc = "observe"] /\ "observe" \in PCs \ {"idle"}
      BY <1>14, <2>2 DEF ApiError, PCs
    <3>2. GoesOn
      BY <1>9, <2>2, <3>1
    <3> QED BY <1>1, <1>2, <2>1, <3>2 DEF PassWritesNcj
  <2>3. CASE ~At("fire")
    <3>1. ctl' = Idle
      BY <1>14, <2>3 DEF ApiError
    <3> QED BY <1>1, <1>2, <2>1, <3>1 DEF PassWritesNcj
  <2> QED BY <2>2, <2>3
<1>15. CASE ProjectAnswerLost
  BY <1>1, <1>2, <1>15 DEF ProjectAnswerLost, history, PassWritesNcj
<1> QED BY <1>3, <1>4, <1>5, <1>6, <1>7, <1>8, <1>10, <1>11, <1>12, <1>13, <1>14, <1>15 DEF Step

\* The cluster leaves the pass alone, and the NixCronJob but for late events.
LEMMA ClusterKinds ==
  ASSUME Cluster
  PROVE  /\ UNCHANGED <<ctl, created, lost, fired>>
         /\ ncj' = ncj \/ (~InSync(ncj) /\ ncj' = Delivered(ncj))
<1>1. CASE Push \/ InfraChanges \/ CronSyncs \/ CronCollected \/ DeliverNixCronJob \/ DeliverCronJob
  BY <1>1 DEF Push, InfraChanges, CronSyncs, CronCollected, DeliverNixCronJob, DeliverCronJob, history
<1>2. CASE \E s \in Slots : CronFires(s)
  BY <1>2, Zenon DEF CronFires
<1>3. CASE \E j \in Jobs : JobEnds(j) \/ JobReaped(j) \/ DeliverJob(j)
  BY <1>3, Zenon DEF JobEnds, JobReaped, DeliverJob, history
<1> QED BY <1>1, <1>2, <1>3 DEF Cluster

-----------------------------------------------------------------------------
(* Times never move back. *)

\* Nothing happens before the NixCronJob is created.
Uncreated == ~created => ncj = <<None>> /\ ctl = Idle

\* A pass whose write the server would accept has no older times in hand.
Ahead ==
  ctl.pc # "idle" /\ ctl.fresh /\ Exists
    => Cur(ncj).failed <= ctl.obj.failed /\ Cur(ncj).succeeded <= ctl.obj.succeeded

TimesInv == Uncreated /\ Ahead

Forward == Exists /\ Exists' => /\ Cur(ncj)'.failed >= Cur(ncj).failed
                                /\ Cur(ncj)'.succeeded >= Cur(ncj).succeeded

\* A step keeps both, and moves no recorded time back.
LEMMA TimesStep ==
  ASSUME TypeInv, TimesInv, [Next]_vars
  PROVE  TimesInv' /\ Forward
<1>0. /\ Cur(ncj) \in NixCronJobVersion(clock) /\ Seen(ncj) \in NixCronJobVersion(clock)
      /\ ncj \in Logs(NixCronJobVersion(clock)) /\ clock \in Nat
  BY VersionsTyped DEF TypeInv, Scalars
<1>1. Exists => Cur(ncj).failed \in Nat /\ Cur(ncj).succeeded \in Nat
  BY <1>0 DEF Exists, NixCronJobVersion, NixCronJobBy, NixCronJobObject
<1>2. ASSUME Cur(ncj') = Cur(ncj) PROVE Forward
  BY <1>1, <1>2 DEF Forward, Exists
<1>3. CASE UNCHANGED vars
  BY <1>2, <1>3 DEF vars, TimesInv, Uncreated, Ahead, Exists
<1>4. CASE Cluster
  <2>1. UNCHANGED <<ctl, created>> /\ (ncj' = ncj \/ (~InSync(ncj) /\ ncj' = Delivered(ncj)))
    BY <1>4, ClusterKinds
  <2>2. Cur(ncj') = Cur(ncj)
    BY <1>0, <2>1, LogDelivered
  <2>3. Uncreated'
    <3>1. InSync(<<None>>)
      BY LogOfOne
    <3> QED BY <2>1, <3>1 DEF TimesInv, Uncreated
  <2> QED BY <1>2, <2>1, <2>2, <2>3 DEF TimesInv, Ahead, Exists
<1>5. CASE User
  <2>1. PICK v \in NixCronJobVersion(clock) :
          /\ UserWrites(v)
          /\ \/ /\ ~created /\ created' = TRUE
                /\ v # None /\ v.rolled = None
             \/ /\ Cur(ncj) # None /\ created' = created
                /\ v # None => /\ v.rolled = Cur(ncj).rolled /\ v.trig = Cur(ncj).trig
                               /\ v.forbid = Cur(ncj).forbid
                               /\ v.failed = Cur(ncj).failed
                               /\ v.succeeded = Cur(ncj).succeeded
    BY <1>5, UserTyped
  <2>2. Cur(ncj') = v /\ ctl'.fresh = FALSE
    BY <2>1, UserWritesTyped
  <2>3. Cur(<<None>>) = None
    BY LogOfOne
  <2>4. Uncreated' /\ Ahead'
    BY <2>1, <2>2, <2>3 DEF TimesInv, Uncreated, Ahead
  <2>5. Forward
    BY <1>1, <2>1, <2>2, <2>3 DEF Forward, Exists, TimesInv, Uncreated
  <2> QED BY <2>4, <2>5 DEF TimesInv
<1>6. CASE Reconcile
  <2>1. UNCHANGED <<ncj, created>>
    BY <1>6 DEF Reconcile, history
  <2>2. /\ ctl'.obj = Seen(ncj) /\ Seen(ncj) # None /\ ctl'.fresh = InSync(ncj)
    BY <1>6, ReconcileStarts
  <2>3. created
    <3>1. Seen(<<None>>) = None
      BY LogOfOne
    <3> QED BY <2>2, <3>1 DEF TimesInv, Uncreated
  <2>4. InSync(ncj) => Seen(ncj) = Cur(ncj)
    BY <1>0, LogVersions
  <2>5. Ahead'
    BY <1>1, <2>1, <2>2, <2>4 DEF Ahead, Exists
  <2> QED BY <1>2, <2>1, <2>3, <2>5 DEF TimesInv, Uncreated
<1>7. CASE Crash
  <2>1. ncj' = Relisted(ncj) /\ ctl' = Idle /\ created' = created /\ ctl # Idle
    BY <1>7 DEF Crash, history, At, Idle
  <2>2. Cur(ncj') = Cur(ncj)
    BY <1>0, <2>1, LogRelisted
  <2>3. Ahead'
    BY <2>1 DEF Ahead, Idle
  <2> QED BY <1>2, <2>1, <2>2, <2>3 DEF TimesInv, Uncreated
<1>8. CASE Step \/ GitError \/ ApiError \/ ProjectAnswerLost
  <2>1. /\ ctl \in BusyBy(clock) /\ ctl.pc # "idle" /\ created' = created
        /\ ctl' = Idle \/ GoesOn
        /\ PassWritesNcj
    BY <1>8, PassKinds
  <2>2. created
    BY <2>1 DEF TimesInv, Uncreated, Idle
  <2>3. /\ ctl.obj \in NixCronJobBy(clock)
        /\ ctl.obj.failed \in Nat /\ ctl.obj.succeeded \in Nat
    BY <2>1 DEF BusyBy, NixCronJobBy, NixCronJobObject
  <2>4. ASSUME GoesOn
        PROVE  /\ ctl'.obj \in NixCronJobBy(clock) /\ ctl'.fresh = ctl.fresh
               /\ ctl'.obj.failed \in Nat /\ ctl'.obj.succeeded \in Nat
               /\ ctl.obj.failed <= ctl'.obj.failed /\ ctl.obj.succeeded <= ctl'.obj.succeeded
    BY <2>4 DEF GoesOn, Grown, BusyBy, NixCronJobBy, NixCronJobObject
  <2>5. ASSUME ctl' = Idle PROVE Ahead'
    BY <2>5 DEF Ahead, Idle
  <2>6. CASE ncj' = ncj
    <3>1. ASSUME GoesOn PROVE Ahead'
      <4> SUFFICES ASSUME ctl.fresh, Exists
                   PROVE  Cur(ncj).failed <= ctl'.obj.failed /\ Cur(ncj).succeeded <= ctl'.obj.succeeded
        BY <2>4, <2>6, <3>1 DEF Ahead, Exists
      <4>1. Cur(ncj).failed <= ctl.obj.failed /\ Cur(ncj).succeeded <= ctl.obj.succeeded
        BY <2>1 DEF TimesInv, Ahead
      <4> QED BY <1>1, <2>3, <2>4, <3>1, <4>1
    <3>2. Ahead'
      BY <2>1, <2>5, <3>1
    <3> QED BY <1>2, <2>1, <2>2, <2>6, <3>2 DEF TimesInv, Uncreated
  <2>7. CASE Write(None) /\ ctl' = Idle
    <3>1. Cur(ncj') = None
      BY <2>7, Written DEF NixCronJobVersion
    <3> QED BY <2>1, <2>2, <2>5, <2>7, <3>1 DEF TimesInv, Uncreated, Forward, Exists
  <2>8. CASE ctl.fresh /\ Write(ctl.obj) /\ ctl' = Idle
    <3>1. Cur(ncj') = ctl.obj
      BY <2>3, <2>8, Written DEF NixCronJobVersion
    <3>2. Forward
      BY <1>1, <2>1, <2>3, <2>8, <3>1 DEF TimesInv, Ahead, Forward, Exists
    <3> QED BY <2>1, <2>2, <2>5, <2>8, <3>2 DEF TimesInv, Uncreated
  <2>9. CASE ctl.fresh /\ Write(ctl'.obj) /\ GoesOn
    <3>1. Cur(ncj') = ctl'.obj
      BY <2>4, <2>9, Written DEF NixCronJobVersion
    <3>2. Ahead'
      BY <2>4, <2>9, <3>1 DEF Ahead
    <3>3. Forward
      <4> SUFFICES ASSUME Exists
                   PROVE  ctl'.obj.failed >= Cur(ncj).failed /\ ctl'.obj.succeeded >= Cur(ncj).succeeded
        BY <3>1 DEF Forward, Exists
      <4>1. Cur(ncj).failed <= ctl.obj.failed /\ Cur(ncj).succeeded <= ctl.obj.succeeded
        BY <2>1, <2>9 DEF TimesInv, Ahead
      <4> QED BY <1>1, <2>3, <2>4, <2>9, <4>1
    <3> QED BY <2>1, <2>2, <3>2, <3>3 DEF TimesInv, Uncreated
  <2> QED BY <2>1, <2>6, <2>7, <2>8, <2>9 DEF PassWritesNcj
<1> QED BY <1>3, <1>4, <1>5, <1>6, <1>7, <1>8 DEF Next

\* Both hold from the start on.
LEMMA TimesInvariant ==
  Spec => []TimesInv
<1>1. Init => TimesInv
  BY DEF Init, TimesInv, Uncreated, Ahead, Idle
<1>2. TypeInv /\ TimesInv /\ [Next]_vars => TimesInv'
  BY TimesStep
<1> QED BY <1>1, <1>2, TypeInvariant, PTL DEF Spec

\* lastFailedTime and lastSuccessfulTime of a NixCronJob never move back, whatever Jobs
\* were reaped since, however late the informers are, and whoever else writes it.
THEOREM NixCronJobTimesNeverBack ==
  Spec => TimesNeverBack
<1>1. TypeInv /\ TimesInv /\ [Next]_vars => [Forward]_vars
  BY TimesStep
<1>2. Spec => [][Forward]_vars
  BY <1>1, TypeInvariant, TimesInvariant, PTL DEF Spec
<1> QED BY <1>2 DEF TimesNeverBack, Forward

-----------------------------------------------------------------------------
(* Rolled out was fired. *)

\* The NixCronJobs, and None, whose record is right when the one-off Jobs of the
\* revisions in f were created and l tells whether the creation of one failed.
RightBy(f, l) ==
  {o \in NixCronJobObject : o.trig /\ ~o.forbid /\ ~l => o.rolled \in f \cup {None}} \cup {None}

\* Every version that is stored or cached is right, and so is what a pass has in hand.
Recorded ==
  /\ ncj \in Logs(RightBy(fired, lost))
  /\ ctl.pc # "idle" => ctl.obj \in RightBy(fired, lost)

\* A pass that will record its revision has seen it fired.
Fires ==
  ctl.pc = "observe" /\ ctl.obj.trig /\ ~ctl.obj.forbid /\ ~lost => ctl.rev \in fired

\* Before the Job of a revision is created there is none of its name.
NoJobBefore == \A r \in Revs \ fired : jobs[r] = <<None>>

FiredInv == Recorded /\ Fires /\ NoJobBefore

\* What was right stays right when more is fired or a creation fails.
LEMMA RightStays ==
  ASSUME NEW f, NEW g, f \subseteq g, NEW l \in BOOLEAN, NEW m \in BOOLEAN, l => m
  PROVE  RightBy(f, l) \subseteq RightBy(g, m)
BY DEF RightBy

\* A log of right versions stays one.
LEMMA RightLogStays ==
  ASSUME NEW f, NEW g, f \subseteq g, NEW l \in BOOLEAN, NEW m \in BOOLEAN, l => m,
         NEW log \in Logs(RightBy(f, l))
  PROVE  log \in Logs(RightBy(g, m))
<1>1. RightBy(f, l) \subseteq RightBy(g, m)
  BY RightStays
<1> HIDE DEF RightBy
<1> QED BY <1>1, LogWidened

\* What steps do to the one-off Jobs, the record of their creation and of failures.
LEMMA FiredKinds ==
  ASSUME TypeInv, NoJobBefore, [Next]_vars
  PROVE  NoJobBefore' /\ fired \subseteq fired' /\ (lost => lost')
<1>0. /\ jobs \in [Jobs -> Logs(JobVersion(clock))] /\ Revs \subseteq Jobs /\ clock \in Nat
      /\ Cur(<<None>>) = None /\ InSync(<<None>>) /\ Relisted(<<None>>) = <<None>>
  BY LogOfOne DEF TypeInv, Jobs, Scalars, Relisted
<1>1. ASSUME UNCHANGED <<jobs, fired>> PROVE NoJobBefore'
  BY <1>1 DEF NoJobBefore
<1>2. ASSUME NEW j \in Jobs, NEW l, jobs' = [jobs EXCEPT ![j] = l], fired' = fired,
             j \notin Revs \ fired
      PROVE  NoJobBefore'
  BY <1>0, <1>2 DEF NoJobBefore
<1>3. CASE UNCHANGED vars
  BY <1>1, <1>3 DEF vars
<1>4. CASE Reconcile \/ GitError \/ User
  <2>1. UNCHANGED <<jobs, fired, lost>>
    BY <1>4, UserTyped DEF Reconcile, GitError, history
  <2> QED BY <1>1, <2>1
<1>5. CASE ApiError
  BY <1>1, <1>5 DEF ApiError
<1>9. CASE ProjectAnswerLost
  <2>1. UNCHANGED <<jobs, fired, lost>>
    BY <1>9 DEF ProjectAnswerLost, history
  <2> QED BY <1>1, <2>1
<1>6. CASE Crash
  <2>1. jobs' = [j \in Jobs |-> Relisted(jobs[j])] /\ UNCHANGED <<fired, lost>>
    BY <1>6 DEF Crash, history
  <2> QED BY <1>0, <2>1 DEF NoJobBefore
<1>7. CASE Step
  <2>1. CASE FireImmediateJob
    <3>1. ctl.rev \in Revs
      BY <2>1 DEF FireImmediateJob, At, TypeInv, Resolved, Resolving
    <3>2. lost' = lost
      BY <2>1 DEF FireImmediateJob
    <3>3. CASE PutJob(ctl.rev, [st |-> "running", at |-> 0]) /\ fired' = fired \cup {ctl.rev}
      BY <1>0, <3>1, <3>2, <3>3 DEF NoJobBefore, PutJob
    <3>4. CASE UNCHANGED <<jobs, fired>>
      BY <1>1, <3>2, <3>4
    <3> QED BY <2>1, <3>3, <3>4, Zenon DEF FireImmediateJob
  <2>2. CASE EnsureFinalizer \/ RemoveFinalizer \/ DropOnConflict \/ Suspended \/ Resolve
             \/ Project \/ ProjectFails \/ Observe \/ StatusUpdate
    <3>1. UNCHANGED <<jobs, fired, lost>>
      BY <2>2 DEF EnsureFinalizer, RemoveFinalizer, DropOnConflict, Suspended, Resolve, Project,
                  ProjectFails, Observe, StatusUpdate, history
    <3> QED BY <1>1, <3>1
  <2> QED BY <1>7, <2>1, <2>2 DEF Step
<1>8. CASE Cluster
  <2>1. UNCHANGED <<fired, lost>>
    BY <1>8, ClusterKinds
  <2>2. CASE Push \/ InfraChanges \/ CronSyncs \/ CronCollected \/ DeliverNixCronJob \/ DeliverCronJob
    <3>1. jobs' = jobs
      BY <2>2 DEF Push, InfraChanges, CronSyncs, CronCollected, DeliverNixCronJob, DeliverCronJob
    <3> QED BY <1>1, <2>1, <3>1
  <2>3. ASSUME NEW s \in Slots, CronFires(s) PROVE NoJobBefore'
    <3>1. s \in Jobs /\ s \notin Revs
      BY NamesDiffer DEF Jobs
    <3> QED BY <1>2, <2>1, <2>3, <3>1 DEF CronFires, PutJob
  <2>4. ASSUME NEW j \in Jobs, JobEnds(j) PROVE NoJobBefore'
    <3>1. j \notin Revs \ fired
      BY <1>0, <2>4 DEF JobEnds, Running, NoJobBefore
    <3>2. PICK v : PutJob(j, v)
      BY <2>4, Zenon DEF JobEnds
    <3> QED BY <1>2, <2>1, <3>1, <3>2 DEF PutJob
  <2>5. ASSUME NEW j \in Jobs, JobReaped(j) PROVE NoJobBefore'
    <3>1. j \notin Revs \ fired
      BY <1>0, <2>5 DEF JobReaped, NoJobBefore
    <3> QED BY <1>2, <2>1, <2>5, <3>1 DEF JobReaped, PutJob
  <2>6. ASSUME NEW j \in Jobs, DeliverJob(j) PROVE NoJobBefore'
    <3>1. j \notin Revs \ fired
      BY <1>0, <2>6 DEF DeliverJob, NoJobBefore
    <3> QED BY <1>2, <2>1, <2>6, <3>1 DEF DeliverJob
  <2> QED BY <1>8, <2>1, <2>2, <2>3, <2>4, <2>5, <2>6 DEF Cluster
<1> QED BY <1>3, <1>4, <1>5, <1>6, <1>7, <1>8, <1>9 DEF Next

\* A pass gets to the observation only with its revision fired, where that is asked for.
LEMMA FiresKept ==
  ASSUME TypeInv, FiredInv, Step \/ GitError \/ ApiError \/ ProjectAnswerLost
  PROVE  Fires'
<1>0. /\ ctl \in BusyBy(clock) /\ ctl.obj \in NixCronJobBy(clock) /\ ctl.pc # "idle"
      /\ ctl' = Idle \/ GoesOn
  BY PassKinds DEF BusyBy
<1>1. CASE ctl' = Idle
  BY <1>1 DEF Fires, Idle
<1>2. CASE GoesOn /\ ctl'.pc # "observe"
  BY <1>2 DEF Fires
<1>3. CASE GoesOn /\ ctl'.pc = "observe"
  <2>0. At("project") \/ At("fire")
    BY <1>3 DEF GoesOn
  <2>1. CASE At("project")
    <3>1. Project
      BY <1>0, <1>3, <2>1 DEF At, Step, EnsureFinalizer, RemoveFinalizer, DropOnConflict, Suspended,
                Resolve, ProjectFails, FireImmediateJob, Observe, StatusUpdate, GitError, ApiError,
                ProjectAnswerLost, Idle
    <3>2. ctl' = [ctl EXCEPT !.pc = "observe"]
          /\ ~(RevChanged(ctl.obj, ctl.rev) /\ ctl.obj.trig) /\ UNCHANGED <<fired, lost>>
      BY <1>0, <1>3, <3>1 DEF Project, Goto, BusyBy, history
    <3>3. ctl'.obj = ctl.obj /\ ctl'.rev = ctl.rev /\ ctl.rev \in Revs
      BY <1>0, <2>1, <3>2 DEF BusyBy, TypeInv, Resolved, Resolving, At
    <3>4. ctl.obj \in RightBy(fired, lost) /\ ctl.obj # None
      BY <1>0, NoneIsNoCron DEF FiredInv, Recorded, NixCronJobBy
    <3>5. ASSUME ctl.obj.trig, ~ctl.obj.forbid, ~lost PROVE ctl.rev \in fired
      <4>1. ctl.obj.rolled = ctl.rev
        BY <3>2, <3>5 DEF RevChanged
      <4>2. ctl.obj.rolled \in fired \cup {None}
        BY <3>4, <3>5 DEF RightBy
      <4> QED BY <3>3, <4>1, <4>2, NamesDiffer
    <3> QED BY <3>2, <3>3, <3>5 DEF Fires
  <2>2. CASE At("fire")
    <3>1. FireImmediateJob \/ ApiError
      BY <1>0, <1>3, <2>2 DEF At, Step, EnsureFinalizer, RemoveFinalizer, DropOnConflict, Suspended,
                Resolve, Project, ProjectFails, Observe, StatusUpdate, GitError, ProjectAnswerLost
    <3>2. CASE ApiError
      <4>1. lost' = TRUE
        BY <2>2, <3>2, Zenon DEF ApiError
      <4> QED BY <4>1 DEF Fires
    <3>3. CASE FireImmediateJob
      <4>1. ctl' = [ctl EXCEPT !.pc = "observe"] /\ ctl.rev \in Revs /\ lost' = lost
        BY <2>2, <3>3 DEF FireImmediateJob, Goto, At, TypeInv, Resolved, Resolving
      <4>2. ctl'.obj = ctl.obj /\ ctl'.rev = ctl.rev
        BY <1>0, <4>1 DEF BusyBy
      <4>3. ASSUME ~ctl.obj.forbid PROVE ctl.rev \in fired'
        <5>1. CASE Seen(jobs[ctl.rev]) = None /\ Cur(jobs[ctl.rev]) = None
          <6>1. fired' = fired \cup {ctl.rev}
            BY <3>3, <4>3, <5>1 DEF FireImmediateJob
          <6> QED BY <6>1
        <5>2. CASE ~(Seen(jobs[ctl.rev]) = None /\ Cur(jobs[ctl.rev]) = None)
          <6>1. fired' = fired
            BY <3>3, <5>2 DEF FireImmediateJob
          <6>2. Seen(<<None>>) = None /\ Cur(<<None>>) = None
            BY LogOfOne
          <6> QED BY <4>1, <5>2, <6>1, <6>2 DEF FiredInv, NoJobBefore
        <5> QED BY <5>1, <5>2
      <4> QED BY <4>1, <4>2, <4>3 DEF Fires
    <3> QED BY <3>1, <3>2, <3>3
  <2> QED BY <2>0, <2>1, <2>2
<1> QED BY <1>0, <1>1, <1>2, <1>3

\* Every step keeps the record right.
LEMMA FiredStep ==
  ASSUME TypeInv, FiredInv, [Next]_vars
  PROVE  FiredInv'
<1>0. /\ ncj \in Logs(NixCronJobVersion(clock)) /\ set.ncj \in Nat
      /\ lost \in BOOLEAN /\ clock \in Nat
      /\ ncj \in Logs(RightBy(fired, lost))
      /\ Cur(ncj) \in NixCronJobVersion(clock) /\ Seen(ncj) \in NixCronJobVersion(clock)
      /\ Cur(ncj) \in RightBy(fired, lost) /\ Seen(ncj) \in RightBy(fired, lost)
  <2>1. ncj \in Logs(NixCronJobVersion(clock)) /\ ncj \in Logs(RightBy(fired, lost))
    BY DEF TypeInv, FiredInv, Recorded
  <2>2. Cur(ncj) \in RightBy(fired, lost) /\ Seen(ncj) \in RightBy(fired, lost)
    BY <2>1, LogVersions
  <2>3. set.ncj \in Nat /\ lost \in BOOLEAN /\ clock \in Nat
    BY SettingTyped DEF TypeInv, Scalars
  <2> QED BY <2>1, <2>2, <2>3, VersionsTyped
<1>1. NoJobBefore' /\ fired \subseteq fired' /\ (lost => lost')
  BY FiredKinds DEF FiredInv
<1>2. lost' \in BOOLEAN
  <2>1. TypeInv'
    <3>1. CASE UNCHANGED vars
      BY <3>1 DEF vars, TypeInv, Scalars, Resolved
    <3>2. CASE Next
      BY <3>2, StepTyped, FaultTyped, UserTyped, ClusterTyped DEF Next
    <3> QED BY <3>1, <3>2
  <2> QED BY <2>1 DEF TypeInv, Scalars
<1>3. RightBy(fired, lost) \subseteq RightBy(fired', lost')
  BY <1>0, <1>1, <1>2, RightStays
<1>4. ncj \in Logs(RightBy(fired', lost'))
  BY <1>0, <1>1, <1>2, RightLogStays
<1>5. ASSUME NEW v \in RightBy(fired', lost')
      PROVE  Put(set.ncj, ncj, v) \in Logs(RightBy(fired', lost'))
  BY <1>0, <1>4, <1>5, LogPut
<1>6. CASE UNCHANGED vars
  BY <1>1, <1>6 DEF vars, FiredInv, Recorded, Fires
<1>7. CASE Cluster
  <2>1. /\ UNCHANGED <<ctl, lost, fired>>
        /\ ncj' = ncj \/ (~InSync(ncj) /\ ncj' = Delivered(ncj))
    BY <1>7, ClusterKinds
  <2>2. ncj' \in Logs(RightBy(fired', lost'))
    BY <1>4, <2>1, LogDelivered
  <2> QED BY <1>1, <2>1, <2>2 DEF FiredInv, Recorded, Fires
<1>8. CASE User
  <2>1. PICK v \in NixCronJobVersion(clock) :
          /\ UserWrites(v)
          /\ \/ /\ ~created /\ created' = TRUE
                /\ v # None /\ v.rolled = None
             \/ /\ Cur(ncj) # None /\ created' = created
                /\ v # None => /\ v.rolled = Cur(ncj).rolled /\ v.trig = Cur(ncj).trig
                               /\ v.forbid = Cur(ncj).forbid
                               /\ v.failed = Cur(ncj).failed
                               /\ v.succeeded = Cur(ncj).succeeded
    BY <1>8, UserTyped
  <2>2. UNCHANGED <<fired, lost>>
    BY <1>8, UserTyped
  <2>3. v \in RightBy(fired', lost')
    BY <1>0, <2>1, <2>2 DEF RightBy, NixCronJobVersion, NixCronJobBy
  <2>4. ncj' \in Logs(RightBy(fired', lost'))
    BY <1>5, <2>1, <2>3 DEF UserWrites, Write
  <2>5. ctl'.pc = ctl.pc /\ ctl'.obj = ctl.obj /\ ctl'.rev = ctl.rev
    BY <2>1, UserWritesTyped
  <2> QED BY <1>1, <2>2, <2>4, <2>5 DEF FiredInv, Recorded, Fires
<1>9. CASE Reconcile
  <2>1. /\ ctl'.obj = Seen(ncj) /\ ctl'.pc # "observe"
    BY <1>9, ReconcileStarts
  <2>2. UNCHANGED <<ncj, fired, lost>>
    BY <1>9 DEF Reconcile, history
  <2> QED BY <1>0, <1>1, <2>1, <2>2 DEF FiredInv, Recorded, Fires
<1>10. CASE Crash
  <2>1. ncj' = Relisted(ncj) /\ ctl' = Idle
    BY <1>10 DEF Crash
  <2>2. ncj' \in Logs(RightBy(fired', lost'))
    BY <1>4, <2>1, LogRelisted
  <2> QED BY <1>1, <2>1, <2>2 DEF FiredInv, Recorded, Fires, Idle
<1>11. CASE Step \/ GitError \/ ApiError \/ ProjectAnswerLost
  <2>1. /\ ctl \in BusyBy(clock) /\ ctl.pc # "idle"
        /\ ctl' = Idle \/ GoesOn
        /\ PassWritesNcj
    BY <1>11, PassKinds
  <2>2. Fires'
    BY <1>11, FiresKept
  <2>3. /\ ctl.obj \in RightBy(fired', lost') /\ ctl.obj \in NixCronJobObject /\ ctl.obj # None
        /\ ctl.obj \in RightBy(fired, lost)
    BY <1>3, <2>1, NoneIsNoCron DEF FiredInv, Recorded, BusyBy, NixCronJobBy
  <2>4. ASSUME GoesOn PROVE ctl'.obj \in RightBy(fired', lost')
    <3>1. /\ ctl'.obj \in NixCronJobObject
          /\ ctl'.obj.trig = ctl.obj.trig /\ ctl'.obj.forbid = ctl.obj.forbid
          /\ ctl'.obj.rolled = ctl.obj.rolled \/ (At("observe") /\ ctl'.obj.rolled = ctl.rev)
      BY <2>4 DEF GoesOn, Grown, BusyBy, NixCronJobBy
    <3>2. ASSUME ctl'.obj.trig, ~ctl'.obj.forbid, ~lost'
          PROVE  ctl'.obj.rolled \in fired' \cup {None}
      <4>1. CASE ctl'.obj.rolled = ctl.obj.rolled
        BY <2>3, <3>1, <3>2, <4>1 DEF RightBy
      <4>2. CASE At("observe") /\ ctl'.obj.rolled = ctl.rev
        BY <1>1, <3>1, <3>2, <4>2 DEF FiredInv, Fires, At
      <4> QED BY <3>1, <4>1, <4>2
    <3> QED BY <3>1, <3>2 DEF RightBy
  <2>5. ctl'.pc # "idle" => ctl'.obj \in RightBy(fired', lost')
    BY <2>1, <2>4 DEF Idle
  <2>6. ncj' \in Logs(RightBy(fired', lost'))
    <3>1. CASE ncj' = ncj
      BY <1>4, <3>1
    <3>2. CASE Write(None)
      <4>1. None \in RightBy(fired', lost')
        BY DEF RightBy
      <4> QED BY <1>5, <3>2, <4>1 DEF Write
    <3>3. CASE Write(ctl.obj)
      BY <1>5, <2>3, <3>3 DEF Write
    <3>4. CASE Write(ctl'.obj) /\ GoesOn
      BY <1>5, <2>4, <3>4 DEF Write
    <3> QED BY <2>1, <3>1, <3>2, <3>3, <3>4 DEF PassWritesNcj
  <2> QED BY <1>1, <2>2, <2>5, <2>6 DEF FiredInv, Recorded
<1> QED BY <1>6, <1>7, <1>8, <1>9, <1>10, <1>11 DEF Next

\* A revision that triggers a run and does not forbid it is recorded as rolled out only
\* after its one-off Job was created (fireImmediateJob runs before the status records
\* it), unless a creation failed: with every lag, restart, stall and conflict.
THEOREM NixCronJobRolledOutWasFired ==
  Spec => []RolledOutWasFired
<1>1. Init => FiredInv
  <2> SUFFICES ASSUME Init PROVE FiredInv
    OBVIOUS
  <2>1. ncj \in Logs(RightBy(fired, lost))
    BY LogOfOne DEF Init, RightBy
  <2> QED BY <2>1 DEF Init, FiredInv, Recorded, Fires, NoJobBefore, Idle, Jobs
<1>2. TypeInv /\ FiredInv /\ [Next]_vars => FiredInv'
  BY FiredStep
<1>3. TypeInv /\ FiredInv => RolledOutWasFired
  <2> SUFFICES ASSUME TypeInv, FiredInv PROVE RolledOutWasFired
    OBVIOUS
  <2>1. Cur(ncj) \in RightBy(fired, lost)
    BY LogVersions DEF FiredInv, Recorded
  <2> QED BY <2>1 DEF RolledOutWasFired, Exists, RightBy
<1> QED BY <1>1, <1>2, <1>3, TypeInvariant, PTL DEF Spec
=============================================================================
