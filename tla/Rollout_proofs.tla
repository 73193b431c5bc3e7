--------------------------- MODULE Rollout_proofs ---------------------------
(***************************************************************************)
(* Theorems about the NixDeployment and NixStatefulSet controllers: their  *)
(* types, and that a Ready NixStatefulSet reports a revision that all      *)
(* replicas ran at once, for any number of replicas, pushes, edits, lives  *)
(* and faults, and every lag of the informers of workloads and pods.       *)
(***************************************************************************)
EXTENDS Rollout, Informer_proofs, FiniteSetTheorems

WorkloadVersion == WorkloadObject \cup {None}
NativeVersion == NativeObject \cup {None}
PodsVersion == [Pods -> PodObject \cup {None}]

\* What is projected is a resolved revision.
Resolved == ctl.pc \in {"project", "observe"} => ctl.obj.res \in Revs

\* Type correctness is inductive together with it.
TypeInv == TypeOK /\ Resolved

-----------------------------------------------------------------------------
(* Types of what a step reads and writes. *)

\* The bounds of the setting are numbers, and its specs are specs.
LEMMA SettingTyped ==
  ASSUME TypeOK
  PROVE  /\ set.wl \in Nat /\ set.native \in Nat /\ set.pods \in Nat
         /\ set.specs \subseteq SpecObject
BY SettingsAreSettings DEF TypeOK

\* The stored and the cached objects have their types.
LEMMA VersionsTyped ==
  ASSUME TypeOK
  PROVE  /\ Cur(wl) \in WorkloadVersion /\ Seen(wl) \in WorkloadVersion
         /\ Cur(native) \in NativeVersion /\ Seen(native) \in NativeVersion
         /\ Cur(pods) \in PodsVersion /\ Seen(pods) \in PodsVersion
<1>1. /\ wl \in Logs(WorkloadVersion) /\ native \in Logs(NativeVersion)
      /\ pods \in Logs(PodsVersion)
  BY DEF TypeOK, WorkloadVersion, NativeVersion, PodsVersion
<1> QED BY <1>1, LogVersions

\* A pass that is not idle has a workload in hand.
LEMMA BusyHere ==
  ASSUME TypeOK, ctl.pc # "idle"
  PROVE  ctl \in Busy /\ ctl.obj \in WorkloadObject /\ ctl.fresh \in BOOLEAN
BY DEF TypeOK, Idle, Busy

\* Writes keep the logs and are what the server holds then.
LEMMA WorkloadWritten ==
  ASSUME TypeOK, NEW v \in WorkloadVersion, WriteWorkload(v)
  PROVE  wl' \in Logs(WorkloadVersion) /\ Cur(wl') = v
<1>1. wl \in Logs(WorkloadVersion) /\ set.wl \in Nat
  BY SettingTyped DEF TypeOK, WorkloadVersion
<1> HIDE DEF WorkloadVersion
<1> QED BY <1>1, LogPut DEF WriteWorkload

\* The same of the native workload.
LEMMA NativeWritten ==
  ASSUME TypeOK, NEW v \in NativeVersion, WriteNative(v)
  PROVE  native' \in Logs(NativeVersion) /\ Cur(native') = v
<1>1. native \in Logs(NativeVersion) /\ set.native \in Nat
  BY SettingTyped DEF TypeOK, NativeVersion
<1> HIDE DEF NativeVersion
<1> QED BY <1>1, LogPut DEF WriteNative

\* The same of the pods.
LEMMA PodsWritten ==
  ASSUME TypeOK, NEW v \in PodsVersion, WritePods(v)
  PROVE  pods' \in Logs(PodsVersion) /\ Cur(pods') = v
<1>1. pods \in Logs(PodsVersion) /\ set.pods \in Nat
  BY SettingTyped DEF TypeOK, PodsVersion
<1> HIDE DEF PodsVersion
<1> QED BY <1>1, LogPut DEF WritePods

\* A set of pods is finite, and its size a number.
LEMMA PodsCounted ==
  ASSUME NEW S, S \subseteq Pods
  PROVE  IsFiniteSet(S) /\ Cardinality(S) \in Nat
BY PodsAreFinite, FS_Subset, FS_CardinalityType

\* The pods that stay are the ones that were there, whatever becomes of their builds.
LEMMA PodEdits ==
  ASSUME NEW ps \in PodsVersion, NEW p \in Alive(ps), NEW st \in {"building", "failing", "running"}
  PROVE  /\ [ps EXCEPT ![p].st = st] \in PodsVersion
         /\ Alive([ps EXCEPT ![p].st = st]) = Alive(ps)
<1>1. p \in Pods /\ ps[p] \in PodObject
  BY DEF Alive, PodsVersion
<1> DEFINE o == [ps[p] EXCEPT !.st = st]
           q == [ps EXCEPT ![p] = o]
<1>2. o \in PodObject /\ o # None
  BY <1>1, NoneIsNoObject DEF PodObject
<1>3. [ps EXCEPT ![p].st = st] = q
  OBVIOUS
<1> HIDE DEF o
<1>4. q \in PodsVersion /\ \A x \in Pods : q[x] = IF x = p THEN o ELSE ps[x]
  BY <1>1, <1>2 DEF PodsVersion
<1>5. ps[p] # None
  BY DEF Alive
<1> HIDE DEF q
<1>6. Alive(q) = Alive(ps)
  BY <1>1, <1>2, <1>4, <1>5 DEF Alive
<1> QED BY <1>3, <1>4, <1>6

\* What is projected for a resolved revision is a native workload of that revision.
LEMMA DesiredTyped ==
  ASSUME NEW k \in NativeVersion, NEW o \in WorkloadObject, o.res \in Revs
  PROVE  /\ Desired(k, o) \in NativeObject
         /\ Desired(k, o).rev = o.res /\ Desired(k, o).reps = o.spec.reps
<1>1. CASE k = None
  BY <1>1 DEF Desired, NativeObject, WorkloadObject, SpecObject
<1>2. CASE k # None
  <2>1. k \in NativeObject
    BY <1>2 DEF NativeVersion
  <2> DEFINE g == IF k.rev = o.res /\ k.reps = o.spec.reps THEN k.gen ELSE k.gen + 1
  <2>2. g \in Nat /\ o.spec.reps \in Nat
    BY <2>1 DEF NativeObject, WorkloadObject, SpecObject
  <2>3. Desired(k, o) = [k EXCEPT !.rev = o.res, !.reps = o.spec.reps, !.gen = g]
    BY <1>2, <2>1 DEF Desired, NativeObject
  <2> HIDE DEF g
  <2> QED BY <2>1, <2>2, <2>3 DEF NativeObject
<1> QED BY <1>1, <1>2

\* Whatever is found, a report is a report on the workload in hand.
LEMMA ReportTyped ==
  ASSUME NEW o \in WorkloadObject, o.res \in Revs, NEW k \in NativeObject, NEW p
  PROVE  Report(o, k, p) \in WorkloadObject
<1>1. ASSUME NEW s \in Stalls PROVE Stalled(o, s) \in WorkloadObject
  BY <1>1 DEF Stalled, WorkloadObject, Phases
<1>2. [o EXCEPT !.phase = "Ready", !.rolled = o.res, !.stalled = ""] \in WorkloadObject
  BY DEF WorkloadObject, Phases, Stalls
<1>3. ASSUME NEW ph \in Phases PROVE [o EXCEPT !.phase = ph] \in WorkloadObject
  BY <1>3 DEF WorkloadObject
<1>4. /\ "InitBuildFailing" \in Stalls /\ "ReplicaFailure" \in Stalls
      /\ "Building" \in Phases /\ "Progressing" \in Phases
  BY DEF Stalls, Phases
<1> QED BY <1>1, <1>2, <1>3, <1>4 DEF Report

-----------------------------------------------------------------------------
(* Type correctness. *)

\* Steps that only move the pass along.
LEMMA OnlyPass ==
  ASSUME TypeInv, UNCHANGED <<wl, native, pods, head, infra, set, lives, ran>>, upsets' \in Nat,
         \/ ctl' = Idle
         \/ ctl' \in Busy /\ (ctl'.pc \in {"project", "observe"} => ctl'.obj.res \in Revs)
  PROVE  TypeInv'
BY DEF TypeInv, TypeOK, Resolved, Idle

\* A user's write keeps the pass typed, and outdates it.
LEMMA UserWritesTyped ==
  ASSUME TypeInv, NEW v \in WorkloadVersion, UserWrites(v)
  PROVE  /\ wl' \in Logs(WorkloadVersion) /\ Cur(wl') = v
         /\ ctl' \in Busy \cup {Idle} /\ Resolved'
<1>1. wl' \in Logs(WorkloadVersion) /\ Cur(wl') = v
  BY WorkloadWritten DEF TypeInv, UserWrites
<1>2. CASE ctl \in Busy
  BY <1>1, <1>2 DEF UserWrites, Busy, TypeInv, Resolved
<1>3. CASE ctl = Idle
  <2>1. ctl' = Idle
    BY <1>3 DEF UserWrites, Idle
  <2> QED BY <1>1, <2>1 DEF Idle, Resolved
<1> QED BY <1>2, <1>3 DEF TypeInv, TypeOK

\* Every step of a running pass keeps the types.
LEMMA StepTyped ==
  ASSUME TypeInv, Reconcile \/ Step \/ GitError \/ ApiError \/ Crash
  PROVE  TypeInv'
<1>0. TypeOK /\ Resolved /\ upsets \in Nat
  BY DEF TypeInv, TypeOK
<1>v. /\ Seen(wl) \in WorkloadVersion /\ Seen(native) \in NativeVersion
      /\ Seen(pods) \in PodsVersion
  BY <1>0, VersionsTyped
<1>b. ctl.pc # "idle" => ctl \in Busy /\ ctl.obj \in WorkloadObject
  BY <1>0, BusyHere
<1>1. CASE Reconcile
  <2>1. Seen(wl) \in WorkloadObject
    BY <1>1, <1>v DEF Reconcile, WorkloadVersion
  <2>2. PICK p \in {"release", "resolve", "addFinalizer"} :
          ctl' = [pc |-> p, obj |-> Seen(wl), fresh |-> InSync(wl)]
    BY <1>1 DEF Reconcile
  <2>3. ctl' \in Busy /\ ctl'.pc \notin {"project", "observe"}
    BY <2>1, <2>2 DEF Busy, PCs, InSync
  <2> QED BY <1>0, <1>1, <2>3, OnlyPass DEF Reconcile, env
<1>2. CASE EnsureFinalizer
  <2> DEFINE v == [ctl.obj EXCEPT !.fin = TRUE]
  <2>1. v \in WorkloadObject
    BY <1>2, <1>b DEF EnsureFinalizer, At, WorkloadObject
  <2>2. ctl' = [ctl EXCEPT !.pc = "resolve", !.obj = v] /\ WriteWorkload(v)
    BY <1>2, <1>b DEF EnsureFinalizer, At, Busy
  <2> HIDE DEF v
  <2>3. ctl' \in Busy /\ ctl'.pc = "resolve"
    BY <1>2, <1>b, <2>1, <2>2 DEF EnsureFinalizer, At, Busy, PCs
  <2>4. wl' \in Logs(WorkloadVersion)
    BY <1>0, <2>1, <2>2, WorkloadWritten DEF WorkloadVersion
  <2> QED BY <1>0, <1>2, <2>3, <2>4
          DEF EnsureFinalizer, env, TypeInv, TypeOK, Resolved, WorkloadVersion
<1>3. CASE RemoveFinalizer
  <2>1. wl' \in Logs(WorkloadVersion)
    BY <1>0, <1>3, WorkloadWritten DEF RemoveFinalizer, WorkloadVersion
  <2> QED BY <1>0, <1>3, <2>1
          DEF RemoveFinalizer, env, TypeInv, TypeOK, Resolved, WorkloadVersion, Idle
<1>4. CASE DropOnConflict
  BY <1>0, <1>4, OnlyPass DEF DropOnConflict, env
<1>5. ASSUME At("resolve"), NEW p \in {"status", "project"}, NEW o \in WorkloadObject,
             Continue(p, o), p = "project" => o.res \in Revs
      PROVE  ctl' \in Busy /\ (ctl'.pc \in {"project", "observe"} => ctl'.obj.res \in Revs)
  <2> DEFINE v == [o EXCEPT !.seen = o.gen]
  <2>1. v \in WorkloadObject /\ v.res = o.res
    BY DEF WorkloadObject
  <2>2. ctl' = [ctl EXCEPT !.pc = p, !.obj = v]
    BY <1>5 DEF Continue
  <2> HIDE DEF v
  <2> QED BY <1>5, <1>b, <2>1, <2>2 DEF At, Busy, PCs
<1>6. CASE Suspended
  <2>1. [ctl.obj EXCEPT !.phase = "Suspended"] \in WorkloadObject
    BY <1>6, <1>b DEF Suspended, At, WorkloadObject, Phases
  <2> QED BY <1>0, <1>5, <1>6, <2>1, OnlyPass DEF Suspended, env
<1>7. CASE Resolve
  <2> DEFINE o == [ctl.obj EXCEPT !.res = head]
  <2>1. o \in WorkloadObject /\ o.res \in Revs
    BY <1>0, <1>7, <1>b DEF Resolve, At, WorkloadObject, TypeOK
  <2> HIDE DEF o
  <2>2. Stalled(o, "InfraNotReady") \in WorkloadObject
    BY <2>1 DEF Stalled, WorkloadObject, Phases, Stalls
  <2>3. Continue("project", o) \/ Continue("status", Stalled(o, "InfraNotReady"))
    BY <1>7 DEF Resolve, o
  <2> QED BY <1>0, <1>5, <1>7, <2>1, <2>2, <2>3, OnlyPass DEF Resolve, env
<1>8. CASE Project
  <2>1. ctl \in Busy /\ ctl.obj \in WorkloadObject /\ ctl.obj.res \in Revs
    BY <1>0, <1>8, <1>b DEF Project, At, Resolved
  <2>2. Desired(Seen(native), ctl.obj) \in NativeVersion
    BY <1>v, <2>1, DesiredTyped DEF NativeVersion
  <2>3. native' \in Logs(NativeVersion)
    BY <1>0, <1>8, <2>2, NativeWritten DEF Project
  <2>4. ctl' \in Busy /\ ctl'.obj.res \in Revs
    BY <1>8, <2>1 DEF Project, Busy, PCs
  <2> QED BY <1>0, <1>8, <2>3, <2>4 DEF Project, env, TypeInv, TypeOK, Resolved, NativeVersion
<1>9. CASE ProjectFails
  BY <1>0, <1>9, OnlyPass DEF ProjectFails, env
<1>10. CASE Observe
  <2>1. ctl \in Busy /\ ctl.obj \in WorkloadObject /\ ctl.obj.res \in Revs
    BY <1>0, <1>10, <1>b DEF Observe, At, Resolved
  <2>2. CASE Seen(native) = None
    BY <1>0, <1>10, <2>2, OnlyPass DEF Observe, env
  <2>3. CASE Seen(native) # None
    <3> DEFINE v == Report(ctl.obj, Seen(native), ObservePodInit(Seen(pods), ctl.obj.res))
    <3>1. v \in WorkloadObject
      BY <1>v, <2>1, <2>3, ReportTyped DEF NativeVersion
    <3>2. ctl' = [ctl EXCEPT !.pc = "status", !.obj = v]
      BY <1>10, <2>3 DEF Observe
    <3> HIDE DEF v
    <3>3. ctl' \in Busy /\ ctl'.pc = "status"
      BY <2>1, <3>1, <3>2 DEF Busy, PCs
    <3> QED BY <1>0, <1>10, <3>3, OnlyPass DEF Observe, env
  <2> QED BY <2>2, <2>3
<1>11. CASE StatusUpdate
  <2>1. ctl.obj \in WorkloadVersion
    BY <1>11, <1>b DEF StatusUpdate, At, WorkloadVersion
  <2>2. wl' \in Logs(WorkloadVersion)
    BY <1>0, <1>11, <2>1, WorkloadWritten DEF StatusUpdate
  <2> QED BY <1>0, <1>11, <2>2
          DEF StatusUpdate, env, TypeInv, TypeOK, Resolved, WorkloadVersion, Idle
<1>12. CASE GitError
  <2>1. Stalled(ctl.obj, "GitError") \in WorkloadObject
    BY <1>12, <1>b DEF GitError, At, Stalled, WorkloadObject, Phases, Stalls
  <2>2. upsets' \in Nat
    BY <1>0, <1>12 DEF GitError, Disturb
  <2> QED BY <1>5, <1>12, <2>1, <2>2, OnlyPass DEF GitError
<1>13. CASE ApiError
  BY <1>0, <1>13, OnlyPass DEF ApiError, Disturb
<1>14. CASE Crash
  <2>1. /\ wl' \in Logs(WorkloadVersion) /\ native' \in Logs(NativeVersion)
        /\ pods' \in Logs(PodsVersion)
    BY <1>0, <1>14, LogRelisted DEF Crash, TypeOK, WorkloadVersion, NativeVersion, PodsVersion
  <2>2. upsets' \in Nat
    BY <1>0, <1>14 DEF Crash, Disturb
  <2> QED BY <1>0, <1>14, <2>1, <2>2
          DEF Crash, TypeInv, TypeOK, Resolved, WorkloadVersion, NativeVersion, PodsVersion, Idle
<1> QED BY <1>1, <1>2, <1>3, <1>4, <1>6, <1>7, <1>8, <1>9, <1>10, <1>11, <1>12, <1>13, <1>14
        DEF Step

\* So do users, the repository, the infrastructure and Kubernetes.
LEMMA OthersTyped ==
  ASSUME TypeInv, Kubernetes \/ Environment
  PROVE  TypeInv'
<1>0. TypeOK /\ Resolved /\ upsets \in Nat /\ lives \in Nat /\ ran \subseteq Revs
  BY DEF TypeInv, TypeOK
<1>s. set.specs \subseteq SpecObject
  BY <1>0, SettingTyped
<1>v. /\ Cur(wl) \in WorkloadVersion /\ Cur(native) \in NativeVersion
      /\ Cur(pods) \in PodsVersion
  BY <1>0, VersionsTyped
<1>p. NoPods \in PodsVersion
  BY DEF NoPods, PodsVersion
<1>1. CASE NativeReports
  <2> DEFINE k == Cur(native)
             u == Cardinality(Updated(Cur(pods), k.rev))
             d == Cardinality(ReadyPods(Cur(pods)))
             n == [k EXCEPT !.obs = k.gen, !.upd = u, !.rdy = d]
  <2>1. k \in NativeObject
    BY <1>1, <1>v DEF NativeReports, NativeVersion
  <2>2. u \in Nat /\ d \in Nat
    BY PodsCounted DEF Updated, ReadyPods, Alive
  <2>3. WriteNative(n) /\ UNCHANGED <<wl, pods, ctl, head, infra, set, lives, upsets>>
    BY <1>1 DEF NativeReports
  <2>4. ran' \subseteq Revs
    <3>1. k.rev \in Revs
      BY <2>1 DEF NativeObject
    <3> QED BY <1>0, <1>1, <3>1 DEF NativeReports
  <2> HIDE DEF u, d
  <2>5. n \in NativeVersion
    BY <2>1, <2>2 DEF NativeObject, NativeVersion
  <2> HIDE DEF k, n
  <2>6. native' \in Logs(NativeVersion)
    BY <1>0, <2>3, <2>5, NativeWritten
  <2> QED BY <1>0, <2>3, <2>4, <2>6 DEF TypeInv, TypeOK, Resolved, NativeVersion
<1>2. ASSUME NEW q \in PodsVersion, WritePods(q),
             UNCHANGED <<wl, native, ctl, head, infra, set, lives, ran, upsets>>
      PROVE  TypeInv'
  <2>1. pods' \in Logs(PodsVersion)
    BY <1>0, <1>2, PodsWritten
  <2> QED BY <1>0, <1>2, <2>1 DEF TypeInv, TypeOK, Resolved, PodsVersion
<1>3. CASE PodStarts
  <2> DEFINE k == Cur(native)
             p == CHOOSE p \in Pods \ Alive(Cur(pods)) : TRUE
             o == [rev |-> k.rev, st |-> "building"]
  <2>1. k \in NativeObject /\ p \in Pods
    BY <1>3, <1>v DEF PodStarts, NativeVersion
  <2>2. o \in PodObject
    BY <2>1 DEF NativeObject, PodObject
  <2>3. WritePods([Cur(pods) EXCEPT ![p] = o])
    BY <1>3 DEF PodStarts
  <2> HIDE DEF k, p, o
  <2>4. [Cur(pods) EXCEPT ![p] = o] \in PodsVersion
    BY <1>v, <2>1, <2>2 DEF PodsVersion
  <2> QED BY <1>2, <1>3, <2>3, <2>4 DEF PodStarts, env
<1>4. CASE PodStops
  <2>1. PICK p \in Pods : WritePods([Cur(pods) EXCEPT ![p] = None])
    BY <1>4 DEF PodStops, Alive
  <2>2. [Cur(pods) EXCEPT ![p] = None] \in PodsVersion
    BY <1>v DEF PodsVersion
  <2> QED BY <1>2, <1>4, <2>1, <2>2 DEF PodStops, env
<1>5. CASE BuildEnds \/ BuildRetries
  <2>1. PICK p \in Alive(Cur(pods)), s \in {"building", "failing", "running"} :
          WritePods([Cur(pods) EXCEPT ![p].st = s])
    BY <1>5 DEF BuildEnds, BuildRetries
  <2>2. [Cur(pods) EXCEPT ![p].st = s] \in PodsVersion
    BY <1>v, PodEdits
  <2> QED BY <1>2, <1>5, <2>1, <2>2 DEF BuildEnds, BuildRetries, env
<1>7. CASE ReplicasFail
  <2>1. [Cur(native) EXCEPT !.fails = ~@] \in NativeVersion
    BY <1>7, <1>v DEF ReplicasFail, NativeVersion, NativeObject
  <2>2. native' \in Logs(NativeVersion) /\ upsets' \in Nat
    BY <1>0, <1>7, <2>1, NativeWritten DEF ReplicasFail, Disturb
  <2> QED BY <1>0, <1>7, <2>2 DEF ReplicasFail, TypeInv, TypeOK, Resolved, NativeVersion
<1>8. CASE NativeCollected
  <2>1. native' \in Logs(NativeVersion) /\ pods' \in Logs(PodsVersion)
    BY <1>0, <1>8, <1>p, NativeWritten, PodsWritten DEF NativeCollected, NativeVersion
  <2> QED BY <1>0, <1>8, <2>1
          DEF NativeCollected, env, TypeInv, TypeOK, Resolved, NativeVersion, PodsVersion
<1>9. CASE DeliverWorkload
  <2>1. wl' \in Logs(WorkloadVersion)
    BY <1>0, <1>9, LogDelivered DEF DeliverWorkload, TypeOK, WorkloadVersion
  <2> QED BY <1>0, <1>9, <2>1 DEF DeliverWorkload, env, TypeInv, TypeOK, Resolved, WorkloadVersion
<1>10. CASE DeliverNative
  <2>1. native' \in Logs(NativeVersion)
    BY <1>0, <1>10, LogDelivered DEF DeliverNative, TypeOK, NativeVersion
  <2> QED BY <1>0, <1>10, <2>1 DEF DeliverNative, env, TypeInv, TypeOK, Resolved, NativeVersion
<1>11. CASE DeliverPods
  <2>1. pods' \in Logs(PodsVersion)
    BY <1>0, <1>11, LogDelivered DEF DeliverPods, TypeOK, PodsVersion
  <2> QED BY <1>0, <1>11, <2>1 DEF DeliverPods, env, TypeInv, TypeOK, Resolved, PodsVersion
<1>12. ASSUME NEW v \in WorkloadVersion, UserWrites(v), lives' \in Nat, upsets' \in Nat,
              UNCHANGED <<native, pods, head, infra, set, ran>>
       PROVE  TypeInv'
  <2>1. wl' \in Logs(WorkloadVersion) /\ ctl' \in Busy \cup {Idle} /\ Resolved'
    BY <1>12, UserWritesTyped
  <2> QED BY <1>0, <1>12, <2>1 DEF TypeInv, TypeOK, WorkloadVersion
<1>13. CASE CreateWorkload
  <2> DEFINE new(s) ==
        [uid |-> lives + 1, del |-> FALSE, fin |-> FALSE, gen |-> 1, spec |-> s,
         phase |-> "", stalled |-> "", res |-> None, rolled |-> None, seen |-> 0]
  <2>1. PICK s \in set.specs : UserWrites(new(s))
    BY <1>13 DEF CreateWorkload
  <2>2. s \in SpecObject /\ lives + 1 \in Nat
    BY <1>0, <1>s
  <2>3. new(s) \in WorkloadVersion
    BY <2>2 DEF WorkloadVersion, WorkloadObject, Phases, Stalls
  <2>4. lives' = lives + 1 /\ UNCHANGED <<native, pods, head, infra, set, ran, upsets>>
    BY <1>13, Zenon DEF CreateWorkload
  <2> HIDE DEF new
  <2> QED BY <1>0, <1>12, <2>1, <2>2, <2>3, <2>4
<1>14. CASE EditWorkload
  <2>1. PICK s \in set.specs : UserWrites([Cur(wl) EXCEPT !.spec = s, !.gen = @ + 1])
    BY <1>14 DEF EditWorkload
  <2>2. s \in SpecObject /\ Cur(wl) \in WorkloadObject
    BY <1>14, <1>s, <1>v DEF EditWorkload, WorkloadVersion
  <2>3. [Cur(wl) EXCEPT !.spec = s, !.gen = @ + 1] \in WorkloadVersion
    <3>1. PICK g \in Nat : g = Cur(wl).gen + 1
      BY <2>2 DEF WorkloadObject
    <3>2. [Cur(wl) EXCEPT !.spec = s, !.gen = g] \in WorkloadVersion
      BY <2>2 DEF WorkloadVersion, WorkloadObject
    <3> QED BY <3>1, <3>2
  <2> QED BY <1>0, <1>12, <1>14, <2>1, <2>3 DEF EditWorkload, Disturb
<1>15. CASE DeleteWorkload
  <2> DEFINE v == IF Cur(wl).fin THEN [Cur(wl) EXCEPT !.del = TRUE] ELSE None
  <2>1. v \in WorkloadVersion
    BY <1>15, <1>v DEF DeleteWorkload, WorkloadVersion, WorkloadObject
  <2>2. UserWrites(v)
    BY <1>15 DEF DeleteWorkload
  <2> HIDE DEF v
  <2> QED BY <1>0, <1>12, <1>15, <2>1, <2>2 DEF DeleteWorkload, env
<1>16. CASE Push
  <2>1. head' \in Revs /\ upsets' \in Nat
    BY <1>0, <1>16 DEF Push, Disturb
  <2> QED BY <1>0, <1>16, <2>1 DEF Push, TypeInv, TypeOK, Resolved
<1>17. CASE InfraChanges
  <2>1. upsets' \in Nat /\ infra' \in BOOLEAN
    BY <1>0, <1>17 DEF InfraChanges
  <2> QED BY <1>0, <1>17, <2>1 DEF InfraChanges, TypeInv, TypeOK, Resolved
<1> QED BY <1>1, <1>3, <1>4, <1>5, <1>7, <1>8, <1>9, <1>10, <1>11, <1>13, <1>14, <1>15, <1>16, <1>17
        DEF Kubernetes, Environment

\* The types hold throughout.
LEMMA TypeInvariant == Spec => []TypeInv
<1>1. Init => TypeInv
  <2> SUFFICES ASSUME Init PROVE TypeInv
    OBVIOUS
  <2>1. /\ wl \in Logs(WorkloadVersion) /\ native \in Logs(NativeVersion)
        /\ pods \in Logs(PodsVersion)
    BY LogOfOne DEF Init, WorkloadVersion, NativeVersion, NoPods, PodsVersion
  <2>2. head \in Revs
    BY RevsAreRevs DEF Init
  <2> QED BY <2>1, <2>2
          DEF Init, TypeInv, TypeOK, Resolved, WorkloadVersion, NativeVersion, PodsVersion, Idle
<1>2. TypeInv /\ [Next]_vars => TypeInv'
  <2> SUFFICES ASSUME TypeInv, [Next]_vars PROVE TypeInv'
    OBVIOUS
  <2>1. CASE Next
    BY <2>1, StepTyped, OthersTyped DEF Next
  <2>2. CASE UNCHANGED vars
    BY <2>2 DEF vars, TypeInv, TypeOK, Resolved
  <2> QED BY <2>1, <2>2
<1> QED BY <1>1, <1>2, PTL DEF Spec

\* The workload, the native workload, its pods and the pass keep their types; in
\* particular no pass projects a revision that it has not resolved.
THEOREM RolloutTypeCorrect == Spec => []TypeOK
BY TypeInvariant, PTL DEF TypeInv

-----------------------------------------------------------------------------
(* A Ready report tells of a revision that ran. *)

\* Workloads with specs of S whose reports do not claim more than R.
Honest(R, S) ==
  {o \in WorkloadObject : o.spec \in S /\ (o.phase = "Ready" => o.rolled \in R)}

\* The counters of a native workload prove its revision, once they are those of its
\* generation.
RunsProved(k, R) ==
  k # None => /\ k.obs <= k.gen
              /\ k.obs = k.gen /\ k.upd = k.reps /\ k.rdy = k.reps /\ k.reps > 0
                   => k.rev \in R

\* Where the informer is not behind, a pass observes what it projected, or nothing.
NativeFollowed ==
  /\ InSync(native)
  /\ RunsProved(Cur(native), ran)
  /\ At("observe") /\ Cur(native) # None => Cur(native).rev = ctl.obj.res

\* Every version of the workload, old ones and the working copy included, is honest.
ReportsHonest ==
  /\ wl \in Logs(Honest(ran, set.specs) \cup {None})
  /\ ctl.pc # "idle" => ctl.obj \in Honest(ran, set.specs)

\* No more pods than replicas, whose number is that of a spec.
PodsFit ==
  LET alive == Alive(Cur(pods)) IN
  IF Cur(native) = None THEN alive = {}
  ELSE /\ Cardinality(alive) <= Cur(native).reps
       /\ \E v \in set.specs : Cur(native).reps = v.reps

\* What the claim takes: pods that are replaced one by one, and as many replicas at
\* all times.
Paced ==
  /\ set.kind = "StatefulSet" /\ set.native = 0
  /\ \A v, w \in set.specs : v.reps = w.reps

RanInv == Paced => NativeFollowed /\ ReportsHonest /\ PodsFit

\* With no lag, a write of the native workload is seen at once.
LEMMA NativeSeenAtOnce ==
  ASSUME TypeOK, set.native = 0, InSync(native), NEW v \in NativeVersion, WriteNative(v)
  PROVE  InSync(native') /\ Cur(native') = v
<1>1. native \in Logs(NativeVersion)
  BY DEF TypeOK, NativeVersion
<1>2. Cur(native') = v
  BY NativeWritten
<1> HIDE DEF NativeVersion
<1>3. InSync(native')
  BY <1>1, LogNoLag DEF WriteNative
<1> QED BY <1>2, <1>3

\* A new revision or number of replicas starts a generation that nothing has proved.
LEMMA DesiredProved ==
  ASSUME NEW k \in NativeVersion, NEW o \in WorkloadObject, o.res \in Revs, NEW R,
         RunsProved(k, R)
  PROVE  RunsProved(Desired(k, o), R)
<1>1. CASE k = None
  BY <1>1 DEF Desired, RunsProved
<1>2. CASE k # None /\ k.rev = o.res /\ k.reps = o.spec.reps
  <2>1. k \in NativeObject
    BY <1>2 DEF NativeVersion
  <2>2. Desired(k, o) = k
    BY <1>2, <2>1 DEF Desired, NativeObject
  <2> QED BY <2>2
<1>3. CASE k # None /\ ~(k.rev = o.res /\ k.reps = o.spec.reps)
  <2>1. k \in NativeObject
    BY <1>3 DEF NativeVersion
  <2>2. Desired(k, o) = [k EXCEPT !.rev = o.res, !.reps = o.spec.reps, !.gen = k.gen + 1]
    BY <1>3 DEF Desired
  <2>3. /\ Desired(k, o).obs = k.obs /\ Desired(k, o).gen = k.gen + 1
        /\ k.obs \in Nat /\ k.gen \in Nat /\ k.obs <= k.gen
    BY <1>3, <2>1, <2>2 DEF NativeObject, RunsProved
  <2> QED BY <2>3 DEF RunsProved
<1> QED BY <1>1, <1>2, <1>3

\* The set of revisions that ran only grows.
LEMMA RanGrows == ASSUME Next PROVE ran \subseteq ran' /\ set' = set
BY Zenon DEF Next, Reconcile, Step, EnsureFinalizer, RemoveFinalizer, DropOnConflict, Suspended,
       Resolve, Project, ProjectFails, Observe, StatusUpdate, GitError, ApiError, Crash,
       Kubernetes, Environment, NativeReports, PodStarts, PodStops, BuildEnds,
       NativeCollected, DeliverWorkload, DeliverNative, DeliverPods, CreateWorkload,
       EditWorkload, DeleteWorkload, Push, InfraChanges, BuildRetries, ReplicasFail, env

\* Where the pods are no more than the replicas, counters that agree with their number
\* count the same pods.
LEMMA AllRun ==
  ASSUME NEW ps, NEW rv, NEW n \in Nat, Cardinality(Alive(ps)) <= n,
         Cardinality(Updated(ps, rv)) = n, Cardinality(ReadyPods(ps)) = n
  PROVE  Cardinality(Updated(ps, rv) \cap ReadyPods(ps)) = n
<1> DEFINE A == Alive(ps)
           U == Updated(ps, rv)
           D == ReadyPods(ps)
<1>1. U \in SUBSET A /\ D \in SUBSET A /\ A \subseteq Pods
  BY DEF Updated, ReadyPods, Alive
<1>2. IsFiniteSet(A) /\ Cardinality(A) \in Nat
  BY <1>1, PodsCounted
<1>3. Cardinality(U) <= Cardinality(A) /\ (Cardinality(A) = Cardinality(U) => A = U)
  BY <1>1, <1>2, FS_Subset
<1>4. Cardinality(D) <= Cardinality(A) /\ (Cardinality(A) = Cardinality(D) => A = D)
  BY <1>1, <1>2, FS_Subset
<1> HIDE DEF A, U, D
<1>5. Cardinality(U) = n /\ Cardinality(D) = n /\ Cardinality(A) <= n
  BY DEF A, U, D
<1>6. Cardinality(A) = n
  BY <1>2, <1>3, <1>5
<1>7. U \cap D = U
  BY <1>3, <1>4, <1>5, <1>6
<1> QED BY <1>5, <1>7 DEF U, D

\* Where the native workload stays and no pass arrives at observe.
LEMMA NativeStays ==
  ASSUME NativeFollowed, UNCHANGED <<native, ran>>,
         ctl'.pc # "observe" \/ (At("observe") /\ ctl'.obj.res = ctl.obj.res)
  PROVE  NativeFollowed'
BY DEF NativeFollowed, RunsProved, At

\* Every step keeps what is known of the native workload.
LEMMA NativeKept ==
  ASSUME TypeInv, set.native = 0, NativeFollowed, PodsFit, Next
  PROVE  NativeFollowed'
<1>0. /\ TypeOK /\ Resolved /\ InSync(native) /\ RunsProved(Cur(native), ran)
      /\ Cur(native) \in NativeVersion /\ Seen(native) = Cur(native)
  <2>1. native \in Logs(NativeVersion)
    BY DEF TypeInv, TypeOK, NativeVersion
  <2> QED BY <2>1, LogVersions DEF TypeInv, NativeFollowed
<1>1. CASE Reconcile \/ EnsureFinalizer \/ RemoveFinalizer \/ DropOnConflict \/ Suspended
             \/ Resolve \/ ProjectFails \/ StatusUpdate \/ GitError \/ ApiError
  <2>1. ctl'.pc # "observe"
    <3>1. CASE EnsureFinalizer \/ Suspended \/ Resolve \/ GitError
      <4>1. ctl \in Busy
        BY <1>0, <3>1, BusyHere DEF EnsureFinalizer, Suspended, Resolve, GitError, At
      <4> QED BY <3>1, <4>1 DEF EnsureFinalizer, Suspended, Resolve, GitError, Continue, Busy
    <3>2. CASE Reconcile \/ RemoveFinalizer \/ DropOnConflict \/ ProjectFails \/ StatusUpdate
                 \/ ApiError
      BY <3>2 DEF Reconcile, RemoveFinalizer, DropOnConflict, ProjectFails, StatusUpdate,
                  ApiError, Idle
    <3> QED BY <1>1, <3>1, <3>2
  <2>2. UNCHANGED <<native, ran>>
    BY <1>1 DEF Reconcile, EnsureFinalizer, RemoveFinalizer, DropOnConflict, Suspended,
         Resolve, ProjectFails, StatusUpdate, GitError, ApiError, env
  <2> QED BY <2>1, <2>2, NativeStays
<1>2. CASE Observe
  <2>1. ctl'.pc # "observe"
    <3>1. ctl \in Busy
      BY <1>0, <1>2, BusyHere DEF Observe, At
    <3> QED BY <1>2, <3>1 DEF Observe, Idle, Busy
  <2> QED BY <1>2, <2>1, NativeStays DEF Observe, env
<1>3. CASE Project
  <2>1. ctl \in Busy /\ ctl.obj \in WorkloadObject /\ ctl.obj.res \in Revs
    BY <1>0, <1>3, BusyHere DEF Project, At, Resolved
  <2> DEFINE n == Desired(Cur(native), ctl.obj)
  <2>2. n \in NativeVersion /\ n.rev = ctl.obj.res
    BY <1>0, <2>1, DesiredTyped DEF NativeVersion
  <2>3. RunsProved(n, ran)
    BY <1>0, <2>1, DesiredProved
  <2>4. WriteNative(n) /\ ctl'.obj = ctl.obj /\ ran' = ran
    BY <1>0, <1>3, <2>1 DEF Project, env, Busy
  <2> HIDE DEF n
  <2>5. InSync(native') /\ Cur(native') = n
    BY <1>0, <2>2, <2>4, NativeSeenAtOnce
  <2> QED BY <2>2, <2>3, <2>4, <2>5 DEF NativeFollowed, RunsProved, At
<1>4. CASE Crash
  <2>1. InSync(native') /\ Cur(native') = Cur(native)
    BY <1>0, <1>4, LogRelisted DEF Crash, TypeOK
  <2> QED BY <1>0, <1>4, <2>1 DEF Crash, NativeFollowed, RunsProved, At, Idle
<1>5. ASSUME NEW n \in NativeVersion, WriteNative(n), UNCHANGED ctl, RunsProved(n, ran'),
             n = None \/ (Cur(native) # None /\ n.rev = Cur(native).rev)
      PROVE  NativeFollowed'
  <2>1. InSync(native') /\ Cur(native') = n
    BY <1>0, <1>5, NativeSeenAtOnce
  <2> QED BY <1>5, <2>1 DEF NativeFollowed, RunsProved, At
<1>6. CASE NativeReports
  <2> DEFINE k == Cur(native)
             ps == Cur(pods)
             u == Cardinality(Updated(ps, k.rev))
             d == Cardinality(ReadyPods(ps))
             n == [k EXCEPT !.obs = k.gen, !.upd = u, !.rdy = d]
  <2>1. k \in NativeObject /\ k # None
    BY <1>0, <1>6 DEF NativeReports, NativeVersion
  <2>2. u \in Nat /\ d \in Nat /\ k.reps \in Nat /\ k.gen \in Nat
    <3>1. k.reps \in Nat /\ k.gen \in Nat
      BY <2>1 DEF NativeObject
    <3>2. Updated(ps, k.rev) \subseteq Pods /\ ReadyPods(ps) \subseteq Pods
      BY DEF Updated, ReadyPods, Alive
    <3> QED BY <3>1, <3>2, PodsCounted
  <2>3. u = k.reps /\ d = k.reps /\ k.reps > 0 => k.rev \in ran'
    <3>1. u = k.reps /\ d = k.reps => Cardinality(Updated(ps, k.rev) \cap ReadyPods(ps)) = k.reps
      BY <2>1, <2>2, AllRun DEF PodsFit
    <3> QED BY <1>6, <3>1 DEF NativeReports
  <2>4. WriteNative(n) /\ UNCHANGED ctl
    BY <1>6 DEF NativeReports
  <2> HIDE DEF k, u, d
  <2>5. /\ n \in NativeObject /\ n.rev = k.rev /\ n.obs = k.gen /\ n.gen = k.gen
        /\ n.upd = u /\ n.rdy = d /\ n.reps = k.reps
    BY <2>1, <2>2 DEF NativeObject
  <2> HIDE DEF n
  <2>6. RunsProved(n, ran')
    BY <2>2, <2>3, <2>5 DEF RunsProved
  <2> QED BY <1>5, <2>1, <2>4, <2>5, <2>6 DEF NativeVersion, k
<1>8. CASE ReplicasFail
  <2> DEFINE k == Cur(native)
             n == [k EXCEPT !.fails = ~@]
  <2>1. k \in NativeObject /\ k # None
    BY <1>0, <1>8 DEF ReplicasFail, NativeVersion
  <2>2. WriteNative(n) /\ UNCHANGED <<ctl, ran>>
    BY <1>8 DEF ReplicasFail
  <2> HIDE DEF k
  <2>4. /\ n \in NativeObject /\ n.rev = k.rev /\ n.obs = k.obs /\ n.gen = k.gen
        /\ n.upd = k.upd /\ n.rdy = k.rdy /\ n.reps = k.reps
    BY <2>1 DEF NativeObject
  <2> HIDE DEF n
  <2>5. RunsProved(n, ran')
    BY <1>0, <2>1, <2>2, <2>4 DEF RunsProved, k
  <2> QED BY <1>5, <2>1, <2>2, <2>4, <2>5 DEF NativeVersion, k
<1>9. CASE NativeCollected
  BY <1>5, <1>9 DEF NativeCollected, NativeVersion, RunsProved
<1>10. CASE DeliverNative
  BY <1>0, <1>10 DEF DeliverNative
<1>11. CASE PodStarts \/ PodStops \/ BuildEnds \/ BuildRetries \/ DeliverWorkload
              \/ DeliverPods \/ Push \/ InfraChanges
  BY <1>11, NativeStays
     DEF PodStarts, PodStops, BuildEnds, BuildRetries, DeliverWorkload, DeliverPods, Push,
         InfraChanges, env, At
<1>12. CASE CreateWorkload \/ EditWorkload \/ DeleteWorkload
  <2>1. ctl' = [ctl EXCEPT !.fresh = FALSE] /\ UNCHANGED <<native, ran>>
    BY <1>12, Zenon DEF CreateWorkload, EditWorkload, DeleteWorkload, UserWrites, env
  <2>2. ctl \in Busy \cup {Idle}
    BY <1>0 DEF TypeOK
  <2>3. ctl'.pc = ctl.pc /\ ctl'.obj = ctl.obj
    BY <2>1, <2>2 DEF Busy, Idle
  <2> QED BY <2>1, <2>3, NativeStays DEF At
<1> QED BY <1>1, <1>2, <1>3, <1>4, <1>6, <1>8, <1>9, <1>10, <1>11, <1>12
        DEF Next, Step, Kubernetes, Environment

\* Where neither native workload nor pods change, or only the former's report.
LEMMA PodsFitStays ==
  ASSUME PodsFit, UNCHANGED set, Alive(Cur(pods')) = Alive(Cur(pods)),
         \/ Cur(native') = Cur(native)
         \/ /\ Cur(native) # None /\ Cur(native') # None
            /\ Cur(native').reps = Cur(native).reps
  PROVE  PodsFit'
BY DEF PodsFit

\* Every step keeps the pods within the replicas.
LEMMA PodsFitKept ==
  ASSUME TypeInv, Paced, ReportsHonest, PodsFit, Next
  PROVE  PodsFit'
<1> DEFINE k == Cur(native)
           ps == Cur(pods)
<1>0. /\ TypeOK /\ Resolved /\ UNCHANGED set
      /\ k \in NativeVersion /\ ps \in PodsVersion /\ wl \in Logs(WorkloadVersion)
      /\ native \in Logs(NativeVersion) /\ pods \in Logs(PodsVersion)
  BY VersionsTyped, RanGrows
     DEF TypeInv, TypeOK, WorkloadVersion, NativeVersion, PodsVersion
<1>a. Alive(ps) \subseteq Pods
  BY DEF Alive
<1>c. IsFiniteSet(Alive(ps)) /\ Cardinality(Alive(ps)) \in Nat
  BY <1>a, PodsCounted
<1>1. CASE UNCHANGED <<native, pods>>
  BY <1>0, <1>1, PodsFitStays
<1>2. CASE Project
  <2>1. ctl.obj \in Honest(ran, set.specs) /\ ctl.obj \in WorkloadObject /\ ctl.obj.res \in Revs
    BY <1>0, <1>2, BusyHere DEF Project, At, ReportsHonest, Resolved
  <2>2. k = Seen(native) /\ ps = Cur(pods')
    BY <1>0, <1>2, LogVersions DEF Project
  <2> DEFINE n == Desired(k, ctl.obj)
  <2>3. n \in NativeObject /\ n.reps = ctl.obj.spec.reps
    BY <1>0, <2>1, DesiredTyped
  <2>4. WriteNative(n)
    BY <1>2, <2>2 DEF Project
  <2> HIDE DEF n
  <2>5. Cur(native') = n /\ n # None
    BY <1>0, <2>3, <2>4, NativeWritten, NoneIsNoObject DEF NativeVersion
  <2>6. ctl.obj.spec \in set.specs /\ ctl.obj.spec.reps \in Nat
    BY <2>1 DEF Honest, WorkloadObject, SpecObject
  <2>7. Cardinality(Alive(ps)) <= n.reps
    <3>1. CASE k = None
      BY <2>3, <2>6, <3>1, FS_EmptySet DEF PodsFit
    <3>2. CASE k # None
      BY <2>3, <2>6, <3>2 DEF PodsFit, Paced
    <3> QED BY <3>1, <3>2
  <2> HIDE DEF k, ps
  <2> QED BY <1>0, <2>2, <2>3, <2>5, <2>6, <2>7 DEF PodsFit
<1>3. CASE Crash
  <2>1. Cur(native') = k /\ Cur(pods') = ps
    BY <1>0, <1>3, LogRelisted DEF Crash
  <2> QED BY <1>0, <2>1, PodsFitStays
<1>4. CASE PodStarts
  <2> DEFINE p == CHOOSE p \in Pods \ Alive(ps) : TRUE
             o == [rev |-> k.rev, st |-> "building"]
             q == [ps EXCEPT ![p] = o]
  <2>1. k \in NativeObject /\ p \in Pods \ Alive(ps) /\ k # None
    BY <1>0, <1>4 DEF PodStarts, NativeVersion
  <2>2. o \in PodObject /\ o # None
    BY <2>1, NoneIsNoObject DEF NativeObject, PodObject
  <2>3. WritePods(q) /\ Cardinality(Alive(ps)) < k.reps /\ native' = native
    <3>1. Surge = 0 /\ k.reps \in Nat
      BY <2>1 DEF Surge, Paced, NativeObject
    <3> QED BY <1>4, <3>1 DEF PodStarts
  <2> HIDE DEF p, o
  <2>4. q \in PodsVersion /\ Alive(q) = Alive(ps) \cup {p}
    BY <1>0, <2>1, <2>2 DEF Alive, PodsVersion
  <2> HIDE DEF q
  <2>5. Cur(pods') = q
    BY <1>0, <2>3, <2>4, PodsWritten
  <2>6. Cardinality(Alive(q)) = Cardinality(Alive(ps)) + 1
    BY <1>c, <2>1, <2>4, FS_AddElement
  <2>7. k.reps \in Nat
    BY <2>1 DEF NativeObject
  <2>8. Cardinality(Alive(Cur(pods'))) <= k.reps
    BY <1>c, <2>3, <2>5, <2>6, <2>7
  <2> QED BY <1>0, <2>1, <2>3, <2>8 DEF PodsFit
<1>5. CASE PodStops
  <2>1. PICK p \in Pods : WritePods([ps EXCEPT ![p] = None])
    BY <1>5 DEF PodStops, Alive
  <2> DEFINE q == [ps EXCEPT ![p] = None]
  <2>2. q \in PodsVersion /\ Alive(q) \in SUBSET Alive(ps)
    BY <1>0 DEF Alive, PodsVersion
  <2> HIDE DEF q
  <2>3. Cur(pods') = q /\ native' = native
    BY <1>0, <1>5, <2>1, <2>2, PodsWritten DEF q, PodStops
  <2>4. Cardinality(Alive(q)) <= Cardinality(Alive(ps)) /\ Cardinality(Alive(q)) \in Nat
    BY <1>c, <2>2, FS_Subset, FS_CardinalityType
  <2>5. k \in NativeObject /\ k # None
    BY <1>0, <1>5 DEF PodStops, NativeVersion
  <2>6. k.reps \in Nat
    BY <2>5 DEF NativeObject
  <2> QED BY <1>0, <1>c, <2>3, <2>4, <2>5, <2>6 DEF PodsFit
<1>6. CASE BuildEnds \/ BuildRetries
  <2>1. PICK p \in Alive(ps), st \in {"building", "failing", "running"} :
          WritePods([ps EXCEPT ![p].st = st])
    BY <1>6 DEF BuildEnds, BuildRetries
  <2>2. /\ [ps EXCEPT ![p].st = st] \in PodsVersion
        /\ Alive([ps EXCEPT ![p].st = st]) = Alive(ps)
    BY <1>0, PodEdits
  <2>3. Cur(pods') = [ps EXCEPT ![p].st = st]
    BY <1>0, <2>1, <2>2, PodsWritten
  <2>4. native' = native
    BY <1>6 DEF BuildEnds, BuildRetries
  <2> QED BY <1>0, <2>2, <2>3, <2>4, PodsFitStays
<1>7. ASSUME k # None, NEW n, n \in NativeObject, n.reps = k.reps, WriteNative(n),
             UNCHANGED pods
      PROVE  PodsFit'
  <2>1. Cur(native') = n /\ n # None
    BY <1>0, <1>7, NativeWritten, NoneIsNoObject DEF NativeVersion
  <2> QED BY <1>0, <1>7, <2>1, PodsFitStays
<1>8. CASE NativeReports
  <2> DEFINE u == Cardinality(Updated(ps, k.rev))
             d == Cardinality(ReadyPods(ps))
             n == [k EXCEPT !.obs = k.gen, !.upd = u, !.rdy = d]
  <2>1. k \in NativeObject /\ k # None
    BY <1>0, <1>8 DEF NativeReports, NativeVersion
  <2>2. u \in Nat /\ d \in Nat
    <3>1. Updated(ps, k.rev) \subseteq Pods /\ ReadyPods(ps) \subseteq Pods
      BY DEF Updated, ReadyPods, Alive
    <3> QED BY <3>1, PodsCounted
  <2>3. WriteNative(n) /\ UNCHANGED pods
    BY <1>8 DEF NativeReports
  <2> HIDE DEF u, d
  <2>4. n \in NativeObject /\ n.reps = k.reps
    BY <2>1, <2>2 DEF NativeObject
  <2> HIDE DEF n
  <2> QED BY <1>7, <2>1, <2>3, <2>4
<1>9. CASE ReplicasFail
  <2> DEFINE n == [k EXCEPT !.fails = ~@]
  <2>1. k \in NativeObject /\ k # None
    BY <1>0, <1>9 DEF ReplicasFail, NativeVersion
  <2>2. WriteNative(n) /\ UNCHANGED pods
    BY <1>9 DEF ReplicasFail
  <2>3. n \in NativeObject /\ n.reps = k.reps
    BY <2>1 DEF NativeObject
  <2> HIDE DEF n
  <2> QED BY <1>7, <2>1, <2>2, <2>3
<1>10. CASE NativeCollected
  <2>1. NoPods \in PodsVersion /\ Alive(NoPods) = {}
    BY DEF NoPods, PodsVersion, Alive
  <2>2. Cur(native') = None /\ Cur(pods') = NoPods
    BY <1>0, <1>10, <2>1, NativeWritten, PodsWritten DEF NativeCollected, NativeVersion
  <2> QED BY <2>1, <2>2 DEF PodsFit
<1>11. CASE DeliverNative \/ DeliverPods
  <2>1. Cur(native') = k /\ Cur(pods') = ps
    BY <1>0, <1>11, LogDelivered DEF DeliverNative, DeliverPods
  <2> QED BY <1>0, <2>1, PodsFitStays
<1> HIDE DEF k, ps
<1>12. CASE Reconcile \/ EnsureFinalizer \/ RemoveFinalizer \/ DropOnConflict \/ Suspended
              \/ Resolve \/ ProjectFails \/ Observe \/ StatusUpdate \/ GitError \/ ApiError
  BY <1>1, <1>12, Zenon
     DEF Reconcile, EnsureFinalizer, RemoveFinalizer, DropOnConflict, Suspended, Resolve,
         ProjectFails, Observe, StatusUpdate, GitError, ApiError, env
<1>13. CASE DeliverWorkload \/ CreateWorkload \/ EditWorkload \/ DeleteWorkload \/ Push
              \/ InfraChanges
  BY <1>1, <1>13, Zenon
     DEF DeliverWorkload, CreateWorkload, EditWorkload, DeleteWorkload, Push, InfraChanges, env
<1> QED BY <1>2, <1>3, <1>4, <1>5, <1>6, <1>8, <1>9, <1>10, <1>11, <1>12, <1>13
        DEF Next, Step, Kubernetes, Environment

\* A report that is honest stays so when more has run.
LEMMA HonestGrows ==
  ASSUME NEW R, NEW R2, NEW S, R \subseteq R2
  PROVE  Honest(R, S) \cup {None} \subseteq Honest(R2, S) \cup {None}
BY DEF Honest

\* Workload logs stay honest under an honest write.
LEMMA HonestWritten ==
  ASSUME TypeOK, NEW R, NEW V, wl \in Logs(Honest(R, V) \cup {None}),
         NEW v \in Honest(R, V) \cup {None}, WriteWorkload(v)
  PROVE  wl' \in Logs(Honest(R, V) \cup {None})
<1> DEFINE S == Honest(R, V) \cup {None}
<1>1. wl \in Logs(S) /\ v \in S /\ set.wl \in Nat
  BY SettingTyped
<1> HIDE DEF S
<1>2. wl' \in Logs(S)
  BY <1>1, LogPut DEF WriteWorkload
<1> QED BY <1>2 DEF S

\* What a pass writes into its copy before it reports does not claim readiness.
LEMMA HonestEdits ==
  ASSUME NEW R, NEW S, S \subseteq SpecObject, NEW o \in Honest(R, S)
  PROVE  /\ [o EXCEPT !.fin = TRUE] \in Honest(R, S)
         /\ [o EXCEPT !.del = TRUE] \in Honest(R, S)
         /\ \A r \in Revs : [o EXCEPT !.res = r] \in Honest(R, S)
         /\ \A g \in Nat : [o EXCEPT !.seen = g] \in Honest(R, S)
         /\ \A s \in S, g \in Nat : [o EXCEPT !.spec = s, !.gen = g] \in Honest(R, S)
         /\ \A p \in Phases \ {"Ready"} : [o EXCEPT !.phase = p] \in Honest(R, S)
         /\ \A s \in Stalls : Stalled(o, s) \in Honest(R, S)
<1>0. o \in WorkloadObject /\ o.spec \in S /\ (o.phase = "Ready" => o.rolled \in R)
  BY DEF Honest
<1>1. [o EXCEPT !.fin = TRUE] \in Honest(R, S) /\ [o EXCEPT !.del = TRUE] \in Honest(R, S)
  BY <1>0 DEF Honest, WorkloadObject
<1>2. ASSUME NEW r \in Revs PROVE [o EXCEPT !.res = r] \in Honest(R, S)
  BY <1>0, <1>2 DEF Honest, WorkloadObject
<1>3. ASSUME NEW g \in Nat PROVE [o EXCEPT !.seen = g] \in Honest(R, S)
  BY <1>0, <1>3 DEF Honest, WorkloadObject
<1>4. ASSUME NEW s \in S, NEW g \in Nat
      PROVE  [o EXCEPT !.spec = s, !.gen = g] \in Honest(R, S)
  BY <1>0, <1>4 DEF Honest, WorkloadObject
<1>5. ASSUME NEW p \in Phases \ {"Ready"} PROVE [o EXCEPT !.phase = p] \in Honest(R, S)
  BY <1>0, <1>5 DEF Honest, WorkloadObject
<1>6. ASSUME NEW s \in Stalls PROVE Stalled(o, s) \in Honest(R, S)
  BY <1>0, <1>6 DEF Honest, WorkloadObject, Stalled, Phases
<1> QED BY <1>1, <1>2, <1>3, <1>4, <1>5, <1>6

\* Steps that write no workload and keep an honest copy.
LEMMA ReportsStay ==
  ASSUME ReportsHonest, ran \subseteq ran', UNCHANGED <<wl, set>>,
         ctl' = Idle \/ ctl'.obj \in Honest(ran, set.specs) \/ (ctl.pc # "idle" /\ ctl'.obj = ctl.obj)
           \/ UNCHANGED ctl
  PROVE  ReportsHonest'
<1> DEFINE S == Honest(ran, set.specs) \cup {None}
           T == Honest(ran', set.specs) \cup {None}
<1>1. S \subseteq T
  BY HonestGrows
<1>2. Honest(ran, set.specs) \subseteq Honest(ran', set.specs)
  BY DEF Honest
<1>3. wl \in Logs(S)
  BY DEF ReportsHonest
<1> HIDE DEF S, T
<1>4. wl \in Logs(T)
  BY <1>1, <1>3, LogWidened
<1>5. ctl'.pc # "idle" => ctl'.obj \in Honest(ran', set.specs)
  BY <1>2 DEF ReportsHonest, Idle
<1> QED BY <1>4, <1>5 DEF ReportsHonest, T

\* Every step keeps the reports honest.
LEMMA ReportsKept ==
  ASSUME TypeInv, set.native = 0, NativeFollowed, ReportsHonest, Next
  PROVE  ReportsHonest'
<1>0. TypeOK /\ Resolved /\ ran \subseteq ran' /\ UNCHANGED set /\ set.specs \subseteq SpecObject
  BY RanGrows, SettingTyped DEF TypeInv
<1>l. wl \in Logs(Honest(ran, set.specs) \cup {None})
  BY DEF ReportsHonest
<1>v. Cur(wl) \in Honest(ran, set.specs) \cup {None} /\ Seen(wl) \in Honest(ran, set.specs) \cup {None}
  BY <1>l, LogVersions
<1>b. ctl.pc # "idle" => ctl \in Busy /\ ctl.obj \in Honest(ran, set.specs) /\ ctl.obj \in WorkloadObject
  BY <1>0, BusyHere DEF ReportsHonest
<1>1. CASE Reconcile
  <2>1. ctl'.obj \in Honest(ran, set.specs)
    BY <1>1, <1>v DEF Reconcile
  <2> QED BY <1>0, <1>1, <2>1, ReportsStay DEF Reconcile
<1>2. CASE EnsureFinalizer
  <2> DEFINE v == [ctl.obj EXCEPT !.fin = TRUE]
  <2>0. ctl \in Busy /\ ctl.obj \in Honest(ran, set.specs)
    BY <1>2, <1>b DEF EnsureFinalizer, At
  <2>1. v \in Honest(ran, set.specs)
    BY <1>0, <2>0, HonestEdits
  <2>2. WriteWorkload(v) /\ ctl'.obj = v /\ ran' = ran
    BY <1>2, <2>0 DEF EnsureFinalizer, env, Busy
  <2> HIDE DEF v
  <2>3. wl' \in Logs(Honest(ran, set.specs) \cup {None})
    BY <1>0, <1>l, <2>1, <2>2, HonestWritten
  <2> QED BY <1>0, <2>1, <2>2, <2>3 DEF ReportsHonest
<1>3. CASE RemoveFinalizer
  <2>1. wl' \in Logs(Honest(ran, set.specs) \cup {None})
    BY <1>0, <1>l, <1>3, HonestWritten DEF RemoveFinalizer
  <2> QED BY <1>3, <2>1 DEF RemoveFinalizer, ReportsHonest, Idle, env
<1>4. CASE DropOnConflict \/ ProjectFails \/ ApiError
  BY <1>0, <1>4, ReportsStay DEF DropOnConflict, ProjectFails, ApiError
<1>5. ASSUME At("resolve"), NEW p, NEW o \in Honest(ran, set.specs), Continue(p, o), UNCHANGED wl
      PROVE  ReportsHonest'
  <2> DEFINE v == [o EXCEPT !.seen = o.gen]
  <2>1. v \in Honest(ran, set.specs)
    <3>1. o.gen \in Nat
      BY DEF Honest, WorkloadObject
    <3> QED BY <1>0, <3>1, HonestEdits
  <2>2. ctl' = [ctl EXCEPT !.pc = p, !.obj = v] /\ ctl \in Busy
    BY <1>5, <1>b DEF Continue, At
  <2> HIDE DEF v
  <2>3. ctl'.obj = v
    BY <2>2 DEF Busy
  <2> QED BY <1>0, <1>5, <2>1, <2>3, ReportsStay
<1>6. CASE Suspended \/ GitError
  <2>1. ctl.obj \in Honest(ran, set.specs)
    BY <1>6, <1>b DEF Suspended, GitError, At
  <2>2. /\ [ctl.obj EXCEPT !.phase = "Suspended"] \in Honest(ran, set.specs)
        /\ Stalled(ctl.obj, "GitError") \in Honest(ran, set.specs)
    BY <1>0, <2>1, HonestEdits DEF Phases, Stalls
  <2> QED BY <1>5, <1>6, <2>2 DEF Suspended, GitError
<1>7. CASE Resolve
  <2> DEFINE o == [ctl.obj EXCEPT !.res = head]
  <2>1. o \in Honest(ran, set.specs)
    <3>1. ctl.obj \in Honest(ran, set.specs) /\ head \in Revs
      BY <1>0, <1>7, <1>b DEF Resolve, At, TypeOK
    <3> QED BY <1>0, <3>1, HonestEdits
  <2> HIDE DEF o
  <2>2. Stalled(o, "InfraNotReady") \in Honest(ran, set.specs)
    BY <1>0, <2>1, HonestEdits DEF Stalls
  <2>3. Continue("project", o) \/ Continue("status", Stalled(o, "InfraNotReady"))
    BY <1>7 DEF Resolve, o
  <2> QED BY <1>5, <1>7, <2>1, <2>2, <2>3 DEF Resolve
<1>8. CASE Project
  <2>1. ctl'.obj = ctl.obj /\ ctl.pc # "idle"
    BY <1>8, <1>b DEF Project, At, Busy
  <2> QED BY <1>0, <1>8, <2>1, ReportsStay DEF Project
<1>9. CASE Observe
  <2> DEFINE k == Seen(native)
             p == ObservePodInit(Seen(pods), ctl.obj.res)
             v == Report(ctl.obj, k, p)
  <2>0. ctl \in Busy /\ ctl.obj \in Honest(ran, set.specs) /\ ctl.obj.res \in Revs /\ At("observe")
    BY <1>0, <1>9, <1>b DEF Observe, At, Resolved
  <2>1. CASE k = None
    BY <1>0, <1>9, <2>1, ReportsStay DEF Observe
  <2>2. CASE k # None
    <3>1. k \in NativeObject /\ k = Cur(native)
      <4>1. native \in Logs(NativeVersion)
        BY <1>0 DEF TypeOK, NativeVersion
      <4> QED BY <2>2, <4>1, LogVersions DEF NativeFollowed, NativeVersion
    <3>2. RolledOut(k) => ctl.obj.res \in ran
      <4>1. /\ k.rev = ctl.obj.res /\ RunsProved(k, ran)
            /\ k.obs \in Nat /\ k.gen \in Nat
        BY <2>0, <2>2, <3>1 DEF NativeFollowed, NativeObject
      <4> QED BY <2>2, <4>1 DEF RolledOut, RunsProved
    <3>3. v \in Honest(ran, set.specs)
      <4>1. CASE p = "failing" \/ (k.fails /\ set.kind = "Deployment")
        <5>1. v = Stalled(ctl.obj, "InitBuildFailing") \/ v = Stalled(ctl.obj, "ReplicaFailure")
          BY <4>1 DEF Report
        <5> QED BY <1>0, <2>0, <5>1, HonestEdits DEF Stalls
      <4>2. CASE ~(p = "failing" \/ (k.fails /\ set.kind = "Deployment")) /\ RolledOut(k)
        <5> DEFINE o == ctl.obj
        <5>1. v = [o EXCEPT !.phase = "Ready", !.rolled = o.res, !.stalled = ""]
          BY <4>2 DEF Report
        <5>2. o \in WorkloadObject /\ o.spec \in set.specs /\ o.res \in Revs /\ o.res \in ran
          BY <2>0, <3>2, <4>2 DEF Honest
        <5> HIDE DEF o, v
        <5> QED BY <5>1, <5>2 DEF Honest, WorkloadObject, Phases, Stalls
      <4>3. CASE ~(p = "failing" \/ (k.fails /\ set.kind = "Deployment")) /\ ~RolledOut(k)
        <5> DEFINE ph == IF p = "building" THEN "Building" ELSE "Progressing"
        <5>1. v = [ctl.obj EXCEPT !.phase = ph]
          BY <4>3 DEF Report
        <5>2. ph \in Phases \ {"Ready"}
          BY DEF Phases
        <5> HIDE DEF ph
        <5>3. [ctl.obj EXCEPT !.phase = ph] \in Honest(ran, set.specs)
          BY <1>0, <2>0, <5>2, HonestEdits
        <5> QED BY <5>1, <5>3
      <4> QED BY <4>1, <4>2, <4>3
    <3>4. ctl' = [ctl EXCEPT !.pc = "status", !.obj = v]
      BY <1>9, <2>2 DEF Observe
    <3> HIDE DEF v
    <3>5. ctl'.obj = v
      BY <2>0, <3>4 DEF Busy
    <3> QED BY <1>0, <1>9, <3>3, <3>5, ReportsStay DEF Observe
  <2> QED BY <2>1, <2>2
<1>10. CASE StatusUpdate
  <2>1. ctl.obj \in Honest(ran, set.specs)
    BY <1>10, <1>b DEF StatusUpdate, At
  <2>2. wl' \in Logs(Honest(ran, set.specs) \cup {None})
    BY <1>0, <1>l, <1>10, <2>1, HonestWritten DEF StatusUpdate
  <2> QED BY <1>10, <2>2 DEF StatusUpdate, ReportsHonest, Idle, env
<1>11. CASE Crash
  <2>1. Relisted(wl) \in Logs(Honest(ran, set.specs) \cup {None})
    BY <1>l, LogRelisted
  <2> QED BY <1>11, <2>1 DEF Crash, ReportsHonest, Idle
<1>12. CASE DeliverWorkload
  <2>1. Delivered(wl) \in Logs(Honest(ran, set.specs) \cup {None})
    BY <1>12, <1>l, LogDelivered DEF DeliverWorkload
  <2> QED BY <1>12, <2>1 DEF DeliverWorkload, ReportsHonest, env
<1>13. CASE NativeReports \/ PodStarts \/ PodStops \/ BuildEnds \/ NativeCollected
              \/ DeliverNative \/ DeliverPods \/ Push \/ InfraChanges \/ BuildRetries
              \/ ReplicasFail
  BY <1>0, <1>13, ReportsStay
     DEF NativeReports, PodStarts, PodStops, BuildEnds, NativeCollected, DeliverNative,
         DeliverPods, Push, InfraChanges, BuildRetries, ReplicasFail, env
<1>14. ASSUME NEW v \in Honest(ran, set.specs) \cup {None}, UserWrites(v), UNCHANGED ran
       PROVE  ReportsHonest'
  <2>1. wl' \in Logs(Honest(ran, set.specs) \cup {None})
    BY <1>0, <1>l, <1>14, HonestWritten DEF UserWrites
  <2>2. ctl' = [ctl EXCEPT !.fresh = FALSE] /\ ctl \in Busy \cup {Idle}
    BY <1>0, <1>14 DEF UserWrites, TypeOK
  <2>3. ctl'.pc = ctl.pc /\ ctl'.obj = ctl.obj
    BY <2>2 DEF Busy, Idle
  <2> QED BY <1>0, <1>14, <2>1, <2>3 DEF ReportsHonest
<1>15. CASE CreateWorkload
  <2> DEFINE new(s) ==
        [uid |-> lives + 1, del |-> FALSE, fin |-> FALSE, gen |-> 1, spec |-> s,
         phase |-> "", stalled |-> "", res |-> None, rolled |-> None, seen |-> 0]
  <2>1. PICK s \in set.specs : UserWrites(new(s))
    BY <1>15 DEF CreateWorkload
  <2>2. s \in SpecObject /\ lives + 1 \in Nat
    BY <1>0, SettingTyped DEF TypeOK
  <2>3. new(s) \in Honest(ran, set.specs)
    BY <2>2 DEF Honest, WorkloadObject, Phases, Stalls
  <2>4. UNCHANGED ran
    BY <1>15, Zenon DEF CreateWorkload
  <2> HIDE DEF new
  <2> QED BY <1>14, <2>1, <2>3, <2>4
<1>16. CASE EditWorkload
  <2>1. PICK s \in set.specs : UserWrites([Cur(wl) EXCEPT !.spec = s, !.gen = @ + 1])
    BY <1>16 DEF EditWorkload
  <2>2. s \in SpecObject /\ Cur(wl) \in Honest(ran, set.specs) /\ Cur(wl) \in WorkloadObject
    BY <1>0, <1>16, <1>v, SettingTyped DEF EditWorkload, Honest
  <2>3. PICK g \in Nat : g = Cur(wl).gen + 1
    BY <2>2 DEF WorkloadObject
  <2>4. [Cur(wl) EXCEPT !.spec = s, !.gen = g] \in Honest(ran, set.specs)
    BY <1>0, <2>2, HonestEdits
  <2>5. UserWrites([Cur(wl) EXCEPT !.spec = s, !.gen = g]) /\ UNCHANGED ran
    BY <1>16, <2>1, <2>3 DEF EditWorkload
  <2> QED BY <1>14, <2>4, <2>5
<1>17. CASE DeleteWorkload
  <2> DEFINE v == IF Cur(wl).fin THEN [Cur(wl) EXCEPT !.del = TRUE] ELSE None
  <2>1. v \in Honest(ran, set.specs) \cup {None}
    BY <1>0, <1>17, <1>v, HonestEdits DEF DeleteWorkload
  <2>2. UserWrites(v) /\ UNCHANGED ran
    BY <1>17 DEF DeleteWorkload, env
  <2> HIDE DEF v
  <2> QED BY <1>14, <2>1, <2>2
<1> QED BY <1>1, <1>2, <1>3, <1>4, <1>6, <1>7, <1>8, <1>9, <1>10, <1>11, <1>12, <1>13,
           <1>15, <1>16, <1>17 DEF Next, Step, Kubernetes, Environment

\* A revision that a Ready NixStatefulSet reports as rolled out was run by all replicas
\* at once: with no more pods than replicas, counters that both reach their number count
\* the same pods.  It takes a number of replicas that the specs agree on and an informer
\* of native workloads that shows a pass its own write; those of workloads and pods may
\* be behind as far as they like.
THEOREM RolloutRolledOutRan == Spec => []RolledOutRan
<1>1. Init => RanInv
  <2> SUFFICES ASSUME Init PROVE RanInv
    OBVIOUS
  <2>1. /\ wl \in Logs(Honest(ran, set.specs) \cup {None}) /\ InSync(native)
        /\ Cur(native) = None /\ Cur(pods) = NoPods
    BY LogOfOne DEF Init
  <2>2. Alive(NoPods) = {}
    BY DEF NoPods, Alive
  <2> QED BY <2>1, <2>2
          DEF Init, RanInv, NativeFollowed, ReportsHonest, PodsFit, RunsProved, Idle
<1>2. TypeInv /\ RanInv /\ [Next]_vars => RanInv'
  <2> SUFFICES ASSUME TypeInv, RanInv, [Next]_vars PROVE RanInv'
    OBVIOUS
  <2>1. CASE Next
    <3>1. Paced' => Paced
      BY <2>1, RanGrows DEF Paced
    <3>2. ASSUME Paced PROVE NativeFollowed' /\ ReportsHonest' /\ PodsFit'
      <4>1. set.native = 0 /\ NativeFollowed /\ ReportsHonest /\ PodsFit
        BY <3>2 DEF RanInv, Paced
      <4> QED BY <2>1, <3>2, <4>1, NativeKept, ReportsKept, PodsFitKept
    <3> QED BY <3>1, <3>2 DEF RanInv
  <2>2. CASE UNCHANGED vars
    BY <2>2
       DEF vars, RanInv, Paced, NativeFollowed, ReportsHonest, PodsFit, RunsProved, At
  <2> QED BY <2>1, <2>2
<1>3. TypeInv /\ RanInv => RolledOutRan
  <2> SUFFICES ASSUME RanInv, Paced, Exists
               PROVE  Cur(wl).phase = "Ready" => Cur(wl).rolled \in ran
    BY DEF RolledOutRan, Paced
  <2>1. Cur(wl) \in Honest(ran, set.specs) \cup {None}
    BY LogVersions DEF RanInv, ReportsHonest
  <2> QED BY <2>1 DEF Exists, Honest
<1>4. Spec => []RanInv
  BY <1>1, <1>2, TypeInvariant, PTL DEF Spec
<1> QED BY <1>3, <1>4, TypeInvariant, PTL
=============================================================================
