--------------------------- MODULE Machine_proofs ---------------------------
(***************************************************************************)
(* Theorems about the Machine controller: its types, and that no probe     *)
(* undoes what the orchestrator wrote onto the Machine, for every lag of   *)
(* the informers and any number of disturbances.                           *)
(***************************************************************************)
EXTENDS Machine, Informer_proofs

\* What a Machine log holds.
MachineVersion == MachineObject \cup {None}

\* A working copy that carries the current resourceVersion has the stored stamp.
CopyIsCurrent ==
  ctl.pc # "idle" /\ ctl.fresh
    => Cur(machine) # None /\ Cur(machine).ac = ctl.obj.ac

\* There is no Machine before it is created.
NotYetCreated == ~created => Cur(machine) = None

\* The inductive invariant.
Inv == TypeOK /\ CopyIsCurrent /\ NotYetCreated

-----------------------------------------------------------------------------
(* Types of what a step reads and writes. *)

\* The bounds of the setting are numbers, and its references are credentials.
LEMMA SettingTyped ==
  ASSUME TypeOK
  PROVE  /\ set.machine \in Nat /\ set.secret \in Nat
         /\ set.refs \subseteq SUBSET Credentials
BY SettingsAreSettings DEF TypeOK

\* The stored and the cached Machine have the type of a Machine.
LEMMA MachineTyped ==
  ASSUME TypeOK
  PROVE  /\ Cur(machine) \in MachineVersion
         /\ Seen(machine) \in MachineVersion
         /\ InSync(machine) => Seen(machine) = Cur(machine)
<1>1. machine \in Logs(MachineVersion)
  BY DEF TypeOK, MachineVersion
<1> QED BY <1>1, LogVersions

\* A pass that is not idle has a Machine in hand.
LEMMA BusyHere ==
  ASSUME TypeOK, ~At("idle")
  PROVE  ctl \in Busy /\ ctl.obj \in MachineObject /\ ctl.fresh \in BOOLEAN
BY DEF TypeOK, At, Idle, Busy

\* Every write of the Machine keeps its log, and is what the server holds then.
LEMMA MachineWritten ==
  ASSUME TypeOK, NEW v \in MachineVersion, machine' = Put(set.machine, machine, v)
  PROVE  machine' \in Logs(MachineVersion) /\ Cur(machine') = v
<1>1. machine \in Logs(MachineVersion) /\ set.machine \in Nat
  BY SettingTyped DEF TypeOK, MachineVersion
<1> HIDE DEF MachineVersion
<1> QED BY <1>1, LogPut

\* A probe reports on the Machine it was given and leaves its stamp alone.
LEMMA ProbedTyped ==
  ASSUME TypeOK, NEW o \in MachineObject
  PROVE  Probed(o) \in MachineObject /\ Probed(o).ac = o.ac
<1> DEFINE up == [o EXCEPT !.disc = TRUE, !.reason = "SSHConnected"]
<1>1. up \in MachineObject /\ up.ac = o.ac
  BY DEF MachineObject, Reasons
<1>2. /\ host.uname \in Archs \cup {None} /\ clock \in Nat
  BY DEF TypeOK
<1>3. ScanArchitecture(up) \in MachineObject /\ ScanArchitecture(up).ac = o.ac
  <2> HIDE DEF up
  <2> QED BY <1>1, <1>2 DEF ScanArchitecture, MachineObject
<1>4. ASSUME NEW r \in Reasons
      PROVE  /\ [o EXCEPT !.disc = FALSE, !.reason = r] \in MachineObject
             /\ [o EXCEPT !.disc = FALSE, !.reason = r].ac = o.ac
  BY <1>4 DEF MachineObject
<1>5. "CredentialsMissing" \in Reasons /\ "SSHFailed" \in Reasons
  BY DEF Reasons
<1>6. CASE SSHConfig(o) /\ host.up
  BY <1>3, <1>6 DEF Probed
<1>7. CASE ~(SSHConfig(o) /\ host.up)
  BY <1>4, <1>5, <1>7 DEF Probed
<1> QED BY <1>6, <1>7

-----------------------------------------------------------------------------
(* The invariant is inductive. *)

\* Steps that write no Machine and leave the copy's claim about it alone.
LEMMA MachineUntouched ==
  ASSUME Inv, UNCHANGED <<machine, created>>, TypeOK',
         \/ ctl' = Idle
         \/ ctl' = ctl
         \/ ctl.pc # "idle" /\ ctl'.fresh = ctl.fresh /\ ctl'.obj.ac = ctl.obj.ac
  PROVE  Inv'
BY DEF Inv, CopyIsCurrent, NotYetCreated, Idle

\* Writes of somebody else outdate the copy.
LEMMA OthersWrite ==
  ASSUME Inv, Outdates, NEW v \in MachineVersion, machine' = Put(set.machine, machine, v)
  PROVE  /\ machine' \in Logs(MachineVersion) /\ Cur(machine') = v
         /\ ctl' \in Busy \cup {Idle}
         /\ CopyIsCurrent'
<1>1. machine' \in Logs(MachineVersion) /\ Cur(machine') = v
  BY MachineWritten DEF Inv
<1>2. ctl' \in Busy \cup {Idle} /\ ctl'.fresh = FALSE
  <2>1. CASE ctl \in Busy
    BY <2>1 DEF Outdates, Busy
  <2>2. CASE ctl = Idle
    <3>1. ctl' = Idle
      BY <2>2 DEF Outdates, Idle
    <3> QED BY <3>1 DEF Idle
  <2> QED BY <2>1, <2>2 DEF Inv, TypeOK
<1> QED BY <1>1, <1>2 DEF CopyIsCurrent

\* The queue's flags stay flags.
LEMMA QueueTyped ==
  ASSUME TypeOK, NEW a \in BOOLEAN, NEW b \in BOOLEAN, Requeue(a, b) \/ Wake
  PROVE  queued' \in BOOLEAN /\ timer' \in BOOLEAN /\ due' \in BOOLEAN
BY Zenon DEF TypeOK, Requeue, Wake, MachineEvent, SecretEvent

\* A pass's own write keeps the invariant when the copy it goes on with is the
\* one it wrote, or when the pass ends.
LEMMA OwnWrite ==
  ASSUME Inv, ctl.pc # "idle", NEW v \in MachineVersion, NEW next \in Busy \cup {Idle},
         Stored(v, next),
         next # Idle => v # None /\ v.ac = next.obj.ac,
         UNCHANGED world, NEW a \in BOOLEAN, NEW b \in BOOLEAN, Requeue(a, b)
  PROVE  Inv'
<1>1. machine' \in Logs(MachineVersion) /\ Cur(machine') = v /\ ctl' = next
  BY MachineWritten DEF Inv, Stored
<1>2. queued' \in BOOLEAN /\ timer' \in BOOLEAN /\ due' \in BOOLEAN
  BY QueueTyped DEF Inv
<1>3. TypeOK'
  BY <1>1, <1>2 DEF Inv, TypeOK, world, MachineVersion
<1>4. created
  BY DEF Inv, NotYetCreated, CopyIsCurrent, Stored
<1>5. CopyIsCurrent' /\ NotYetCreated'
  BY <1>1, <1>4 DEF CopyIsCurrent, NotYetCreated, Idle, world
<1> QED BY <1>3, <1>5 DEF Inv

\* Every step of a running pass keeps the invariant.
LEMMA StepKeeps == ASSUME Inv, Step PROVE Inv'
<1>0. TypeOK
  BY DEF Inv
<1>1. CASE UpdateStatusEarly
  <2>1. ctl \in Busy /\ ctl.obj \in MachineObject /\ ctl.pc # "idle"
    BY <1>0, <1>1, BusyHere DEF UpdateStatusEarly, At
  <2>2. PICK p \in PCs :
          /\ Stored(ctl.obj, IF p = "idle" THEN Idle ELSE [ctl EXCEPT !.pc = p])
          /\ Requeue(FALSE, FALSE) /\ UNCHANGED world
    BY <1>1 DEF UpdateStatusEarly, PCs
  <2> DEFINE next == IF p = "idle" THEN Idle ELSE [ctl EXCEPT !.pc = p]
  <2>3. next \in Busy \cup {Idle} /\ (next # Idle => next.obj = ctl.obj)
    BY <2>1 DEF Busy, Idle
  <2>4. ctl.obj \in MachineVersion /\ ctl.obj # None
    BY <2>1, NoneIsNoMachine DEF MachineVersion
  <2>5. Stored(ctl.obj, next)
    BY <2>2
  <2> HIDE DEF next
  <2> QED BY <2>1, <2>2, <2>3, <2>4, <2>5, OwnWrite
<1>2. CASE ReconcileDelete
  BY <1>2, OwnWrite DEF ReconcileDelete, At, MachineVersion
<1>3. CASE AddFinalizer
  <2>1. ctl \in Busy /\ ctl.obj \in MachineObject /\ ctl.pc # "idle"
    BY <1>0, <1>3, BusyHere DEF AddFinalizer, At
  <2> DEFINE v == [ctl.obj EXCEPT !.fin = TRUE]
             next == [ctl EXCEPT !.pc = "probe", !.obj.fin = TRUE]
  <2>2. v \in MachineObject /\ v.ac = ctl.obj.ac
    BY <2>1 DEF MachineObject
  <2>3. next \in Busy /\ next.obj = v
    BY <2>1, <2>2 DEF Busy, PCs
  <2>4. v \in MachineVersion /\ v # None
    BY <2>2, NoneIsNoMachine DEF MachineVersion
  <2>5. Stored(v, next) /\ Requeue(FALSE, FALSE) /\ UNCHANGED world
    BY <1>3 DEF AddFinalizer
  <2> HIDE DEF v, next
  <2> QED BY <2>1, <2>3, <2>4, <2>5, OwnWrite
<1>4. CASE Conflict
  <2>1. TypeOK'
    BY <1>0, <1>4 DEF Conflict, TypeOK, world
  <2> QED BY <1>4, <2>1, MachineUntouched DEF Conflict, world
<1>5. CASE Probe
  <2>1. ctl \in Busy /\ ctl.obj \in MachineObject /\ ctl.pc # "idle"
    BY <1>0, <1>5, BusyHere DEF Probe, At
  <2>2. Probed(ctl.obj) \in MachineObject /\ Probed(ctl.obj).ac = ctl.obj.ac
    BY <1>0, <2>1, ProbedTyped
  <2> DEFINE o == Probed(ctl.obj)
             v == [o EXCEPT !.busy = FALSE]
  <2>3. v \in MachineObject /\ v.ac = ctl.obj.ac
    <3> HIDE DEF o
    <3> QED BY <2>2 DEF MachineObject, o
  <2>4. ctl' = [ctl EXCEPT !.pc = "status", !.obj = v]
    BY <1>5 DEF Probe
  <2> HIDE DEF v
  <2>5. ctl' \in Busy /\ ctl'.fresh = ctl.fresh /\ ctl'.obj.ac = ctl.obj.ac
    BY <2>1, <2>3, <2>4 DEF Busy, PCs
  <2>6. TypeOK'
    BY <1>0, <1>5, <2>5 DEF Probe, TypeOK, world
  <2> QED BY <1>5, <2>1, <2>5, <2>6, MachineUntouched DEF Probe, world
<1>6. CASE UpdateStatus
  <2>1. ctl.obj \in MachineVersion /\ ctl.pc # "idle"
    BY <1>0, <1>6, BusyHere DEF UpdateStatus, At, MachineVersion
  <2> QED BY <1>6, <2>1, OwnWrite DEF UpdateStatus
<1> QED BY <1>1, <1>2, <1>3, <1>4, <1>5, <1>6 DEF Step
\* So does everything else.
LEMMA OthersKeep ==
  ASSUME Inv, Reconcile \/ ApiError \/ WriteAnswerLost \/ Crash \/ Environment
  PROVE  Inv'
<1>0. TypeOK
  BY DEF Inv
<1>s. set.machine \in Nat /\ set.secret \in Nat /\ set.refs \subseteq SUBSET Credentials
  BY <1>0, SettingTyped
<1>v. /\ Cur(machine) \in MachineVersion /\ Seen(machine) \in MachineVersion
      /\ InSync(machine) => Seen(machine) = Cur(machine)
  BY <1>0, MachineTyped
<1>1. CASE Reconcile
  <2>1. CASE Seen(machine) = None
    <3>1. TypeOK'
      BY <1>0, <1>1, <2>1 DEF Reconcile, TypeOK, world
    <3> QED BY <1>1, <2>1, <3>1, MachineUntouched DEF Reconcile, world
  <2>2. CASE Seen(machine) # None
    <3> DEFINE v == [Seen(machine) EXCEPT !.busy = TRUE]
    <3>1. Seen(machine) \in MachineObject
      BY <1>v, <2>2 DEF MachineVersion
    <3>2. v \in MachineObject /\ v.ac = Seen(machine).ac
      BY <3>1 DEF MachineObject
    <3>3. ctl' = [pc |-> "early", obj |-> v, fresh |-> InSync(machine)]
      BY <1>1, <2>2 DEF Reconcile
    <3> HIDE DEF v
    <3>4. ctl' \in Busy
      BY <3>2, <3>3 DEF Busy, PCs, InSync
    <3>5. TypeOK' /\ UNCHANGED <<machine, created>>
      BY <1>0, <1>1, <3>4 DEF Reconcile, TypeOK, world
    <3>6. CopyIsCurrent'
      BY <1>v, <2>2, <3>2, <3>3, <3>5 DEF CopyIsCurrent
    <3> QED BY <3>5, <3>6 DEF Inv, NotYetCreated
  <2> QED BY <2>1, <2>2
<1>2. CASE ApiError
  <2>1. upsets' \in Nat /\ UNCHANGED <<machine, secrets, host, clock, set, created, timer>>
    BY <1>0, <1>2 DEF ApiError, Disturb, TypeOK
  <2>2. CASE At("probe")
    <3>1. ctl \in Busy /\ ctl.obj \in MachineObject /\ ctl.pc # "idle"
      BY <1>0, <2>2, BusyHere DEF At
    <3> DEFINE v == [ctl.obj EXCEPT !.busy = FALSE, !.disc = FALSE,
                                    !.reason = "CredentialsMissing"]
    <3>2. v \in MachineObject /\ v.ac = ctl.obj.ac
      BY <3>1 DEF MachineObject, Reasons
    <3>3. /\ ctl' = [ctl EXCEPT !.pc = "status", !.obj = v]
          /\ UNCHANGED <<queued, due>>
      BY <1>2, <2>2, <3>1 DEF ApiError, Busy, MachineObject
    <3> HIDE DEF v
    <3>4. ctl' \in Busy /\ ctl'.fresh = ctl.fresh /\ ctl'.obj.ac = ctl.obj.ac
      BY <3>1, <3>2, <3>3 DEF Busy, PCs
    <3>5. TypeOK'
      BY <1>0, <2>1, <3>3, <3>4 DEF TypeOK
    <3> QED BY <2>1, <3>1, <3>4, <3>5, MachineUntouched
  <2>3. CASE ~At("probe")
    <3>1. ctl' = Idle /\ queued' = TRUE /\ due' = TRUE
      BY <1>2, <2>3 DEF ApiError
    <3>2. TypeOK'
      BY <1>0, <2>1, <3>1 DEF TypeOK
    <3> QED BY <2>1, <3>1, <3>2, MachineUntouched
  <2> QED BY <2>2, <2>3
<1>14. CASE WriteAnswerLost
  <2>0. ctl.pc # "idle" /\ Stored(Result, Idle)
    BY <1>14 DEF WriteAnswerLost
  <2>1. ctl \in Busy /\ ctl.obj \in MachineObject
    BY <1>0, <2>0, BusyHere DEF At
  <2>2. Result \in MachineVersion
    BY <2>1 DEF Result, MachineVersion, MachineObject
  <2>3. machine' \in Logs(MachineVersion) /\ ctl' = Idle
    BY <1>0, <2>0, <2>2, MachineWritten DEF Stored
  <2>4. created' = TRUE
    <3>1. ctl.fresh
      BY <2>0, Zenon DEF Stored
    <3> QED BY <1>14, <2>0, <3>1 DEF WriteAnswerLost, Inv, NotYetCreated, CopyIsCurrent, TypeOK
  <2>5. upsets' \in Nat
    BY <1>0, <1>14 DEF WriteAnswerLost, Disturb, TypeOK
  <2>6. TypeOK'
    BY <1>0, <1>14, <2>3, <2>4, <2>5 DEF WriteAnswerLost, TypeOK, MachineVersion
  <2> QED BY <2>3, <2>4, <2>6 DEF Inv, CopyIsCurrent, NotYetCreated, Idle
<1>3. CASE Crash
  <2>1. machine' \in Logs(MachineVersion) /\ Cur(machine') = Cur(machine)
    BY <1>0, <1>3, LogRelisted DEF Crash, TypeOK, MachineVersion
  <2>2. secrets' \in [Credentials -> Logs(SecretObject \cup {None})]
    <3>1. ASSUME NEW k \in Credentials
          PROVE  Relisted(secrets[k]) \in Logs(SecretObject \cup {None})
      BY <1>0, LogRelisted DEF TypeOK
    <3> QED BY <1>3, <3>1 DEF Crash
  <2>3. upsets' \in Nat
    BY <1>0, <1>3 DEF Crash, Disturb, TypeOK
  <2>4. TypeOK'
    BY <1>0, <1>3, <2>1, <2>2, <2>3 DEF Crash, TypeOK, MachineVersion
  <2> QED BY <1>3, <2>1, <2>4 DEF Crash, Inv, CopyIsCurrent, NotYetCreated, Idle
<1>4. CASE DiscoveryIntervalEnds
  <2>1. TypeOK'
    BY <1>0, <1>4 DEF DiscoveryIntervalEnds, TypeOK, world
  <2> QED BY <1>4, <2>1, MachineUntouched DEF DiscoveryIntervalEnds, world
<1>5. ASSUME NEW v \in MachineVersion, Outdates, Wake,
             machine' = Put(set.machine, machine, v),
             UNCHANGED <<secrets, host, clock, set>>,
             upsets' \in Nat, created' \in BOOLEAN,
             created' \/ v = None
      PROVE  Inv'
  <2>1. /\ machine' \in Logs(MachineVersion) /\ Cur(machine') = v
        /\ ctl' \in Busy \cup {Idle} /\ CopyIsCurrent'
    BY <1>5, OthersWrite
  <2>2. queued' \in BOOLEAN /\ timer' \in BOOLEAN /\ due' \in BOOLEAN
    BY <1>0, <1>5, QueueTyped
  <2>3. TypeOK'
    BY <1>0, <1>5, <2>1, <2>2 DEF TypeOK, MachineVersion
  <2> QED BY <1>5, <2>1, <2>3 DEF Inv, NotYetCreated
<1>6. CASE CreateMachine
  <2>1. PICK r \in set.refs :
          machine' = Put(set.machine, machine,
            [del |-> FALSE, fin |-> FALSE, refs |-> r, busy |-> FALSE, disc |-> FALSE,
             reason |-> "", arch |-> None, scanned |-> None, ac |-> None])
    BY <1>6 DEF CreateMachine
  <2>2. [del |-> FALSE, fin |-> FALSE, refs |-> r, busy |-> FALSE, disc |-> FALSE,
         reason |-> "", arch |-> None, scanned |-> None, ac |-> None] \in MachineVersion
    BY <1>s DEF MachineVersion, MachineObject, Reasons
  <2> QED BY <1>0, <1>5, <1>6, <2>1, <2>2 DEF CreateMachine, TypeOK
<1>e. Cur(machine) # None => created
  BY DEF Inv, NotYetCreated
<1>7. CASE EditMachine
  <2>1. PICK r \in set.refs :
          machine' = Put(set.machine, machine, [Cur(machine) EXCEPT !.refs = r])
    BY <1>7 DEF EditMachine
  <2>2. [Cur(machine) EXCEPT !.refs = r] \in MachineVersion
    BY <1>s, <1>v, <1>7 DEF EditMachine, MachineVersion, MachineObject
  <2> QED BY <1>0, <1>5, <1>7, <1>e, <2>1, <2>2 DEF EditMachine, Disturb, TypeOK
<1>8. CASE DeleteMachine
  <2> DEFINE v == IF Cur(machine).fin THEN [Cur(machine) EXCEPT !.del = TRUE] ELSE None
  <2>1. v \in MachineVersion
    BY <1>v, <1>8 DEF DeleteMachine, MachineVersion, MachineObject
  <2>2. machine' = Put(set.machine, machine, v)
    BY <1>8 DEF DeleteMachine
  <2> HIDE DEF v
  <2> QED BY <1>0, <1>5, <1>8, <1>e, <2>1, <2>2 DEF DeleteMachine, TypeOK, world
<1>9. CASE StampMachine
  <2>1. PICK c \in Owners \cup {None} :
          machine' = Put(set.machine, machine, [Cur(machine) EXCEPT !.ac = c])
    BY <1>9 DEF StampMachine
  <2>2. [Cur(machine) EXCEPT !.ac = c] \in MachineVersion
    BY <1>v, <1>9 DEF StampMachine, MachineVersion, MachineObject
  <2> QED BY <1>0, <1>5, <1>9, <1>e, <2>1, <2>2 DEF StampMachine, Disturb, TypeOK
<1>10. CASE HostChanges
  <2>0. /\ upsets' \in Nat /\ host' \in [up : BOOLEAN, uname : Archs \cup {None}]
        /\ UNCHANGED <<machine, secrets, clock, set, created, ctl, queued, timer, due>>
    BY <1>0, <1>10 DEF HostChanges, Disturb, TypeOK, queue
  <2>1. TypeOK'
    BY <1>0, <2>0 DEF TypeOK
  <2> QED BY <1>10, <2>1, MachineUntouched DEF HostChanges
<1>11. CASE Tick
  <2>0. /\ clock' \in Nat
        /\ UNCHANGED <<machine, secrets, host, set, created, upsets, ctl, queued, timer, due>>
    BY <1>0, <1>11 DEF Tick, TypeOK, queue
  <2>1. TypeOK'
    BY <1>0, <2>0 DEF TypeOK
  <2> QED BY <1>11, <2>1, MachineUntouched DEF Tick
<1>12. CASE DeliverMachine
  <2>1. machine' \in Logs(MachineVersion) /\ Cur(machine') = Cur(machine)
    BY <1>0, <1>12, LogDelivered DEF DeliverMachine, TypeOK, MachineVersion
  <2>2. TypeOK'
    BY <1>0, <1>12, <2>1 DEF DeliverMachine, TypeOK, MachineVersion, world
  <2> QED BY <1>12, <2>1, <2>2 DEF DeliverMachine, Inv, CopyIsCurrent, NotYetCreated, world
<1>13. ASSUME NEW k \in Credentials, SecretChanges(k) \/ DeliverSecret(k)
       PROVE  Inv'
  <2> DEFINE S == SecretObject \cup {None}
  <2>1. secrets[k] \in Logs(S) /\ secrets \in [Credentials -> Logs(S)]
    BY <1>0 DEF TypeOK
  <2>2. secrets' \in [Credentials -> Logs(S)]
    <3> HIDE DEF S
    <3>1. CASE SecretChanges(k)
      <4>1. PICK s \in S : secrets' = [secrets EXCEPT ![k] = Put(set.secret, @, s)]
        BY <3>1 DEF SecretChanges, S
      <4>2. Put(set.secret, secrets[k], s) \in Logs(S)
        BY <1>s, <2>1, LogPut
      <4> QED BY <2>1, <4>1, <4>2
    <3>2. CASE DeliverSecret(k)
      <4>1. Delivered(secrets[k]) \in Logs(S)
        BY <2>1, <3>2, LogDelivered DEF DeliverSecret
      <4> QED BY <2>1, <3>2, <4>1 DEF DeliverSecret
    <3> QED BY <1>13, <3>1, <3>2
  <2>3. queued' \in BOOLEAN /\ timer' \in BOOLEAN /\ due' \in BOOLEAN
    BY <1>0, <1>13, QueueTyped DEF SecretChanges, DeliverSecret
  <2>4. TypeOK'
    BY <1>0, <1>13, <2>2, <2>3 DEF SecretChanges, DeliverSecret, Disturb, TypeOK
  <2> QED BY <1>13, <2>4, MachineUntouched DEF SecretChanges, DeliverSecret
<1> QED BY <1>1, <1>2, <1>3, <1>4, <1>6, <1>7, <1>8, <1>9, <1>10, <1>11, <1>12, <1>13, <1>14
        DEF Environment

\* The inductive invariant holds throughout.
LEMMA Invariant == Spec => []Inv
<1>1. Init => Inv
  <2> SUFFICES ASSUME Init PROVE Inv
    OBVIOUS
  <2>1. /\ machine \in Logs(MachineObject \cup {None}) /\ Cur(machine) = None
    BY LogOfOne DEF Init
  <2>2. secrets \in [Credentials -> Logs(SecretObject \cup {None})]
    <3>1. <<"usable">> \in Logs(SecretObject \cup {None})
      BY LogOfOne DEF SecretObject
    <3> QED BY <3>1 DEF Init
  <2>3. TypeOK
    BY <2>1, <2>2 DEF Init, TypeOK
  <2> QED BY <2>1, <2>3 DEF Init, Inv, CopyIsCurrent, NotYetCreated, Idle
<1>2. Inv /\ [Next]_vars => Inv'
  <2> SUFFICES ASSUME Inv, [Next]_vars PROVE Inv'
    OBVIOUS
  <2>1. CASE Next
    BY <2>1, StepKeeps, OthersKeep DEF Next
  <2>2. CASE UNCHANGED vars
    BY <2>2 DEF vars, Inv, TypeOK, CopyIsCurrent, NotYetCreated
  <2> QED BY <2>1, <2>2
<1> QED BY <1>1, <1>2, PTL DEF Spec

-----------------------------------------------------------------------------
(* The theorems. *)

\* The Machine, its Secrets, the host, the pass and its queue keep their types
\* through every probe, conflict, failed call and restart.
THEOREM MachineTypeCorrect == Spec => []TypeOK
BY Invariant, PTL DEF Inv

\* A probe never undoes the orchestrator's stamp: it stores the report only while
\* its copy carries the current resourceVersion, and then the copy has the stored
\* stamp.
THEOREM MachineStampIsKept == Spec => StampIsKept
<1>1. ASSUME Inv, [Next]_vars
      PROVE  [Exists /\ Exists' /\ Cur(machine)'.ac # Cur(machine).ac => upsets' # upsets]_vars
  <2> SUFFICES ASSUME Next, Exists, Exists', Cur(machine)'.ac # Cur(machine).ac
               PROVE  upsets' # upsets
    BY <1>1 DEF vars
  <2>0. TypeOK /\ upsets \in Nat /\ machine \in Logs(MachineVersion)
    BY <1>1 DEF Inv, TypeOK, MachineVersion
  <2>1. CASE Disturb
    BY <2>0, <2>1 DEF Disturb
  <2>2. machine' # machine
    OBVIOUS
  <2>3. CASE UpdateStatusEarly \/ ReconcileDelete \/ AddFinalizer \/ UpdateStatus
    <3>1. ctl \in Busy /\ ctl.obj \in MachineObject /\ ctl.pc # "idle" /\ ctl.fresh
      BY <2>0, <2>3, BusyHere
         DEF UpdateStatusEarly, ReconcileDelete, AddFinalizer, UpdateStatus, At, Stored
    <3>2. Cur(machine).ac = ctl.obj.ac
      BY <1>1, <3>1 DEF Inv, CopyIsCurrent
    <3>3. PICK v \in MachineVersion :
            /\ machine' = Put(set.machine, machine, v)
            /\ v = None \/ v.ac = ctl.obj.ac
      <4>1. [ctl.obj EXCEPT !.fin = TRUE] \in MachineVersion
            /\ [ctl.obj EXCEPT !.fin = TRUE].ac = ctl.obj.ac
        BY <3>1 DEF MachineObject, MachineVersion
      <4>2. ctl.obj \in MachineVersion /\ None \in MachineVersion
        BY <3>1 DEF MachineVersion
      <4> HIDE DEF MachineVersion
      <4> QED BY <2>3, <4>1, <4>2
              DEF UpdateStatusEarly, ReconcileDelete, AddFinalizer, UpdateStatus, Stored
    <3>4. Cur(machine') = v
      BY <2>0, <3>3, MachineWritten
    <3> QED BY <3>2, <3>3, <3>4 DEF Exists
  <2>4. CASE CreateMachine
    BY <1>1, <2>4 DEF CreateMachine, Inv, NotYetCreated, Exists
  <2>5. CASE DeleteMachine
    <3> DEFINE v == IF Cur(machine).fin THEN [Cur(machine) EXCEPT !.del = TRUE] ELSE None
    <3>0. Cur(machine) \in MachineObject
      BY <2>0, MachineTyped DEF Exists, MachineVersion
    <3>1. v \in MachineVersion /\ (v = None \/ v.ac = Cur(machine).ac)
      BY <3>0 DEF MachineVersion, MachineObject
    <3>2. machine' = Put(set.machine, machine, v)
      BY <2>5 DEF DeleteMachine
    <3> HIDE DEF v
    <3>3. Cur(machine') = v
      BY <2>0, <3>1, <3>2, MachineWritten
    <3> QED BY <3>1, <3>3 DEF Exists
  <2>6. CASE DeliverMachine
    BY <2>0, <2>6, LogDelivered DEF DeliverMachine
  <2>7. CASE Reconcile \/ Conflict \/ Probe \/ DiscoveryIntervalEnds \/ Tick
             \/ \E k \in Credentials : DeliverSecret(k)
    BY <2>2, <2>7 DEF Reconcile, Conflict, Probe, DiscoveryIntervalEnds, Tick, DeliverSecret
  <2>8. CASE ApiError \/ WriteAnswerLost \/ Crash \/ EditMachine \/ StampMachine \/ HostChanges
             \/ \E k \in Credentials : SecretChanges(k)
    BY <2>1, <2>8 DEF ApiError, WriteAnswerLost, Crash, EditMachine, StampMachine, HostChanges, SecretChanges
  <2> QED BY <2>3, <2>4, <2>5, <2>6, <2>7, <2>8 DEF Next, Step, Environment
<1> QED BY <1>1, Invariant, PTL DEF Spec, StampIsKept
=============================================================================
