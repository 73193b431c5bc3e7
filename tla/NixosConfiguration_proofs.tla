---------------------- MODULE NixosConfiguration_proofs ----------------------
(***************************************************************************)
(* Theorems about the NixosConfiguration orchestrator, for any number of   *)
(* configurations, retries, faults and edits: its types; what it stores is *)
(* kept; a finished install is never run again; what a removal may write   *)
(* and must leave behind; and how often the install and the decommission   *)
(* job run.                                                                *)
(***************************************************************************)
EXTENDS NixosConfiguration, Informer_proofs

-----------------------------------------------------------------------------
(* Type correctness. *)

\* Every Delete of a child keeps it a child.
LEMMA DeletedJob ==
  ASSUME NEW l \in Logs(NixJobObject \cup {None}), NEW lag \in Nat
  PROVE  Deleted(lag, l) \in Logs(NixJobObject \cup {None})
<1>1. Cur(l) \in NixJobObject \cup {None}
  BY LogVersions
<1>2. CASE Cur(l) = None
  BY <1>2 DEF Deleted
<1>3. CASE Cur(l) # None
  <2>1. [Cur(l) EXCEPT !.del = TRUE] \in NixJobObject \cup {None}
    BY <1>1, <1>3 DEF NixJobObject
  <2> QED BY <1>3, <2>1, LogPut DEF Deleted
<1> QED BY <1>2, <1>3

\* Every Delete of an install child keeps it one.
LEMMA DeletedInstall ==
  ASSUME NEW l \in Logs(InstallObject \cup {None}), NEW lag \in Nat
  PROVE  Deleted(lag, l) \in Logs(InstallObject \cup {None})
<1>1. Cur(l) \in InstallObject \cup {None}
  BY LogVersions
<1>2. CASE Cur(l) = None
  BY <1>2 DEF Deleted
<1>3. CASE Cur(l) # None
  <2>1. [Cur(l) EXCEPT !.del = TRUE] \in InstallObject \cup {None}
    BY <1>1, <1>3 DEF InstallObject
  <2> QED BY <1>3, <2>1, LogPut DEF Deleted
<1> QED BY <1>2, <1>3

\* A deletion keeps a log of NixCronJobs a log of NixCronJobs.
LEMMA DeletedCron ==
  ASSUME NEW l \in Logs(NixCronJobObject \cup {None}), NEW lag \in Nat
  PROVE  Deleted(lag, l) \in Logs(NixCronJobObject \cup {None})
<1>1. Cur(l) \in NixCronJobObject \cup {None}
  BY LogVersions
<1>2. CASE Cur(l) = None
  BY <1>2 DEF Deleted
<1>3. CASE Cur(l) # None
  <2>1. [Cur(l) EXCEPT !.del = TRUE] \in NixCronJobObject \cup {None}
    BY <1>1, <1>3 DEF NixCronJobObject
  <2> QED BY <1>3, <2>1, LogPut DEF Deleted
<1> QED BY <1>2, <1>3

\* Every informer's bound is a number.
LEMMA LagsAreNat ==
  ASSUME TypeOK
  PROVE  Lag.config \in Nat /\ Lag.job \in Nat /\ Lag.cron \in Nat /\ Lag.machine \in Nat
BY SettingsAreSettings DEF TypeOK, Lag

\* A capped counter is a number.
LEMMA CountedIsNat == ASSUME NEW n \in Nat PROVE Counted(n) \in Nat
BY DEF Counted

\* The versions a step reads have the types of their objects.
LEMMA Versions ==
  ASSUME TypeOK, NEW c \in Configs
  PROVE  /\ Cur(cfg[c]) \in ConfigObject \cup {None}
         /\ Seen(cfg[c]) \in ConfigObject \cup {None}
         /\ Cur(inst[c]) \in InstallObject \cup {None}
         /\ Seen(inst[c]) \in InstallObject \cup {None}
         /\ Cur(dec[c]) \in NixJobObject \cup {None}
         /\ Seen(dec[c]) \in NixJobObject \cup {None}
         /\ Cur(cron[c]) \in NixCronJobObject \cup {None}
         /\ Seen(cron[c]) \in NixCronJobObject \cup {None}
         /\ Cur(mach) \in MachineObject \cup {None}
         /\ Seen(mach) \in MachineObject \cup {None}
<1>1. /\ cfg[c] \in Logs(ConfigObject \cup {None})
      /\ inst[c] \in Logs(InstallObject \cup {None})
      /\ dec[c] \in Logs(NixJobObject \cup {None})
      /\ cron[c] \in Logs(NixCronJobObject \cup {None})
      /\ mach \in Logs(MachineObject \cup {None})
  BY DEF TypeOK
<1> QED BY <1>1, LogVersions

\* A typed reconcile that is not idle is a busy one.
LEMMA BusyHere ==
  ASSUME TypeOK, ~At("idle")
  PROVE  /\ ctl \in Busy
         /\ me \in Configs
         /\ ctl.obj \in ConfigObject
         /\ ctl.host \in Nat
BY DEF TypeOK, At, Idle, Busy, me

\* Steps that only move the reconcile along.
LEMMA OnlyCtlTyped ==
  ASSUME TypeOK, UNCHANGED <<cfg, kids, mach, history, budgets>>, ctl' \in Busy \cup {Idle}
  PROVE  TypeOK'
BY DEF TypeOK, kids, history, budgets

\* A write to the configuration under reconcile.
LEMMA WriteConfigTyped ==
  ASSUME TypeOK, me \in Configs, NEW v \in ConfigObject \cup {None}, WriteConfig(v)
  PROVE  cfg' \in [Configs -> Logs(ConfigObject \cup {None})]
<1>1. Put(Lag.config, cfg[me], v) \in Logs(ConfigObject \cup {None})
  BY LogPut, LagsAreNat DEF TypeOK
<1> QED BY <1>1 DEF WriteConfig, TypeOK

\* Moving the program counter keeps a reconcile typed.
LEMMA GotoTyped ==
  ASSUME TypeOK, ~At("idle"), NEW p \in PCs \ {"idle"}, Goto(p)
  PROVE  ctl' \in Busy
BY BusyHere DEF Goto, Busy

\* Reporting a phase keeps a reconcile typed.
LEMMA ReportTyped ==
  ASSUME TypeOK, ~At("idle"), NEW ph \in Phases, NEW ap \in BOOLEAN, Report(ph, ap)
  PROVE  ctl' \in Busy
BY BusyHere DEF Report, Busy, ConfigObject, PCs

\* A copy that takes over a status is a configuration.
LEMMA WithStatusTyped ==
  ASSUME NEW o \in ConfigObject, NEW n \in ConfigObject
  PROVE  WithStatus(o, n) \in ConfigObject
BY DEF WithStatus, ConfigObject

\* The calls that write the install child keep its type.
LEMMA InstallCallsTyped ==
  ASSUME TypeOK, ~At("idle")
  PROVE  /\ InstallCreated => /\ inst' \in [Configs -> Logs(InstallObject \cup {None})]
                              /\ runs' \in [Configs -> Nat]
                              /\ ran' \in [Configs -> [flake : Nat, host : Nat]]
         /\ InstallChild => inst' \in [Configs -> Logs(InstallObject \cup {None})]
<1>b. me \in Configs /\ ctl.obj.flake \in Nat /\ ctl.host \in Nat
  BY BusyHere DEF ConfigObject
<1>1. inst[me] \in Logs(InstallObject \cup {None}) /\ inst \in [Configs -> Logs(InstallObject \cup {None})]
  BY <1>b DEF TypeOK
<1>2. NewInstall \in InstallObject /\ Args(NewInstall) \in [flake : Nat, host : Nat]
  BY <1>b DEF NewInstall, InstallObject, Args, Reports
<1>3. ASSUME InstallCreated
      PROVE  /\ inst' \in [Configs -> Logs(InstallObject \cup {None})]
             /\ runs' \in [Configs -> Nat]
             /\ ran' \in [Configs -> [flake : Nat, host : Nat]]
  <2>1. Put(Lag.job, inst[me], NewInstall) \in Logs(InstallObject \cup {None})
    BY <1>1, <1>2, LogPut, LagsAreNat
  <2>2. Counted(runs[me]) \in Nat /\ runs \in [Configs -> Nat]
    BY <1>b, CountedIsNat DEF TypeOK
  <2> QED BY <1>1, <1>2, <1>3, <2>1, <2>2 DEF InstallCreated, TypeOK
<1>4. ASSUME InstallChild
      PROVE  inst' \in [Configs -> Logs(InstallObject \cup {None})]
  <2>1. CASE Seen(inst[me]).del
    BY <1>1, <1>4, <2>1 DEF InstallChild
  <2>2. CASE ~Seen(inst[me]).del
    <3> DEFINE v == [Cur(inst[me]) EXCEPT !.flake = ctl.obj.flake, !.host = ctl.host]
    <3>1. Cur(inst[me]) \in InstallObject
      BY <1>1, <1>4, <2>2, LogVersions DEF InstallChild
    <3>2. v \in InstallObject \cup {None}
      BY <1>b, <3>1 DEF InstallObject
    <3> HIDE DEF v
    <3>3. Put(Lag.job, inst[me], v) \in Logs(InstallObject \cup {None})
      BY <1>1, <3>2, LogPut, LagsAreNat
    <3> QED BY <1>1, <1>4, <2>2, <3>3 DEF InstallChild, v
  <2> QED BY <2>1, <2>2
<1> QED BY <1>3, <1>4

\* The calls that write the day-two child keep its type.
LEMMA DayTwoCallsTyped ==
  ASSUME TypeOK, ~At("idle"), DayTwoCreated \/ DayTwoResumed
  PROVE  cron' \in [Configs -> Logs(NixCronJobObject \cup {None})]
<1>b. me \in Configs
  BY BusyHere
<1>1. cron[me] \in Logs(NixCronJobObject \cup {None})
  BY <1>b DEF TypeOK
<1>2. CASE DayTwoCreated
  <2>1. NewDayTwo \in NixCronJobObject
    BY DEF NewDayTwo, NixCronJobObject
  <2>2. Put(Lag.cron, cron[me], NewDayTwo) \in Logs(NixCronJobObject \cup {None})
    BY <1>1, <2>1, LogPut, LagsAreNat
  <2> QED BY <1>2, <2>2 DEF DayTwoCreated, TypeOK
<1>3. CASE DayTwoResumed
  <2>0. Seen(cron[me]) \in NixCronJobObject
    BY <1>1, <1>3, LogVersions DEF DayTwoResumed
  <2>1. [Seen(cron[me]) EXCEPT !.susp = FALSE] \in NixCronJobObject
    BY <2>0 DEF NixCronJobObject
  <2>2. Put(Lag.cron, cron[me], [Seen(cron[me]) EXCEPT !.susp = FALSE])
           \in Logs(NixCronJobObject \cup {None})
    BY <1>1, <2>1, LogPut, LagsAreNat
  <2> QED BY <1>3, <2>2 DEF DayTwoResumed, TypeOK
<1> QED BY <1>2, <1>3

\* The creation of the decommission job keeps its type.
LEMMA DecommissionCreatedTyped ==
  ASSUME TypeOK, ~At("idle"), DecommissionCreated
  PROVE  /\ dec' \in [Configs -> Logs(NixJobObject \cup {None})]
         /\ rmTries' \in [Configs -> Nat]
<1>b. me \in Configs
  BY BusyHere
<1>1. NewDecommission \in NixJobObject
  BY DEF NewDecommission, NixJobObject, Reports
<1>2. Put(Lag.job, dec[me], NewDecommission) \in Logs(NixJobObject \cup {None})
  BY <1>b, <1>1, LogPut, LagsAreNat DEF TypeOK
<1>3. Counted(rmTries[me]) \in Nat
  BY <1>b, CountedIsNat DEF TypeOK
<1> QED BY <1>2, <1>3 DEF DecommissionCreated, TypeOK

\* A rewrite of the status keeps the configuration's type.
LEMMA RewriteTyped ==
  ASSUME TypeOK, ~At("idle"), NEW v, Rewrite(v), v \in {Completed, Bumped}
  PROVE  /\ v \in ConfigObject
         /\ cfg' \in [Configs -> Logs(ConfigObject \cup {None})]
<1>b. me \in Configs
  BY BusyHere
<1>1. Seen(cfg[me]) \in ConfigObject
  BY <1>b, Versions DEF Rewrite
<1>2. Seen(cfg[me]).rmRetries + 1 \in Nat
  BY <1>1 DEF ConfigObject
<1>3. Completed \in ConfigObject /\ Bumped \in ConfigObject
  BY <1>1, <1>2 DEF Completed, Bumped, ConfigObject, Phases
<1> QED BY <1>b, <1>3, WriteConfigTyped DEF Rewrite

\* TypeOK needs one more fact to be inductive: while the Machine read at the gates
\* carries the current resourceVersion, the Machine exists.
AfterGates == {"install", "mark", "delDone", "delRetry", "daytwo", "writeback"}

MachineCopy == ctl.pc \in AfterGates => (ctl.mfresh => Cur(mach) # None)

\* The other is that a working copy which carries the current resourceVersion is one
\* of an object that exists.  It knows whether that object's install was completed
\* and, as long as the whole object may be written, everything else.
CopyIsCurrent ==
  ctl.pc # "idle" /\ ctl.fresh
    => /\ Cur(cfg[me]) # None
       /\ ctl.obj.done = Cur(cfg[me]).done
       /\ ctl.pc = "addFinalizer" => ctl.obj = Cur(cfg[me])

\* A step of the running reconcile, answered or not.
Pass == Step \/ AnswerLost

\* Only a running reconcile takes a step.
LEMMA StepIsBusy == ASSUME Pass PROVE ~At("idle")
BY DEF Pass, AnswerLost, InstallAnswerLost, MarkAnswerLost, DayTwoAnswerLost,
         DecommissionAnswerLost, Step, At, AddFinalizer, DropOnConflict, StatusUpdate, WithStatus, Blocked,
         SuspendDayTwo, PassGates, CreateInstall, InstallCreated, InstallConflict,
               InstallChild,
         InstallSucceeded, InstallWait, InstallExhausted, InstallRetry,
         DeleteFailedInstall, MarkFullDiskInstallCompleted, RewriteFails,
         DeleteDoneInstall, CreateDayTwo, DayTwoCreated, DayTwoConflict, ObserveDayTwo,
               DayTwoResumed,
         WriteBackMachineStatus, DeleteDayTwo, Decommission, CreateDecommission,
               DecommissionCreated,
         ClearMachineStatus, BumpOnRemoveRetries, DeleteFailedDecommission,
         DeleteDecommissionJob, Finalize

\* Every step of the running reconcile keeps the types.
LEMMA StepTyped ==
  ASSUME TypeOK, MachineCopy, CopyIsCurrent, Step
  PROVE  TypeOK'
<1> USE LagsAreNat
<1>0. ~At("idle")
  BY StepIsBusy DEF Pass
<1>b. /\ ctl \in Busy /\ me \in Configs /\ ctl.obj \in ConfigObject
  BY <1>0, BusyHere
<1>v. /\ Seen(cfg[me]) \in ConfigObject \cup {None}
      /\ Cur(cfg[me]) \in ConfigObject \cup {None}
      /\ Cur(inst[me]) \in InstallObject \cup {None}
      /\ Seen(cron[me]) \in NixCronJobObject \cup {None}
      /\ Cur(mach) \in MachineObject \cup {None}
  BY <1>b, Versions
<1>1. CASE AddFinalizer
  <2>1. [ctl.obj EXCEPT !.fin = TRUE] \in ConfigObject
    BY <1>b DEF ConfigObject
  <2>2. cfg' \in [Configs -> Logs(ConfigObject \cup {None})]
    BY <1>1, <1>b, <2>1, WriteConfigTyped DEF AddFinalizer
  <2>3. ctl' \in Busy
    BY <1>1, <1>b, <2>1 DEF AddFinalizer, Busy, PCs, ConfigObject
  <2> QED BY <1>1, <2>2, <2>3 DEF AddFinalizer, TypeOK, kids, history, budgets
<1>2. CASE DropOnConflict
  BY <1>2, OnlyCtlTyped DEF DropOnConflict
<1>3. CASE StatusUpdate
  <2>1. Cur(cfg[me]) \in ConfigObject
    BY <1>0, <1>3, <1>v DEF StatusUpdate, CopyIsCurrent, At
  <2>2. WithStatus(Cur(cfg[me]), ctl.obj) \in ConfigObject \cup {None}
    BY <1>b, <2>1, WithStatusTyped
  <2>3. cfg' \in [Configs -> Logs(ConfigObject \cup {None})]
    BY <1>3, <1>b, <2>2, WriteConfigTyped DEF StatusUpdate
  <2> QED BY <1>3, <2>3 DEF StatusUpdate, TypeOK, kids, history, budgets
<1>4. CASE Blocked
  <2>1. ctl' \in Busy
    BY <1>4, <1>b DEF Blocked, Busy, PCs, ConfigObject, Phases
  <2> QED BY <1>4, <2>1, OnlyCtlTyped DEF Blocked
<1>5. CASE SuspendDayTwo
  <2>1. cron' \in [Configs -> Logs(NixCronJobObject \cup {None})]
    <3>1. CASE Seen(cron[me]) # None /\ InSync(cron[me])
      <4>1. [Seen(cron[me]) EXCEPT !.susp = TRUE] \in NixCronJobObject
        BY <3>1, <1>v DEF NixCronJobObject
      <4>2. Put(Lag.cron, cron[me], [Seen(cron[me]) EXCEPT !.susp = TRUE])
               \in Logs(NixCronJobObject \cup {None})
        BY <4>1, <1>b, LogPut DEF TypeOK
      <4> QED BY <1>5, <3>1, <4>2 DEF SuspendDayTwo, TypeOK
    <3>2. CASE ~(Seen(cron[me]) # None /\ InSync(cron[me]))
      BY <1>5, <3>2 DEF SuspendDayTwo, TypeOK
    <3> QED BY <3>1, <3>2
  <2>2. ctl' \in Busy
    BY <1>0, <1>5, GotoTyped DEF SuspendDayTwo, PCs
  <2> QED BY <1>5, <2>1, <2>2 DEF SuspendDayTwo, TypeOK, history, budgets
<1>6. CASE PassGates
  <2>1. Seen(mach).host \in Nat
    BY <1>6, Versions, <1>b DEF PassGates, MachineReady, MachineObject
  <2>2. ctl' \in Busy
    BY <1>6, <1>b, <2>1 DEF PassGates, Busy, PCs, InSync
  <2> QED BY <1>6, <2>2, OnlyCtlTyped DEF PassGates
<1>7. CASE CreateInstall
  <2>1. /\ inst' \in [Configs -> Logs(InstallObject \cup {None})]
        /\ runs' \in [Configs -> Nat]
        /\ ran' \in [Configs -> [flake : Nat, host : Nat]]
    BY <1>0, <1>7, InstallCallsTyped DEF CreateInstall, TypeOK
  <2>2. ctl' \in Busy
    BY <1>0, <1>7, GotoTyped, ReportTyped DEF CreateInstall, PCs, Phases
  <2> QED BY <1>7, <2>1, <2>2 DEF CreateInstall, TypeOK, budgets
<1>8. CASE InstallConflict
  <2>1. ctl' \in Busy
    BY <1>0, <1>8, GotoTyped DEF InstallConflict, PCs
  <2> QED BY <1>8, <2>1, OnlyCtlTyped DEF InstallConflict
<1>9. CASE InstallSucceeded
  <2>1. ctl' \in Busy
    BY <1>0, <1>9, GotoTyped DEF InstallSucceeded, PCs
  <2>2. saw' \in [Configs -> BOOLEAN]
    BY <1>9, <1>b DEF InstallSucceeded, TypeOK
  <2>3. inst' \in [Configs -> Logs(InstallObject \cup {None})]
    BY <1>0, <1>9, InstallCallsTyped DEF InstallSucceeded
  <2> QED BY <1>9, <2>1, <2>2, <2>3 DEF InstallSucceeded, TypeOK, budgets
<1>10. CASE InstallWait
  <2>1. ctl' \in Busy
    BY <1>0, <1>10, ReportTyped DEF InstallWait, Phases
  <2>2. inst' \in [Configs -> Logs(InstallObject \cup {None})]
    BY <1>0, <1>10, InstallCallsTyped DEF InstallWait
  <2> QED BY <1>10, <2>1, <2>2 DEF InstallWait, TypeOK, history, budgets
<1>11. CASE InstallExhausted
  <2>1. ctl' \in Busy
    BY <1>0, <1>11, ReportTyped DEF InstallExhausted, Phases
  <2>2. inst' \in [Configs -> Logs(InstallObject \cup {None})]
    BY <1>0, <1>11, InstallCallsTyped DEF InstallExhausted
  <2> QED BY <1>11, <2>1, <2>2 DEF InstallExhausted, TypeOK, history, budgets
<1>12. CASE InstallRetry
  <2>1. ctl' \in Busy
    <3>1. [ctl.obj EXCEPT !.retries = @ + 1] \in ConfigObject
      BY <1>b DEF ConfigObject
    <3>2. ctl' = [ctl EXCEPT !.pc = "delRetry", !.obj = [ctl.obj EXCEPT !.retries = @ + 1]]
      BY <1>12, <1>b DEF InstallRetry, Busy
    <3> QED BY <3>1, <3>2, <1>b DEF Busy, PCs
  <2>2. inst' \in [Configs -> Logs(InstallObject \cup {None})]
    BY <1>0, <1>12, InstallCallsTyped DEF InstallRetry
  <2> QED BY <1>12, <2>1, <2>2 DEF InstallRetry, TypeOK, history, budgets
<1>13. CASE DeleteFailedInstall
  <2>1. inst' \in [Configs -> Logs(InstallObject \cup {None})]
    BY <1>13, <1>b, DeletedInstall DEF DeleteFailedInstall, TypeOK
  <2>2. ctl' \in Busy
    BY <1>0, <1>13, ReportTyped DEF DeleteFailedInstall, Phases
  <2> QED BY <1>13, <2>1, <2>2 DEF DeleteFailedInstall, TypeOK, history, budgets
<1>r. ASSUME NEW v \in ConfigObject, NEW p \in PCs \ {"idle"}, Rewritten(v, p)
      PROVE  ctl' \in Busy
  <2>1. WithStatus(ctl.obj, v) \in ConfigObject
    BY <1>b, WithStatusTyped
  <2>2. ctl' = [ctl EXCEPT !.pc = p, !.obj = WithStatus(ctl.obj, v), !.fresh = TRUE]
    BY <1>r, <1>b DEF Rewritten, Busy
  <2> QED BY <1>b, <2>1, <2>2 DEF Busy
<1>14. CASE MarkFullDiskInstallCompleted
  <2>1. Completed \in ConfigObject /\ cfg' \in [Configs -> Logs(ConfigObject \cup {None})]
    BY <1>0, <1>14, RewriteTyped DEF MarkFullDiskInstallCompleted
  <2>2. ctl' \in Busy
    BY <1>14, <1>r, <2>1 DEF MarkFullDiskInstallCompleted, PCs
  <2> QED BY <1>14, <2>1, <2>2
          DEF MarkFullDiskInstallCompleted, TypeOK, kids, history, budgets
<1>15. CASE RewriteFails
  <2>1. ctl' \in Busy \cup {Idle}
    BY <1>15, <1>b DEF RewriteFails, Busy, PCs
  <2> QED BY <1>15, <2>1, OnlyCtlTyped DEF RewriteFails
<1>16. CASE DeleteDoneInstall
  <2>1. inst' \in [Configs -> Logs(InstallObject \cup {None})]
    BY <1>16, <1>b, DeletedInstall DEF DeleteDoneInstall, TypeOK
  <2>2. ctl' \in Busy
    BY <1>0, <1>16, GotoTyped DEF DeleteDoneInstall, PCs
  <2> QED BY <1>16, <2>1, <2>2 DEF DeleteDoneInstall, TypeOK, history, budgets
<1>17. CASE CreateDayTwo
  <2>1. cron' \in [Configs -> Logs(NixCronJobObject \cup {None})]
    BY <1>0, <1>17, DayTwoCallsTyped DEF CreateDayTwo, TypeOK
  <2>2. ctl.obj.done \in BOOLEAN
    BY <1>b DEF ConfigObject
  <2>3. ctl' \in Busy
    BY <1>0, <1>17, <2>2, GotoTyped, ReportTyped DEF CreateDayTwo, PCs, Phases
  <2> QED BY <1>17, <2>1, <2>3 DEF CreateDayTwo, TypeOK, history, budgets
<1>18. CASE DayTwoConflict
  <2>1. ctl' \in Busy
    BY <1>0, <1>18, GotoTyped DEF DayTwoConflict, PCs
  <2> QED BY <1>18, <2>1, OnlyCtlTyped DEF DayTwoConflict
<1>19. CASE ObserveDayTwo
  <2>3. cron' \in [Configs -> Logs(NixCronJobObject \cup {None})]
    BY <1>0, <1>19, DayTwoCallsTyped DEF ObserveDayTwo
  <2>4. (ctl.obj.done \/ Seen(cron[me]).ran) \in BOOLEAN
    OBVIOUS
  <2>5. ctl' \in Busy
    <3>1. CASE ctl' = [ctl EXCEPT !.pc = "writeback", !.obj.phase = "Ready",
                                  !.obj.applied = TRUE]
      BY <3>1, <1>b DEF Busy, PCs, ConfigObject, Phases
    <3>2. CASE \E ph \in Phases : Report(ph, ctl.obj.done \/ Seen(cron[me]).ran)
      BY <3>2, <2>4, <1>0, ReportTyped
    <3> QED BY <1>19, <3>1, <3>2 DEF ObserveDayTwo, Phases
  <2> QED BY <1>19, <2>3, <2>5 DEF ObserveDayTwo, TypeOK, history, budgets
<1>20. CASE WriteBackMachineStatus
  <2>1. ctl.mfresh => [Cur(mach) EXCEPT !.ac = me] \in MachineObject
    BY <1>20, <1>b, <1>v DEF WriteBackMachineStatus, At, MachineCopy, AfterGates, MachineObject
  <2>2. ctl.mfresh => Put(Lag.machine, mach, [Cur(mach) EXCEPT !.ac = me])
                        \in Logs(MachineObject \cup {None})
    BY <2>1, LogPut DEF TypeOK
  <2>3. mach' \in Logs(MachineObject \cup {None})
    BY <1>20, <2>2 DEF WriteBackMachineStatus, TypeOK
  <2>4. ctl' \in Busy
    BY <1>0, <1>20, GotoTyped DEF WriteBackMachineStatus, PCs
  <2> QED BY <1>20, <2>3, <2>4 DEF WriteBackMachineStatus, TypeOK, kids, history, budgets
<1>21. CASE DeleteDayTwo
  <2>1. cron' \in [Configs -> Logs(NixCronJobObject \cup {None})]
    BY <1>21, <1>b, DeletedCron DEF DeleteDayTwo, TypeOK
  <2>2. ctl' \in Busy
    BY <1>0, <1>21, GotoTyped DEF DeleteDayTwo, PCs
  <2> QED BY <1>21, <2>1, <2>2 DEF DeleteDayTwo, TypeOK, history, budgets
<1>22. CASE Decommission
  <2>1. ctl' \in Busy
    <3> DEFINE Decide(p, mine) ==
                 ctl' = [ctl EXCEPT !.pc = p, !.mine = mine, !.mfresh = InSync(mach)]
               Decided == {"clearOnly", "clear", "finalize", "createDec", "dropJob", "bump"}
    <3>1. \/ \E p \in Decided, mine \in BOOLEAN : Decide(p, mine)
          \/ ctl' = [ctl EXCEPT !.pc = "rmStatus", !.obj.phase = "Removing"]
      BY <1>22 DEF Decommission, AfterStamp
    <3>2. ASSUME NEW p \in Decided, NEW mine \in BOOLEAN, Decide(p, mine)
          PROVE  ctl' \in Busy
      BY <3>2, <1>b DEF Busy, PCs, InSync
    <3>3. ASSUME ctl' = [ctl EXCEPT !.pc = "rmStatus", !.obj.phase = "Removing"]
          PROVE  ctl' \in Busy
      BY <3>3, <1>b DEF Busy, PCs, ConfigObject, Phases
    <3> QED BY <3>1, <3>2, <3>3
  <2> QED BY <1>22, <2>1, OnlyCtlTyped DEF Decommission
<1>23. CASE CreateDecommission
  <2>1. /\ dec' \in [Configs -> Logs(NixJobObject \cup {None})]
        /\ rmTries' \in [Configs -> Nat]
    BY <1>0, <1>23, DecommissionCreatedTyped DEF CreateDecommission, TypeOK
  <2>2. ctl' \in Busy
    <3>1. \/ Goto("finalize")
          \/ ctl' = [ctl EXCEPT !.pc = "rmStatus", !.obj.phase = "Removing"]
      BY <1>23 DEF CreateDecommission
    <3>2. ASSUME ctl' = [ctl EXCEPT !.pc = "rmStatus", !.obj.phase = "Removing"]
          PROVE  ctl' \in Busy
      BY <3>2, <1>b DEF Busy, PCs, ConfigObject, Phases
    <3> QED BY <1>0, <3>1, <3>2, GotoTyped DEF PCs
  <2> QED BY <1>23, <2>1, <2>2 DEF CreateDecommission, TypeOK, budgets
<1>24. CASE ClearMachineStatus
  <2>1. Cur(mach) # None => [Cur(mach) EXCEPT !.ac = None] \in MachineObject
    BY <1>v DEF MachineObject
  <2>2. Cur(mach) # None => Put(Lag.machine, mach, [Cur(mach) EXCEPT !.ac = None])
                              \in Logs(MachineObject \cup {None})
    BY <2>1, LogPut DEF TypeOK
  <2>3. mach' \in Logs(MachineObject \cup {None})
    BY <1>24, <2>2 DEF ClearMachineStatus, TypeOK
  <2>4. ctl' \in Busy \cup {Idle}
    BY <1>24, <1>b DEF ClearMachineStatus, Goto, Busy, PCs
  <2> QED BY <1>24, <2>3, <2>4 DEF ClearMachineStatus, TypeOK, kids, history, budgets
<1>25. CASE BumpOnRemoveRetries
  <2>1. Bumped \in ConfigObject /\ cfg' \in [Configs -> Logs(ConfigObject \cup {None})]
    BY <1>0, <1>25, RewriteTyped DEF BumpOnRemoveRetries
  <2>2. ctl' \in Busy
    BY <1>25, <1>r, <2>1 DEF BumpOnRemoveRetries, PCs
  <2> QED BY <1>25, <2>1, <2>2 DEF BumpOnRemoveRetries, TypeOK, kids, history, budgets
<1>26. CASE DeleteFailedDecommission
  <2>1. dec' \in [Configs -> Logs(NixJobObject \cup {None})]
    BY <1>26, <1>b, DeletedJob DEF DeleteFailedDecommission, TypeOK
  <2>2. ctl' \in Busy
    BY <1>26, <1>b DEF DeleteFailedDecommission, AfterStamp, Goto, Busy, PCs
  <2> QED BY <1>26, <2>1, <2>2 DEF DeleteFailedDecommission, TypeOK, history, budgets
<1>27. CASE DeleteDecommissionJob
  <2>1. dec' \in [Configs -> Logs(NixJobObject \cup {None})]
    BY <1>27, <1>b, DeletedJob DEF DeleteDecommissionJob, TypeOK
  <2>2. ctl' \in Busy
    BY <1>0, <1>27, GotoTyped DEF DeleteDecommissionJob, PCs
  <2> QED BY <1>27, <2>1, <2>2 DEF DeleteDecommissionJob, TypeOK, history, budgets
<1>28. CASE Finalize
  <2>1. cfg' \in [Configs -> Logs(ConfigObject \cup {None})]
    BY <1>28, <1>b, WriteConfigTyped DEF Finalize
  <2> QED BY <1>28, <2>1 DEF Finalize, TypeOK, kids, history, budgets
<1> QED BY <1>1, <1>2, <1>3, <1>4, <1>5, <1>6, <1>7, <1>8, <1>9, <1>10, <1>11,
           <1>12, <1>13, <1>14, <1>15, <1>16, <1>17, <1>18, <1>19, <1>20, <1>21,
           <1>22, <1>23, <1>24, <1>25, <1>26, <1>27, <1>28 DEF Step

\* A call whose answer was lost keeps the types.
LEMMA AnswerLostTyped ==
  ASSUME TypeOK, AnswerLost
  PROVE  TypeOK'
<1> USE LagsAreNat
<1>0. ~At("idle")
  BY StepIsBusy DEF Pass
<1>b. /\ ctl \in Busy /\ me \in Configs
  BY <1>0, BusyHere
<1>1. faults' \in Nat /\ UNCHANGED <<edits, blips, set>>
  BY DEF AnswerLost, TypeOK
<1>2. AfterError \in Busy \cup {Idle}
  BY <1>b DEF AfterError, Busy, PCs
<1>3. CASE InstallAnswerLost
  <2>1. /\ inst' \in [Configs -> Logs(InstallObject \cup {None})]
        /\ runs' \in [Configs -> Nat]
        /\ ran' \in [Configs -> [flake : Nat, host : Nat]]
    <3>1. CASE InstallCreated \/ (InstallChild /\ UNCHANGED <<runs, ran>>)
      BY <1>0, <3>1, InstallCallsTyped DEF TypeOK
    <3>2. CASE /\ inst' = [inst EXCEPT ![me] = Deleted(Lag.job, @)]
               /\ UNCHANGED <<runs, ran>>
      BY <1>b, <3>2, DeletedInstall DEF TypeOK
    <3> QED BY <1>3, <3>1, <3>2 DEF InstallAnswerLost
  <2> QED BY <1>1, <1>2, <1>3, <2>1 DEF InstallAnswerLost, TypeOK
<1>4. CASE MarkAnswerLost
  <2>1. cfg' \in [Configs -> Logs(ConfigObject \cup {None})]
    BY <1>0, <1>4, RewriteTyped DEF MarkAnswerLost
  <2>2. ctl' \in Busy
    <3>1. AfterError = [ctl EXCEPT !.pc = "status"]
      BY <1>4 DEF MarkAnswerLost, AfterError, At
    <3> QED BY <1>4, <1>b, <3>1 DEF MarkAnswerLost, Busy, PCs
  <2> QED BY <1>1, <1>4, <2>1, <2>2 DEF MarkAnswerLost, TypeOK, kids, history
<1>5. CASE DayTwoAnswerLost
  <2>1. cron' \in [Configs -> Logs(NixCronJobObject \cup {None})]
    BY <1>0, <1>5, DayTwoCallsTyped DEF DayTwoAnswerLost
  <2> QED BY <1>1, <1>2, <1>5, <2>1 DEF DayTwoAnswerLost, TypeOK, history
<1>6. CASE DecommissionAnswerLost
  <2>1. /\ dec' \in [Configs -> Logs(NixJobObject \cup {None})]
        /\ rmTries' \in [Configs -> Nat]
    BY <1>0, <1>6, DecommissionCreatedTyped DEF DecommissionAnswerLost
  <2>2. ctl' \in Busy
    <3>1. AfterError = [ctl EXCEPT !.pc = "finalize"]
      BY <1>6 DEF DecommissionAnswerLost, DecommissionCreated, AfterError, At
    <3> QED BY <1>6, <1>b, <3>1 DEF DecommissionAnswerLost, Busy, PCs
  <2> QED BY <1>1, <1>6, <2>1, <2>2 DEF DecommissionAnswerLost, TypeOK
<1> QED BY <1>3, <1>4, <1>5, <1>6 DEF AnswerLost

\* The start of a reconcile, faults, the user and the rest of the cluster.
LEMMA OthersTyped ==
  ASSUME TypeOK,
         \/ ApiError \/ Crash \/ MachineChanges \/ DeliverMachine
         \/ \E c \in Configs : Reconcile(c) \/ User(c) \/ Workloads(c) \/ Watch(c)
  PROVE  TypeOK'
<1> USE LagsAreNat
<1>1. CASE ApiError
  <2>1. ctl \in Busy /\ ctl' = AfterError
    BY <1>1, BusyHere DEF ApiError
  <2>2. ctl' \in Busy \cup {Idle}
    BY <2>1 DEF AfterError, Busy, PCs
  <2>3. faults' \in Nat
    BY <1>1 DEF ApiError, TypeOK
  <2> QED BY <1>1, <2>2, <2>3 DEF ApiError, TypeOK, kids, history
<1>2. CASE Crash
  <2>1. /\ \A c \in Configs : Relisted(cfg[c]) \in Logs(ConfigObject \cup {None})
        /\ \A c \in Configs : Relisted(inst[c]) \in Logs(InstallObject \cup {None})
        /\ \A c \in Configs : Relisted(dec[c]) \in Logs(NixJobObject \cup {None})
        /\ \A c \in Configs : Relisted(cron[c]) \in Logs(NixCronJobObject \cup {None})
        /\ Relisted(mach) \in Logs(MachineObject \cup {None})
    BY LogRelisted DEF TypeOK
  <2>2. faults' \in Nat
    BY <1>2 DEF Crash, TypeOK
  <2> QED BY <1>2, <2>1, <2>2 DEF Crash, TypeOK, history
<1>3. CASE MachineChanges
  <2>1. Cur(mach) \in MachineObject
    BY <1>3, LogVersions DEF MachineChanges, TypeOK
  <2>2. \A v \in {[Cur(mach) EXCEPT !.disc = ~@], [Cur(mach) EXCEPT !.key = ~@],
                 [Cur(mach) EXCEPT !.host = @ + 1], None} :
          v \in MachineObject \cup {None}
    <3>1. Cur(mach).host + 1 \in Nat
      BY <2>1 DEF MachineObject
    <3> QED BY <2>1, <3>1 DEF MachineObject
  <2>3. mach' \in Logs(MachineObject \cup {None})
    <3>1. PICK v \in MachineObject \cup {None} : mach' = Put(Lag.machine, mach, v)
      BY <1>3, <2>2 DEF MachineChanges
    <3>2. mach \in Logs(MachineObject \cup {None})
      BY DEF TypeOK
    <3> QED BY <3>1, <3>2, LogPut
  <2>4. ctl' \in Busy \cup {Idle}
    <3>1. ctl' = [ctl EXCEPT !.mfresh = FALSE]
      BY <1>3 DEF MachineChanges
    <3>2. CASE ctl = Idle
      BY <3>1, <3>2 DEF Idle
    <3>3. CASE ctl \in Busy
      BY <3>1, <3>3 DEF Busy
    <3> QED BY <3>2, <3>3 DEF TypeOK
  <2>5. blips' \in Nat
    BY <1>3 DEF MachineChanges, TypeOK
  <2> QED BY <1>3, <2>3, <2>4, <2>5 DEF MachineChanges, TypeOK, kids, history
<1>4. CASE DeliverMachine
  <2>1. Delivered(mach) \in Logs(MachineObject \cup {None})
    BY <1>4, LogDelivered DEF DeliverMachine, TypeOK
  <2> QED BY <1>4, <2>1 DEF DeliverMachine, TypeOK, kids, history, budgets
<1>5. ASSUME NEW c \in Configs, Reconcile(c) PROVE TypeOK'
  <2>1. Seen(cfg[c]) \in ConfigObject
    BY <1>5, Versions DEF Reconcile
  <2>2. ctl' \in Busy
    BY <1>5, <2>1 DEF Reconcile, Busy, PCs, InSync
  <2> QED BY <1>5, <2>2, OnlyCtlTyped DEF Reconcile
<1>6. ASSUME NEW c \in Configs, NEW v \in ConfigObject \cup {None}, UserWrites(c, v)
      PROVE  /\ cfg' \in [Configs -> Logs(ConfigObject \cup {None})]
             /\ ctl' \in Busy \cup {Idle}
  <2>1. Put(Lag.config, cfg[c], v) \in Logs(ConfigObject \cup {None})
    BY <1>6, LogPut DEF TypeOK
  <2>2. ctl' \in Busy \cup {Idle}
    <3>1. ctl' = ctl \/ (ctl.c = c /\ ctl' = [ctl EXCEPT !.fresh = FALSE])
      BY <1>6 DEF UserWrites
    <3>2. CASE ctl = Idle
      BY <3>1, <3>2 DEF Idle
    <3>3. CASE ctl \in Busy
      BY <3>1, <3>3 DEF Busy
    <3> QED BY <3>2, <3>3 DEF TypeOK
  <2> QED BY <1>6, <2>1, <2>2 DEF UserWrites, TypeOK
<1>7. ASSUME NEW c \in Configs, CreateConfig(c) PROVE TypeOK'
  <2>1. PICK last \in Configs, s \in Specs : \E t \in {born[last], born[last] + 1} :
          /\ born' = [born EXCEPT ![c] = t]
          /\ UserWrites(c, [ctime |-> t, del |-> FALSE, fin |-> FALSE, full |-> s.full,
                            onrm |-> s.onrm, flake |-> 0, done |-> FALSE, retries |-> 0,
                            rmRetries |-> 0, phase |-> "Pending", applied |-> FALSE])
          /\ UNCHANGED <<kids, mach, runs, reruns, ran, saw, rmTries, rmFails, budgets>>
    BY <1>7 DEF CreateConfig
  <2>2. /\ born[last] \in Nat /\ born[last] + 1 \in Nat
        /\ s \in [full : BOOLEAN, onrm : BOOLEAN]
    BY SpecsAreSpecs DEF TypeOK
  <2>3. PICK t \in Nat :
          /\ born' = [born EXCEPT ![c] = t]
          /\ UserWrites(c, [ctime |-> t, del |-> FALSE, fin |-> FALSE, full |-> s.full,
                            onrm |-> s.onrm, flake |-> 0, done |-> FALSE, retries |-> 0,
                            rmRetries |-> 0, phase |-> "Pending", applied |-> FALSE])
          /\ UNCHANGED <<kids, mach, runs, reruns, ran, saw, rmTries, rmFails, budgets>>
    BY <2>1, <2>2
  <2>4. [ctime |-> t, del |-> FALSE, fin |-> FALSE, full |-> s.full, onrm |-> s.onrm,
         flake |-> 0, done |-> FALSE, retries |-> 0, rmRetries |-> 0, phase |-> "Pending",
         applied |-> FALSE] \in ConfigObject \cup {None}
    BY <2>2 DEF ConfigObject, Phases
  <2> QED BY <1>6, <2>3, <2>4 DEF TypeOK, kids, budgets
<1>8. ASSUME NEW c \in Configs, EditConfig(c) PROVE TypeOK'
  <2>1. Cur(cfg[c]) \in ConfigObject
    BY <1>8, Versions DEF EditConfig
  <2>2. PICK s \in Specs, k \in {0, 1} :
          UserWrites(c, [Cur(cfg[c]) EXCEPT !.full = s.full, !.onrm = s.onrm,
                                            !.flake = @ + k])
    BY <1>8 DEF EditConfig
  <2>3. [Cur(cfg[c]) EXCEPT !.full = s.full, !.onrm = s.onrm, !.flake = @ + k]
           \in ConfigObject \cup {None}
    <3>1. Cur(cfg[c]).flake + k \in Nat
      BY <2>1 DEF ConfigObject
    <3>2. s \in [full : BOOLEAN, onrm : BOOLEAN]
      BY SpecsAreSpecs
    <3> QED BY <2>1, <3>1, <3>2 DEF ConfigObject
  <2>4. edits' \in Nat
    BY <1>8 DEF EditConfig, TypeOK
  <2> QED BY <1>6, <1>8, <2>2, <2>3, <2>4 DEF EditConfig, TypeOK, kids, history
<1>9. ASSUME NEW c \in Configs, DeleteConfig(c) PROVE TypeOK'
  <2>1. Cur(cfg[c]) \in ConfigObject
    BY <1>9, Versions DEF DeleteConfig
  <2>2. [Cur(cfg[c]) EXCEPT !.del = TRUE] \in ConfigObject
    BY <2>1 DEF ConfigObject
  <2> QED BY <1>6, <1>9, <2>2 DEF DeleteConfig, TypeOK, kids, history, budgets
<1>10. ASSUME NEW c \in Configs,
              InstallEnds(c) \/ InstallSucceedsLate(c) \/ InstallReruns(c)
       PROVE  TypeOK'
  <2>1. Cur(inst[c]) \in InstallObject
    BY <1>10, Versions DEF InstallEnds, InstallSucceedsLate, InstallReruns
  <2>2. \A s \in {"active", "failed", "succeeded"} :
          Put(Lag.job, inst[c], [Cur(inst[c]) EXCEPT !.st = s])
            \in Logs(InstallObject \cup {None})
    BY <2>1, LogPut DEF TypeOK, InstallObject, Reports
  <2>3. inst' \in [Configs -> Logs(InstallObject \cup {None})]
    <3>1. PICK s \in {"active", "failed", "succeeded"} :
            inst' = [inst EXCEPT ![c] = Put(Lag.job, @, [Cur(inst[c]) EXCEPT !.st = s])]
      <4>1. CASE InstallEnds(c) \/ InstallSucceedsLate(c)
        BY <4>1 DEF InstallEnds, InstallSucceedsLate
      <4>2. CASE InstallReruns(c)
        BY <4>2 DEF InstallReruns
      <4> QED BY <1>10, <4>1, <4>2
    <3> QED BY <3>1, <2>2 DEF TypeOK
  <2>4. CASE InstallEnds(c) \/ InstallSucceedsLate(c)
    BY <2>3, <2>4 DEF InstallEnds, InstallSucceedsLate, TypeOK, history, budgets
  <2>5. CASE InstallReruns(c)
    <3>1. Args(Cur(inst[c])) \in [flake : Nat, host : Nat]
      BY <2>1 DEF Args, InstallObject
    <3>2. /\ reruns' \in [Configs -> Nat] /\ saw' \in [Configs -> BOOLEAN]
          /\ ran' \in [Configs -> [flake : Nat, host : Nat]]
      BY <2>5, <3>1, CountedIsNat DEF InstallReruns, TypeOK
    <3> QED BY <2>3, <2>5, <3>2 DEF InstallReruns, TypeOK, budgets
  <2> QED BY <1>10, <2>4, <2>5
<1>11. ASSUME NEW c \in Configs,
              DecommissionEnds(c) \/ DecommissionSucceedsLate(c) \/ DecommissionReruns(c)
       PROVE  TypeOK'
  <2>1. Cur(dec[c]) \in NixJobObject
    BY <1>11, Versions DEF DecommissionEnds, DecommissionSucceedsLate, DecommissionReruns
  <2>2. \A s \in {"active", "failed", "succeeded"} :
          Put(Lag.job, dec[c], [Cur(dec[c]) EXCEPT !.st = s])
            \in Logs(NixJobObject \cup {None})
    BY <2>1, LogPut DEF TypeOK, NixJobObject, Reports
  <2>3. dec' \in [Configs -> Logs(NixJobObject \cup {None})]
    <3>1. PICK s \in {"active", "failed", "succeeded"} :
            dec' = [dec EXCEPT ![c] = Put(Lag.job, @, [Cur(dec[c]) EXCEPT !.st = s])]
      <4>1. CASE DecommissionEnds(c) \/ DecommissionSucceedsLate(c)
        BY <4>1 DEF DecommissionEnds, DecommissionSucceedsLate
      <4>2. CASE DecommissionReruns(c)
        BY <4>2 DEF DecommissionReruns
      <4> QED BY <1>11, <4>1, <4>2
    <3> QED BY <3>1, <2>2 DEF TypeOK
  <2>4. CASE DecommissionEnds(c)
    <3>1. rmFails' \in [Configs -> Nat]
      BY <2>4 DEF DecommissionEnds, TypeOK
    <3> QED BY <2>3, <2>4, <3>1 DEF DecommissionEnds, TypeOK, budgets
  <2>5. CASE DecommissionSucceedsLate(c)
    BY <2>3, <2>5 DEF DecommissionSucceedsLate, TypeOK, history, budgets
  <2>6. CASE DecommissionReruns(c)
    <3>1. blips' \in Nat
      BY <2>6 DEF DecommissionReruns, TypeOK
    <3> QED BY <2>3, <2>6, <3>1 DEF DecommissionReruns, TypeOK, history
  <2> QED BY <1>11, <2>4, <2>5, <2>6
<1>12. ASSUME NEW c \in Configs, DayTwoOutcome(c) PROVE TypeOK'
  <2>1. Cur(cron[c]) \in NixCronJobObject
    BY <1>12, Versions DEF DayTwoOutcome
  <2>2. \A s \in DayTwoResults, b \in BOOLEAN :
          [Cur(cron[c]) EXCEPT !.st = s, !.ran = @ \/ b]
            \in NixCronJobObject \cup {None}
    BY <2>1, DayTwoResultsAre DEF NixCronJobObject
  <2>3. cron' \in [Configs -> Logs(NixCronJobObject \cup {None})]
    <3>1. PICK v \in NixCronJobObject \cup {None} :
            cron' = [cron EXCEPT ![c] = Put(Lag.cron, @, v)]
      BY <1>12, <2>2 DEF DayTwoOutcome
    <3>2. Put(Lag.cron, cron[c], v) \in Logs(NixCronJobObject \cup {None})
      BY LogPut DEF TypeOK
    <3> QED BY <3>1, <3>2 DEF TypeOK
  <2> QED BY <1>12, <2>3 DEF DayTwoOutcome, TypeOK, history, budgets
<1>13. ASSUME NEW c \in Configs, ReleaseChild(c) PROVE TypeOK'
  <2>1. /\ Put(Lag.job, inst[c], None) \in Logs(InstallObject \cup {None})
        /\ Put(Lag.job, dec[c], None) \in Logs(NixJobObject \cup {None})
        /\ Put(Lag.cron, cron[c], None) \in Logs(NixCronJobObject \cup {None})
    BY LogPut DEF TypeOK
  <2> QED BY <1>13, <2>1 DEF ReleaseChild, TypeOK, history, budgets
<1>14. ASSUME NEW c \in Configs, GarbageCollect(c) PROVE TypeOK'
  <2>1. /\ Deleted(Lag.job, inst[c]) \in Logs(InstallObject \cup {None})
        /\ Deleted(Lag.cron, cron[c]) \in Logs(NixCronJobObject \cup {None})
    BY DeletedInstall, DeletedCron DEF TypeOK
  <2> QED BY <1>14, <2>1 DEF GarbageCollect, TypeOK, history, budgets
<1>15. ASSUME NEW c \in Configs, Watch(c) PROVE TypeOK'
  <2>1. /\ ~InSync(cfg[c]) => Delivered(cfg[c]) \in Logs(ConfigObject \cup {None})
        /\ ~InSync(inst[c]) => Delivered(inst[c]) \in Logs(InstallObject \cup {None})
        /\ ~InSync(dec[c]) => Delivered(dec[c]) \in Logs(NixJobObject \cup {None})
        /\ ~InSync(cron[c]) => Delivered(cron[c]) \in Logs(NixCronJobObject \cup {None})
    BY LogDelivered DEF TypeOK
  <2> QED BY <1>15, <2>1 DEF Watch, DeliverConfig, DeliverInstall, DeliverDecommission,
                              DeliverDayTwo, TypeOK, kids, history, budgets
<1> QED BY <1>1, <1>2, <1>3, <1>4, <1>5, <1>7, <1>8, <1>9, <1>10, <1>11, <1>12,
           <1>13, <1>14, <1>15 DEF User, Workloads

\* A Machine whose copy is current is not removed under it: each step that writes
\* the Machine either keeps it or outdates the copy.
LEMMA MachineCopyKept ==
  ASSUME TypeOK, MachineCopy, Next
  PROVE  MachineCopy'
<1>0. ASSUME UNCHANGED mach,
             ctl'.pc \in AfterGates => ctl.pc \in AfterGates /\ ctl'.mfresh = ctl.mfresh
      PROVE  MachineCopy'
  BY <1>0 DEF MachineCopy
<1>1. CASE Step
  <2>0. ctl \in Busy
    BY <1>1, StepIsBusy, BusyHere DEF Pass
  <2>1. CASE PassGates
    <3>1. InSync(mach) => Cur(mach) # None
      BY <2>1, LogVersions DEF PassGates, MachineReady, TypeOK
    <3> QED BY <2>0, <2>1, <3>1 DEF PassGates, MachineCopy, Busy
  <2>2. CASE WriteBackMachineStatus \/ ClearMachineStatus
    BY <2>0, <2>2 DEF WriteBackMachineStatus, ClearMachineStatus, MachineCopy,
                      AfterGates, Goto, At, Busy, Idle
  <2>3. CASE DropOnConflict \/ StatusUpdate \/ AddFinalizer \/ Finalize
    <3>1. UNCHANGED mach
      BY <2>3 DEF DropOnConflict, StatusUpdate, WithStatus, AddFinalizer, Finalize
    <3>2. ctl' = Idle \/ AddFinalizer
      BY <2>3 DEF DropOnConflict, StatusUpdate, WithStatus, Finalize
    <3>3. AddFinalizer => ctl'.pc = "gates"
      BY <2>0 DEF AddFinalizer, Busy
    <3>4. ctl'.pc \in {"idle", "gates"}
      BY <3>2, <3>3 DEF Idle
    <3> QED BY <1>0, <3>1, <3>4 DEF AfterGates
  <2>4. CASE Blocked \/ SuspendDayTwo
    BY <1>0, <2>0, <2>4 DEF Blocked, SuspendDayTwo, AfterGates, Goto, Busy
  <2>5. CASE \/ CreateInstall \/ InstallConflict \/ InstallSucceeded
             \/ InstallWait \/ InstallExhausted \/ InstallRetry
    <3>1. ctl.pc = "install" /\ UNCHANGED mach
      BY <2>5 DEF CreateInstall, InstallCreated, InstallConflict, InstallSucceeded,
            InstallWait,
                  InstallExhausted, InstallRetry, InstallChild, At
    <3>2. ctl'.mfresh = ctl.mfresh
      BY <2>0, <2>5 DEF CreateInstall, InstallCreated, InstallConflict, InstallSucceeded,
            InstallChild, InstallWait,
                  InstallExhausted, InstallRetry, Goto, Report, Busy
    <3> QED BY <1>0, <3>1, <3>2 DEF AfterGates
  <2>6. CASE \/ DeleteFailedInstall \/ MarkFullDiskInstallCompleted
             \/ RewriteFails \/ DeleteDoneInstall
    <3>1. UNCHANGED mach
      BY <2>6 DEF DeleteFailedInstall, MarkFullDiskInstallCompleted, RewriteFails,
                  DeleteDoneInstall
    <3>2. CASE DeleteFailedInstall \/ RewriteFails
      <4>1. ctl'.pc \in {"idle", "status"}
        <5>1. DeleteFailedInstall => ctl'.pc = "status"
          BY <2>0 DEF DeleteFailedInstall, Report, Busy
        <5>2. RewriteFails => ctl'.pc \in {"idle", "status"}
          BY <2>0 DEF RewriteFails, Busy, Idle
        <5> QED BY <3>2, <5>1, <5>2
      <4> QED BY <1>0, <3>1, <4>1 DEF AfterGates
    <3>3. CASE MarkFullDiskInstallCompleted \/ DeleteDoneInstall
      <4>1. ctl'.mfresh = ctl.mfresh
        BY <2>0, <3>3 DEF MarkFullDiskInstallCompleted, DeleteDoneInstall, Rewrite,
              Rewritten, Completed, Bumped, WithStatus,
                          Goto, Busy
      <4>2. ctl.pc \in AfterGates
        BY <3>3 DEF MarkFullDiskInstallCompleted, DeleteDoneInstall, At, AfterGates
      <4> QED BY <1>0, <3>1, <4>1, <4>2
    <3> QED BY <2>6, <3>2, <3>3
  <2>7. CASE CreateDayTwo \/ DayTwoConflict \/ ObserveDayTwo
    <3>1. ctl.pc = "daytwo" /\ UNCHANGED mach
      BY <2>7 DEF CreateDayTwo, DayTwoCreated, DayTwoConflict, ObserveDayTwo,
            DayTwoResumed, At
    <3>2. ctl'.mfresh = ctl.mfresh
      BY <2>0, <2>7 DEF CreateDayTwo, DayTwoCreated, DayTwoConflict, ObserveDayTwo,
            DayTwoResumed, Goto, Report, Busy
    <3> QED BY <1>0, <3>1, <3>2 DEF AfterGates
  <2>8. CASE DeleteDayTwo \/ CreateDecommission \/ BumpOnRemoveRetries
    BY <1>0, <2>0, <2>8 DEF DeleteDayTwo, CreateDecommission, DecommissionCreated,
          BumpOnRemoveRetries,
         Rewrite, Rewritten, Completed, Bumped, WithStatus, AfterGates, Goto, Busy
  <2>9. CASE Decommission
    <3>1. UNCHANGED mach
      BY <2>9 DEF Decommission
    <3>2. ctl'.pc \in {"clearOnly", "clear", "finalize", "createDec", "dropJob", "bump",
                       "rmStatus"}
      BY <2>0, <2>9 DEF Decommission, AfterStamp, Busy
    <3> QED BY <1>0, <3>1, <3>2 DEF AfterGates
  <2>10. CASE DeleteFailedDecommission \/ DeleteDecommissionJob
    BY <1>0, <2>0, <2>10 DEF DeleteFailedDecommission, DeleteDecommissionJob,
         AfterStamp, AfterGates, Goto, Busy
  <2> QED BY <1>1, <2>1, <2>2, <2>3, <2>4, <2>5, <2>6, <2>7, <2>8, <2>9, <2>10 DEF Step
<1>2. CASE ApiError
  BY <1>0, <1>2, BusyHere DEF ApiError, AfterError, AfterGates, At, Busy, Idle
<1>9. CASE AnswerLost
  <2>0. ctl \in Busy
    BY <1>9, StepIsBusy, BusyHere DEF Pass
  <2>1. UNCHANGED mach
    BY <1>9 DEF AnswerLost, InstallAnswerLost, MarkAnswerLost, DayTwoAnswerLost,
                DecommissionAnswerLost
  <2>3. ctl'.pc \notin AfterGates
    BY <1>9, <2>0 DEF AnswerLost, InstallAnswerLost, MarkAnswerLost, DayTwoAnswerLost,
                DecommissionAnswerLost, AfterError, AfterGates, Busy, Idle
  <2> QED BY <1>0, <2>1, <2>3
<1>3. CASE Crash
  BY <1>3 DEF Crash, MachineCopy, AfterGates, Idle
<1>4. CASE MachineChanges
  BY <1>4 DEF MachineChanges, MachineCopy, TypeOK, Busy, Idle
<1>5. CASE DeliverMachine
  <2>1. Cur(mach') = Cur(mach)
    BY <1>5, LogDelivered DEF DeliverMachine, TypeOK
  <2> QED BY <1>5, <2>1 DEF DeliverMachine, MachineCopy
<1>6. ASSUME NEW c \in Configs, Reconcile(c) PROVE MachineCopy'
  BY <1>0, <1>6 DEF Reconcile, AfterGates
<1>7. ASSUME NEW c \in Configs, User(c) PROVE MachineCopy'
  <2>1. UNCHANGED mach /\ \E v : UserWrites(c, v)
    BY <1>7 DEF User, CreateConfig, EditConfig, DeleteConfig
  <2>2. ctl'.pc = ctl.pc /\ ctl'.mfresh = ctl.mfresh
    BY <2>1 DEF UserWrites, TypeOK, Busy, Idle
  <2> QED BY <1>0, <2>1, <2>2
<1>8. ASSUME NEW c \in Configs, Workloads(c) \/ Watch(c) PROVE MachineCopy'
  <2>1. UNCHANGED <<mach, ctl>>
    BY <1>8 DEF Workloads, Watch, InstallEnds, InstallSucceedsLate, InstallReruns,
          DecommissionEnds, DecommissionSucceedsLate, DecommissionReruns,
         DayTwoOutcome, ReleaseChild, GarbageCollect, DeliverConfig, DeliverInstall,
         DeliverDecommission, DeliverDayTwo
  <2> QED BY <1>0, <2>1
<1> QED BY <1>1, <1>2, <1>3, <1>4, <1>5, <1>6, <1>7, <1>8, <1>9 DEF Next

-----------------------------------------------------------------------------
(* Optimistic concurrency, for every informer lag. *)

\* What a step of the reconcile leaves alone in its copy.
SameFacts(o, n) ==
  /\ n.done = o.done /\ n.del = o.del /\ n.fin = o.fin
  /\ n.full = o.full /\ n.onrm = o.onrm /\ n.flake = o.flake

\* A configuration exists only after it was created.
ExistsWasBorn == \A c \in Configs : Cur(cfg[c]) # None => born[c] # 0

\* Steps that write no configuration and leave the facts of the copy alone.
Quiet ==
  /\ UNCHANGED <<cfg, born, edits>>
  /\ \/ ctl' = Idle
     \/ /\ ctl'.c = ctl.c /\ ctl'.fresh = ctl.fresh /\ SameFacts(ctl.obj, ctl'.obj)
        /\ ctl'.pc # "addFinalizer"

MarkUnanswered == AnswerLost /\ MarkAnswerLost

ConfigWrite == AddFinalizer \/ StatusUpdate \/ MarkFullDiskInstallCompleted
                 \/ MarkUnanswered \/ BumpOnRemoveRetries \/ Finalize

\* A step that only moves the program counter is quiet.
LEMMA GotoQuiet ==
  ASSUME ctl \in Busy, NEW p, Goto(p), p # "addFinalizer"
  PROVE  /\ ctl'.c = ctl.c /\ ctl'.fresh = ctl.fresh /\ SameFacts(ctl.obj, ctl'.obj)
         /\ ctl'.pc # "addFinalizer"
BY DEF Goto, Busy, SameFacts

\* So is the end of a pass that reports a phase.
LEMMA ReportQuiet ==
  ASSUME ctl \in Busy, NEW ph, NEW ap, Report(ph, ap)
  PROVE  /\ ctl'.c = ctl.c /\ ctl'.fresh = ctl.fresh /\ SameFacts(ctl.obj, ctl'.obj)
         /\ ctl'.pc # "addFinalizer"
BY DEF Report, Busy, SameFacts, ConfigObject

\* The steps of a reconcile that write no configuration are quiet.
LEMMA QuietSteps ==
  ASSUME TypeOK, Pass
  PROVE  Quiet \/ ConfigWrite
<1>b. ctl \in Busy
  BY StepIsBusy, BusyHere
<1>1. CASE DropOnConflict
  BY <1>1 DEF DropOnConflict, Quiet, history, budgets
<1>2. CASE Blocked
  BY <1>b, <1>2 DEF Blocked, Quiet, SameFacts, Busy, ConfigObject, history, budgets
<1>3. CASE SuspendDayTwo
  BY <1>b, <1>3, GotoQuiet DEF SuspendDayTwo, Quiet, history, budgets
<1>4. CASE PassGates
  BY <1>b, <1>4 DEF PassGates, Quiet, SameFacts, Busy, history, budgets
<1>5. CASE CreateInstall
  BY <1>b, <1>5, GotoQuiet, ReportQuiet DEF CreateInstall, InstallCreated, Quiet, budgets
<1>6. CASE InstallConflict
  BY <1>b, <1>6, GotoQuiet DEF InstallConflict, Quiet, history, budgets
<1>7. CASE InstallSucceeded
  BY <1>b, <1>7, GotoQuiet DEF InstallSucceeded, InstallChild, Quiet, budgets
<1>8. CASE InstallWait
  BY <1>b, <1>8, ReportQuiet DEF InstallWait, InstallChild, Quiet, history, budgets
<1>9. CASE InstallExhausted
  BY <1>b, <1>9, ReportQuiet DEF InstallExhausted, InstallChild, Quiet, history, budgets
<1>10. CASE InstallRetry
  BY <1>b, <1>10 DEF InstallRetry, InstallChild, Quiet, SameFacts, Busy, ConfigObject,
        history, budgets
<1>11. CASE DeleteFailedInstall
  BY <1>b, <1>11, ReportQuiet DEF DeleteFailedInstall, Quiet, history, budgets
<1>12. CASE RewriteFails
  BY <1>b, <1>12 DEF RewriteFails, Quiet, SameFacts, Busy, history, budgets
<1>13. CASE DeleteDoneInstall
  BY <1>b, <1>13, GotoQuiet DEF DeleteDoneInstall, Quiet, history, budgets
<1>14. CASE CreateDayTwo
  BY <1>b, <1>14, GotoQuiet, ReportQuiet DEF CreateDayTwo, DayTwoCreated, Quiet, history,
        budgets
<1>15. CASE DayTwoConflict
  BY <1>b, <1>15, GotoQuiet DEF DayTwoConflict, Quiet, history, budgets
<1>16. CASE ObserveDayTwo
  <2>1. ASSUME ctl' = [ctl EXCEPT !.pc = "writeback", !.obj.phase = "Ready",
                                  !.obj.applied = TRUE]
        PROVE  /\ ctl'.c = ctl.c /\ ctl'.fresh = ctl.fresh /\ SameFacts(ctl.obj, ctl'.obj)
               /\ ctl'.pc # "addFinalizer"
    BY <1>b, <2>1 DEF SameFacts, Busy, ConfigObject
  <2> QED BY <1>b, <1>16, <2>1, ReportQuiet DEF ObserveDayTwo, DayTwoResumed, Quiet,
        history, budgets
<1>17. CASE WriteBackMachineStatus
  BY <1>b, <1>17, GotoQuiet DEF WriteBackMachineStatus, Quiet, history, budgets
<1>18. CASE DeleteDayTwo
  BY <1>b, <1>18, GotoQuiet DEF DeleteDayTwo, Quiet, history, budgets
<1>19. CASE Decommission
  <2>1. ASSUME NEW p, NEW mine, p # "addFinalizer",
               ctl' = [ctl EXCEPT !.pc = p, !.mine = mine, !.mfresh = InSync(mach)]
        PROVE  /\ ctl'.c = ctl.c /\ ctl'.fresh = ctl.fresh /\ SameFacts(ctl.obj, ctl'.obj)
               /\ ctl'.pc # "addFinalizer"
    BY <1>b, <2>1 DEF SameFacts, Busy
  <2>2. ASSUME ctl' = [ctl EXCEPT !.pc = "rmStatus", !.obj.phase = "Removing"]
        PROVE  /\ ctl'.c = ctl.c /\ ctl'.fresh = ctl.fresh /\ SameFacts(ctl.obj, ctl'.obj)
               /\ ctl'.pc # "addFinalizer"
    BY <1>b, <2>2 DEF SameFacts, Busy, ConfigObject
  <2>3. UNCHANGED <<cfg, born, edits>>
    BY <1>19 DEF Decommission, history, budgets
  <2>4. \/ ctl' = [ctl EXCEPT !.pc = "rmStatus", !.obj.phase = "Removing"]
        \/ \E p, mine :
             /\ p # "addFinalizer"
             /\ ctl' = [ctl EXCEPT !.pc = p, !.mine = mine, !.mfresh = InSync(mach)]
    BY <1>19 DEF Decommission, AfterStamp
  <2> QED BY <2>1, <2>2, <2>3, <2>4 DEF Quiet
<1>20. CASE CreateDecommission
  <2>1. ASSUME ctl' = [ctl EXCEPT !.pc = "rmStatus", !.obj.phase = "Removing"]
        PROVE  /\ ctl'.c = ctl.c /\ ctl'.fresh = ctl.fresh /\ SameFacts(ctl.obj, ctl'.obj)
               /\ ctl'.pc # "addFinalizer"
    BY <1>b, <2>1 DEF SameFacts, Busy, ConfigObject
  <2> QED BY <1>b, <1>20, <2>1, GotoQuiet DEF CreateDecommission, DecommissionCreated,
        Quiet, budgets
<1>21. CASE ClearMachineStatus
  BY <1>b, <1>21, GotoQuiet DEF ClearMachineStatus, Quiet, history, budgets
<1>22. CASE DeleteFailedDecommission
  BY <1>b, <1>22, GotoQuiet DEF DeleteFailedDecommission, AfterStamp, Quiet, history, budgets
<1>23. CASE DeleteDecommissionJob
  BY <1>b, <1>23, GotoQuiet DEF DeleteDecommissionJob, Quiet, history, budgets
<1>24. CASE AnswerLost
  <2>1. CASE MarkAnswerLost
    BY <1>24, <2>1 DEF ConfigWrite, MarkUnanswered
  <2>2. CASE InstallAnswerLost \/ DayTwoAnswerLost \/ DecommissionAnswerLost
    <3>1. UNCHANGED <<cfg, born, edits>>
      BY <1>24, <2>2 DEF AnswerLost, InstallAnswerLost, DayTwoAnswerLost,
                         DecommissionAnswerLost, history
    <3>2. ctl.pc \in {"install", "delRetry", "daytwo", "createDec"}
      BY <2>2 DEF InstallAnswerLost, DayTwoAnswerLost, DecommissionAnswerLost,
           InstallCreated, InstallChild, DayTwoCreated, DayTwoResumed,
           DecommissionCreated, At
    <3>3. ctl' = AfterError \/ ctl' = [AfterError EXCEPT !.lost = TRUE]
      BY <2>2 DEF InstallAnswerLost, DayTwoAnswerLost, DecommissionAnswerLost
    <3>4. /\ ctl'.c = ctl.c /\ ctl'.fresh = ctl.fresh /\ SameFacts(ctl.obj, ctl'.obj)
          /\ ctl'.pc # "addFinalizer"
      BY <1>b, <3>2, <3>3 DEF AfterError, At, Busy, SameFacts
    <3> QED BY <3>1, <3>4 DEF Quiet
  <2> QED BY <1>24, <2>1, <2>2 DEF AnswerLost
<1> QED BY <1>1, <1>2, <1>3, <1>4, <1>5, <1>6, <1>7, <1>8, <1>9, <1>10, <1>11,
           <1>12, <1>13, <1>14, <1>15, <1>16, <1>17, <1>18, <1>19, <1>20, <1>21,
           <1>22, <1>23, <1>24 DEF Pass, Step, ConfigWrite

\* What a write of the running reconcile does to the stored objects.
LEMMA Written ==
  ASSUME TypeOK, me \in Configs, NEW v \in ConfigObject \cup {None}, WriteConfig(v)
  PROVE  /\ Cur(cfg'[me]) = v
         /\ \A c \in Configs : c # me => cfg'[c] = cfg[c]
<1>1. cfg[me] \in Logs(ConfigObject \cup {None})
  BY DEF TypeOK
<1>2. /\ Put(Lag.config, cfg[me], v) \in Logs(ConfigObject \cup {None})
      /\ Cur(Put(Lag.config, cfg[me], v)) = v
  <2> DEFINE S == ConfigObject \cup {None}
  <2>1. cfg[me] \in Logs(S) /\ v \in S /\ Lag.config \in Nat
    BY <1>1, LagsAreNat
  <2> HIDE DEF S
  <2>2. Put(Lag.config, cfg[me], v) \in Logs(S) /\ Cur(Put(Lag.config, cfg[me], v)) = v
    BY <2>1, LogPut
  <2> QED BY <2>2 DEF S
<1>3. cfg' = [cfg EXCEPT ![me] = Put(Lag.config, cfg[me], v)]
  BY DEF WriteConfig
<1> QED BY <1>2, <1>3 DEF TypeOK

\* What a user's write does to the configurations and the running reconcile.
LEMMA UserWritten ==
  ASSUME TypeOK, NEW c \in Configs, NEW v \in ConfigObject \cup {None}, UserWrites(c, v)
  PROVE  /\ Cur(cfg'[c]) = v
         /\ \A d \in Configs : d # c => cfg'[d] = cfg[d]
<1>1. cfg[c] \in Logs(ConfigObject \cup {None})
  BY DEF TypeOK
<1>2. /\ Put(Lag.config, cfg[c], v) \in Logs(ConfigObject \cup {None})
      /\ Cur(Put(Lag.config, cfg[c], v)) = v
  <2> DEFINE S == ConfigObject \cup {None}
  <2>1. cfg[c] \in Logs(S) /\ v \in S /\ Lag.config \in Nat
    BY <1>1, LagsAreNat
  <2> HIDE DEF S
  <2>2. Put(Lag.config, cfg[c], v) \in Logs(S) /\ Cur(Put(Lag.config, cfg[c], v)) = v
    BY <2>1, LogPut
  <2> QED BY <2>2 DEF S
<1>3. cfg' = [cfg EXCEPT ![c] = Put(Lag.config, cfg[c], v)]
  BY DEF UserWrites
<1> QED BY <1>2, <1>3 DEF TypeOK

\* Each write of the configuration starts from the stored object: the reconcile's
\* own ones by the resourceVersion, those of a RetryOnConflict loop by reading it
\* again.  n is the value written, o the one it replaces.
LEMMA WritesStartFromStored ==
  ASSUME TypeOK, CopyIsCurrent, ConfigWrite
  PROVE  /\ ctl \in Busy /\ me \in Configs
         /\ UNCHANGED <<born, edits>>
         /\ Cur(cfg[me]) \in ConfigObject
         /\ \E n \in ConfigObject \cup {None} :
              /\ WriteConfig(n)
              /\ n # None => /\ n.done = Cur(cfg[me]).done \/ n.done
                             /\ n.del = Cur(cfg[me]).del
                             /\ n.full = Cur(cfg[me]).full
                             /\ n.onrm = Cur(cfg[me]).onrm
                             /\ n.flake = Cur(cfg[me]).flake
              /\ \/ ctl' = Idle
                 \/ /\ n # None /\ ctl'.c = ctl.c /\ ctl'.pc # "addFinalizer"
                    /\ ctl'.fresh => ctl'.obj.done = n.done
<1>b. /\ ctl \in Busy /\ me \in Configs /\ ctl.obj \in ConfigObject
      /\ ctl.pc # "idle"
  BY BusyHere DEF ConfigWrite, AddFinalizer, StatusUpdate, MarkFullDiskInstallCompleted,
       MarkUnanswered, MarkAnswerLost, BumpOnRemoveRetries, Finalize, At
<1>v. /\ Cur(cfg[me]) \in ConfigObject \cup {None}
      /\ Seen(cfg[me]) \in ConfigObject \cup {None}
      /\ cfg[me] \in Logs(ConfigObject \cup {None})
  BY <1>b, Versions DEF TypeOK
<1>n. None \notin ConfigObject
  BY NoneIsNoObject
<1>s. InSync(cfg[me]) => Seen(cfg[me]) = Cur(cfg[me])
  BY <1>b, LogVersions DEF TypeOK
<1>u. UNCHANGED <<born, edits>>
  BY DEF ConfigWrite, AddFinalizer, StatusUpdate, MarkFullDiskInstallCompleted,
       MarkUnanswered, AnswerLost, MarkAnswerLost, BumpOnRemoveRetries, Finalize, history,
       budgets
<1>1. CASE AddFinalizer
  <2> DEFINE n == [ctl.obj EXCEPT !.fin = TRUE]
  <2>1. Cur(cfg[me]) \in ConfigObject /\ ctl.obj = Cur(cfg[me])
    BY <1>1, <1>b, <1>v DEF AddFinalizer, At, CopyIsCurrent
  <2>2. n \in ConfigObject /\ WriteConfig(n)
    BY <1>1, <1>b DEF AddFinalizer, ConfigObject
  <2>3. ctl'.c = ctl.c /\ ctl'.obj = n /\ ctl'.pc = "gates"
    BY <1>1, <1>b DEF AddFinalizer, Busy, ConfigObject
  <2>4. /\ n.done = ctl.obj.done /\ n.del = ctl.obj.del /\ n.full = ctl.obj.full
        /\ n.onrm = ctl.obj.onrm /\ n.flake = ctl.obj.flake
    BY <1>b DEF ConfigObject
  <2> HIDE DEF n
  <2> QED BY <1>b, <1>u, <1>n, <2>1, <2>2, <2>3, <2>4
<1>2. CASE StatusUpdate
  <2> DEFINE n == WithStatus(Cur(cfg[me]), ctl.obj)
  <2>1. Cur(cfg[me]) \in ConfigObject /\ ctl.obj.done = Cur(cfg[me]).done
    BY <1>2, <1>b, <1>v DEF StatusUpdate, CopyIsCurrent
  <2>2. n \in ConfigObject /\ WriteConfig(n)
    BY <1>2, <1>b, <2>1, WithStatusTyped DEF StatusUpdate
  <2>3. /\ n.done = ctl.obj.done /\ n.del = Cur(cfg[me]).del
        /\ n.full = Cur(cfg[me]).full /\ n.onrm = Cur(cfg[me]).onrm
        /\ n.flake = Cur(cfg[me]).flake
    BY <2>1 DEF WithStatus, ConfigObject
  <2>4. ctl' = Idle
    BY <1>2 DEF StatusUpdate
  <2> HIDE DEF n
  <2> QED BY <1>b, <1>u, <2>1, <2>2, <2>3, <2>4
<1>3. CASE MarkFullDiskInstallCompleted \/ MarkUnanswered
  <2> DEFINE n == Completed
  <2>1. Seen(cfg[me]) = Cur(cfg[me]) /\ Cur(cfg[me]) \in ConfigObject
    BY <1>3, <1>s, <1>v DEF MarkFullDiskInstallCompleted, MarkUnanswered, MarkAnswerLost, Rewrite
  <2>2. n \in ConfigObject
    BY <2>1 DEF Completed, ConfigObject
  <2>3. WriteConfig(n)
    BY <1>3 DEF MarkFullDiskInstallCompleted, MarkUnanswered, MarkAnswerLost, Rewrite
  <2>4. /\ n.done /\ n.del = Cur(cfg[me]).del /\ n.full = Cur(cfg[me]).full
        /\ n.onrm = Cur(cfg[me]).onrm /\ n.flake = Cur(cfg[me]).flake
    BY <2>1 DEF Completed, ConfigObject
  <2> HIDE DEF n
  <2>5. Cur(cfg'[me]) = n
    BY <1>b, <2>2, <2>3, Written
  <2>6. CASE MarkFullDiskInstallCompleted
    <3>1. ctl' = [ctl EXCEPT !.pc = "delDone", !.obj = WithStatus(@, n), !.fresh = TRUE]
      BY <2>6 DEF MarkFullDiskInstallCompleted, Rewritten, n
    <3>2. ctl'.c = ctl.c /\ ctl'.pc = "delDone" /\ ctl'.obj = WithStatus(ctl.obj, n)
      BY <1>b, <3>1 DEF Busy
    <3>3. ctl'.obj.done = n.done
      BY <1>b, <3>2 DEF WithStatus, ConfigObject
    <3> QED BY <1>b, <1>u, <1>n, <2>1, <2>2, <2>3, <2>4, <3>2, <3>3
  <2>7. CASE MarkUnanswered
    <3>1. ctl' = [[ctl EXCEPT !.pc = "status"] EXCEPT !.fresh = @ /\ cfg' = cfg]
      BY <2>7 DEF MarkUnanswered, MarkAnswerLost, AfterError, At
    <3>2. ctl'.c = ctl.c /\ ctl'.pc = "status" /\ ctl'.obj = ctl.obj
          /\ ctl'.fresh = (ctl.fresh /\ cfg' = cfg)
      BY <1>b, <3>1 DEF Busy
    <3>3. ctl'.fresh => ctl'.obj.done = n.done
      BY <1>b, <2>5, <3>2 DEF CopyIsCurrent
    <3> QED BY <1>b, <1>u, <1>n, <2>1, <2>2, <2>3, <2>4, <3>2, <3>3
  <2> QED BY <1>3, <2>6, <2>7
<1>4. CASE BumpOnRemoveRetries
  <2> DEFINE n == Bumped
  <2>1. Seen(cfg[me]) = Cur(cfg[me]) /\ Cur(cfg[me]) \in ConfigObject
    BY <1>4, <1>s, <1>v DEF BumpOnRemoveRetries, Rewrite
  <2>2. Seen(cfg[me]).rmRetries + 1 \in Nat
    BY <2>1 DEF ConfigObject
  <2>3. n \in ConfigObject
    BY <2>1, <2>2 DEF Bumped, ConfigObject, Phases
  <2>4. WriteConfig(n)
    BY <1>4 DEF BumpOnRemoveRetries, Rewrite
  <2>5. ctl' = [ctl EXCEPT !.pc = "delFailed", !.obj = WithStatus(@, n), !.fresh = TRUE]
    BY <1>4 DEF BumpOnRemoveRetries, Rewritten
  <2>6. /\ n.done = Cur(cfg[me]).done /\ n.del = Cur(cfg[me]).del
        /\ n.full = Cur(cfg[me]).full /\ n.onrm = Cur(cfg[me]).onrm
        /\ n.flake = Cur(cfg[me]).flake
    BY <2>1 DEF Bumped, ConfigObject
  <2> HIDE DEF n
  <2>7. ctl'.c = ctl.c /\ ctl'.pc = "delFailed" /\ ctl'.obj = WithStatus(ctl.obj, n)
    BY <1>b, <2>5 DEF Busy
  <2>8. ctl'.obj.done = n.done
    BY <1>b, <2>7 DEF WithStatus, ConfigObject
  <2> QED BY <1>b, <1>u, <1>n, <2>1, <2>3, <2>4, <2>6, <2>7, <2>8
<1>5. CASE Finalize
  <2>1. Cur(cfg[me]) \in ConfigObject
    BY <1>5, <1>b, <1>v DEF Finalize, CopyIsCurrent
  <2> QED BY <1>5, <1>b, <1>u, <2>1 DEF Finalize
<1> QED BY <1>1, <1>2, <1>3, <1>4, <1>5 DEF ConfigWrite

\* A name is used once: a configuration that was created and is gone stays gone.
StaysGone(c) ==
  born[c] # 0 => born'[c] # 0 /\ (Cur(cfg[c]) = None => Cur(cfg'[c]) = None)

\* What a step may do to a stored configuration.
Kept(c) ==
  Cur(cfg[c]) # None /\ Cur(cfg'[c]) # None
    => /\ Cur(cfg[c]).done => Cur(cfg'[c]).done
       /\ Cur(cfg[c]).del => Cur(cfg'[c]).del
       /\ \/ edits' # edits
          \/ /\ Cur(cfg'[c]).full = Cur(cfg[c]).full
             /\ Cur(cfg'[c]).onrm = Cur(cfg[c]).onrm
             /\ Cur(cfg'[c]).flake = Cur(cfg[c]).flake

\* The inductive step of both theorems below.
LEMMA DurableStep ==
  ASSUME TypeOK, TypeOK', CopyIsCurrent, ExistsWasBorn, Next
  PROVE  CopyIsCurrent' /\ ExistsWasBorn' /\ \A c \in Configs : Kept(c) /\ StaysGone(c)
<1>n. None \notin ConfigObject
  BY NoneIsNoObject
\* No stored version changes.
<1>q. ASSUME \A c \in Configs : Cur(cfg'[c]) = Cur(cfg[c]), UNCHANGED born
      PROVE  ExistsWasBorn' /\ \A c \in Configs : Kept(c) /\ StaysGone(c)
  BY <1>q DEF ExistsWasBorn, Kept, StaysGone
<1>u. ASSUME \A c \in Configs : Cur(cfg'[c]) = Cur(cfg[c]), UNCHANGED <<born, ctl>>
      PROVE  CopyIsCurrent' /\ ExistsWasBorn' /\ \A c \in Configs : Kept(c) /\ StaysGone(c)
  <2>1. CopyIsCurrent'
    <3>1. ctl = Idle => CopyIsCurrent'
      BY <1>u DEF Idle, CopyIsCurrent
    <3>2. ctl \in Busy => CopyIsCurrent'
      BY <1>u DEF Busy, CopyIsCurrent, me
    <3> QED BY <3>1, <3>2 DEF TypeOK
  <2> QED BY <1>q, <1>u, <2>1
<1>1. CASE Pass
  <2>b. ctl \in Busy /\ me \in Configs
    BY <1>1, StepIsBusy, BusyHere
  <2>1. CASE Quiet
    <3>1. CopyIsCurrent'
      <4>1. CASE ctl' = Idle
        BY <4>1 DEF CopyIsCurrent, Idle
      <4>2. CASE /\ ctl'.c = ctl.c /\ ctl'.fresh = ctl.fresh /\ SameFacts(ctl.obj, ctl'.obj)
                 /\ ctl'.pc # "addFinalizer"
        BY <2>1, <2>b, <4>2 DEF Quiet, CopyIsCurrent, SameFacts, me, Busy, PCs
      <4> QED BY <2>1, <4>1, <4>2 DEF Quiet
    <3> QED BY <1>q, <2>1, <3>1 DEF Quiet
  <2>2. CASE ConfigWrite
    <3>1. PICK n \in ConfigObject \cup {None} :
              /\ WriteConfig(n)
              /\ n # None => /\ n.done = Cur(cfg[me]).done \/ n.done
                             /\ n.del = Cur(cfg[me]).del
                             /\ n.full = Cur(cfg[me]).full
                             /\ n.onrm = Cur(cfg[me]).onrm
                             /\ n.flake = Cur(cfg[me]).flake
              /\ \/ ctl' = Idle
                 \/ /\ n # None /\ ctl'.c = ctl.c /\ ctl'.pc # "addFinalizer"
                    /\ ctl'.fresh => ctl'.obj.done = n.done
      BY <2>2, WritesStartFromStored
    <3>2. UNCHANGED <<born, edits>> /\ Cur(cfg[me]) # None
      BY <2>2, <1>n, WritesStartFromStored
    <3>3. Cur(cfg'[me]) = n /\ \A c \in Configs : c # me => cfg'[c] = cfg[c]
      BY <2>b, <3>1, Written
    <3>4. ExistsWasBorn'
      BY <2>b, <3>2, <3>3 DEF ExistsWasBorn
    <3>5. ASSUME NEW c \in Configs PROVE Kept(c) /\ StaysGone(c)
      BY <3>1, <3>2, <3>3 DEF Kept, StaysGone
    <3>6. CopyIsCurrent'
      BY <3>1, <3>3 DEF CopyIsCurrent, Idle, me
    <3> QED BY <3>4, <3>5, <3>6
  <2> QED BY <1>1, <2>1, <2>2, QuietSteps
<1>2. CASE ApiError
  <2>1. ctl \in Busy /\ UNCHANGED <<cfg, born>>
    BY <1>2, BusyHere DEF ApiError, history
  <2>2. \/ ctl' = Idle
        \/ /\ ctl'.c = ctl.c /\ ctl'.fresh = ctl.fresh /\ ctl'.obj = ctl.obj
           /\ ctl'.pc # "addFinalizer"
    BY <1>2, <2>1 DEF ApiError, AfterError, Busy
  <2>3. CASE ctl' = Idle
    BY <1>q, <2>1, <2>3 DEF CopyIsCurrent, Idle
  <2>4. CASE /\ ctl'.c = ctl.c /\ ctl'.fresh = ctl.fresh /\ ctl'.obj = ctl.obj
             /\ ctl'.pc # "addFinalizer"
    <3>1. CopyIsCurrent'
      BY <2>1, <2>4 DEF CopyIsCurrent, SameFacts, me, Busy, PCs
    <3> QED BY <1>q, <2>1, <3>1
  <2> QED BY <2>2, <2>3, <2>4
<1>3. CASE Crash
  <2>1. \A c \in Configs : Cur(cfg'[c]) = Cur(cfg[c])
    BY <1>3, LogRelisted DEF Crash, TypeOK
  <2>2. CopyIsCurrent'
    BY <1>3 DEF Crash, CopyIsCurrent, Idle
  <2> QED BY <1>3, <1>q, <2>1, <2>2 DEF Crash, history
<1>4. CASE MachineChanges
  <2>1. UNCHANGED <<cfg, born>> /\ ctl' = [ctl EXCEPT !.mfresh = FALSE]
    BY <1>4 DEF MachineChanges, history
  <2>2. CASE ctl = Idle
    BY <2>1, <2>2, <1>q DEF Idle, CopyIsCurrent
  <2>3. CASE ctl \in Busy
    BY <2>1, <2>3, <1>q DEF Busy, CopyIsCurrent, SameFacts, me
  <2> QED BY <2>2, <2>3 DEF TypeOK
<1>5. CASE DeliverMachine
  BY <1>5, <1>u DEF DeliverMachine, history
<1>6. ASSUME NEW c \in Configs, Reconcile(c)
      PROVE  CopyIsCurrent' /\ ExistsWasBorn' /\ \A d \in Configs : Kept(d) /\ StaysGone(d)
  <2>1. UNCHANGED <<cfg, born>>
    BY <1>6 DEF Reconcile, history
  <2>2. InSync(cfg[c]) => Cur(cfg[c]) = Seen(cfg[c])
    BY LogVersions DEF TypeOK
  <2>3. ctl'.c = c /\ ctl'.obj = Seen(cfg[c]) /\ ctl'.fresh = InSync(cfg[c])
    BY <1>6 DEF Reconcile
  <2>4. CopyIsCurrent'
    BY <1>6, <2>1, <2>2, <2>3 DEF Reconcile, CopyIsCurrent, SameFacts, me
  <2> QED BY <1>q, <2>1, <2>4
\* The user's writes outdate the copy of a reconcile of the same object.
<1>7. ASSUME NEW c \in Configs, NEW v \in ConfigObject \cup {None}, UserWrites(c, v)
      PROVE  CopyIsCurrent'
  <2>1. Cur(cfg'[c]) = v /\ \A d \in Configs : d # c => cfg'[d] = cfg[d]
    BY <1>7, UserWritten
  <2>2. CASE ctl = Idle
    BY <1>7, <2>2, ConfigsAreNames DEF UserWrites, CopyIsCurrent, Idle
  <2>3. CASE ctl \in Busy
    <3>1. CASE ctl.c = c
      BY <1>7, <2>3, <3>1 DEF UserWrites, CopyIsCurrent, Busy
    <3>2. CASE ctl.c # c
      BY <1>7, <2>1, <2>3, <3>2 DEF UserWrites, CopyIsCurrent, SameFacts, Busy, me
    <3> QED BY <3>1, <3>2
  <2> QED BY <2>2, <2>3 DEF TypeOK
<1>8. ASSUME NEW c \in Configs, CreateConfig(c)
      PROVE  CopyIsCurrent' /\ ExistsWasBorn' /\ \A d \in Configs : Kept(d) /\ StaysGone(d)
  <2>1. PICK s \in Specs, t \in Nat :
          /\ t # 0 /\ born[c] = 0 /\ born' = [born EXCEPT ![c] = t]
          /\ UserWrites(c, [ctime |-> t, del |-> FALSE, fin |-> FALSE, full |-> s.full,
                            onrm |-> s.onrm, flake |-> 0, done |-> FALSE, retries |-> 0,
                            rmRetries |-> 0, phase |-> "Pending", applied |-> FALSE])
    <3>1. \A d \in Configs : born[d] \in Nat /\ born[d] + 1 \in Nat
      BY DEF TypeOK
    <3> QED BY <1>8, <3>1 DEF CreateConfig
  <2>2. [ctime |-> t, del |-> FALSE, fin |-> FALSE, full |-> s.full, onrm |-> s.onrm,
         flake |-> 0, done |-> FALSE, retries |-> 0, rmRetries |-> 0, phase |-> "Pending",
         applied |-> FALSE] \in ConfigObject \cup {None}
    <3>1. s \in [full : BOOLEAN, onrm : BOOLEAN]
      BY SpecsAreSpecs
    <3> QED BY <3>1 DEF ConfigObject, Phases
  <2>3. Cur(cfg[c]) = None
    BY <2>1 DEF ExistsWasBorn
  <2>4. \A d \in Configs : d # c => cfg'[d] = cfg[d]
    BY <2>1, <2>2, UserWritten
  <2>5. ExistsWasBorn'
    BY <2>1, <2>4 DEF ExistsWasBorn, TypeOK
  <2>6. \A d \in Configs : Kept(d) /\ StaysGone(d)
    BY <2>1, <2>3, <2>4 DEF Kept, StaysGone, TypeOK
  <2> QED BY <1>7, <2>1, <2>2, <2>5, <2>6
<1>9. ASSUME NEW c \in Configs, EditConfig(c)
      PROVE  CopyIsCurrent' /\ ExistsWasBorn' /\ \A d \in Configs : Kept(d) /\ StaysGone(d)
  <2>1. Cur(cfg[c]) \in ConfigObject
    BY <1>9, Versions DEF EditConfig
  <2>2. PICK s \in Specs, k \in {0, 1} :
          UserWrites(c, [Cur(cfg[c]) EXCEPT !.full = s.full, !.onrm = s.onrm,
                                            !.flake = @ + k])
    BY <1>9 DEF EditConfig
  <2> DEFINE n == [Cur(cfg[c]) EXCEPT !.full = s.full, !.onrm = s.onrm,
                                      !.flake = @ + k]
  <2>3. n \in ConfigObject \cup {None} /\ n.done = Cur(cfg[c]).done /\ n.del = Cur(cfg[c]).del
    <3>1. Cur(cfg[c]).flake + k \in Nat
      BY <2>1 DEF ConfigObject
    <3>2. s \in [full : BOOLEAN, onrm : BOOLEAN]
      BY SpecsAreSpecs
    <3> QED BY <2>1, <3>1, <3>2 DEF ConfigObject
  <2>4. Cur(cfg'[c]) = n /\ \A d \in Configs : d # c => cfg'[d] = cfg[d]
    BY <2>2, <2>3, UserWritten
  <2>5. UNCHANGED born /\ edits' # edits /\ Cur(cfg[c]) # None
    BY <1>9 DEF EditConfig, history, TypeOK
  <2>6. ExistsWasBorn'
    BY <2>4, <2>5 DEF ExistsWasBorn
  <2>7. \A d \in Configs : Kept(d) /\ StaysGone(d)
    BY <2>3, <2>4, <2>5 DEF Kept, StaysGone
  <2> QED BY <1>7, <2>2, <2>3, <2>6, <2>7
<1>10. ASSUME NEW c \in Configs, DeleteConfig(c)
       PROVE  CopyIsCurrent' /\ ExistsWasBorn' /\ \A d \in Configs : Kept(d) /\ StaysGone(d)
  <2>1. Cur(cfg[c]) \in ConfigObject
    BY <1>10, Versions DEF DeleteConfig
  <2>2. PICK n \in ConfigObject \cup {None} :
          /\ UserWrites(c, n)
          /\ n # None => /\ n.done = Cur(cfg[c]).done /\ n.del
                         /\ n.full = Cur(cfg[c]).full /\ n.onrm = Cur(cfg[c]).onrm
                         /\ n.flake = Cur(cfg[c]).flake
    <3>1. [Cur(cfg[c]) EXCEPT !.del = TRUE] \in ConfigObject
      BY <2>1 DEF ConfigObject
    <3>2. CASE Cur(cfg[c]).fin
      BY <1>10, <2>1, <3>1, <3>2 DEF DeleteConfig, ConfigObject
    <3>3. CASE ~Cur(cfg[c]).fin
      BY <1>10, <3>3 DEF DeleteConfig
    <3> QED BY <3>2, <3>3
  <2>3. Cur(cfg'[c]) = n /\ \A d \in Configs : d # c => cfg'[d] = cfg[d]
    BY <2>2, UserWritten
  <2>4. UNCHANGED born /\ Cur(cfg[c]) # None
    BY <1>10 DEF DeleteConfig, history
  <2>5. ExistsWasBorn'
    BY <2>3, <2>4 DEF ExistsWasBorn
  <2>6. \A d \in Configs : Kept(d) /\ StaysGone(d)
    BY <2>2, <2>3, <2>4 DEF Kept, StaysGone
  <2> QED BY <1>7, <2>2, <2>5, <2>6
<1>11. ASSUME NEW c \in Configs, Workloads(c)
       PROVE  CopyIsCurrent' /\ ExistsWasBorn' /\ \A d \in Configs : Kept(d) /\ StaysGone(d)
  <2>1. UNCHANGED <<cfg, ctl, born>>
    BY <1>11 DEF Workloads, InstallEnds, InstallSucceedsLate, InstallReruns,
          DecommissionEnds, DecommissionSucceedsLate, DecommissionReruns,
         DayTwoOutcome, ReleaseChild, GarbageCollect, history
  <2> QED BY <1>u, <2>1
<1>12. ASSUME NEW c \in Configs, Watch(c)
       PROVE  CopyIsCurrent' /\ ExistsWasBorn' /\ \A d \in Configs : Kept(d) /\ StaysGone(d)
  <2>1. UNCHANGED <<ctl, born>>
    BY <1>12 DEF Watch, DeliverConfig, DeliverInstall, DeliverDecommission,
         DeliverDayTwo, history
  <2>2. \A d \in Configs : Cur(cfg'[d]) = Cur(cfg[d])
    <3>1. CASE DeliverConfig(c)
      <4>1. cfg[c] \in Logs(ConfigObject \cup {None})
        BY DEF TypeOK
      <4>2. Cur(Delivered(cfg[c])) = Cur(cfg[c])
        BY <3>1, <4>1, LogDelivered DEF DeliverConfig
      <4> QED BY <3>1, <4>2 DEF DeliverConfig, TypeOK
    <3>2. CASE ~DeliverConfig(c)
      BY <1>12, <3>2 DEF Watch, DeliverInstall, DeliverDecommission, DeliverDayTwo
    <3> QED BY <3>1, <3>2
  <2> QED BY <1>u, <2>1, <2>2
<1> QED BY <1>1, <1>2, <1>3, <1>4, <1>5, <1>6, <1>8, <1>9, <1>10, <1>11, <1>12
        DEF Next, User, Pass

\* The facts of every reachable state that the theorems below build on.
LEMMA StoredInvariant ==
  Spec => [](TypeOK /\ MachineCopy /\ CopyIsCurrent /\ ExistsWasBorn)
<1> DEFINE Inv == TypeOK /\ MachineCopy /\ CopyIsCurrent /\ ExistsWasBorn
<1>1. Init => Inv
  <2> SUFFICES ASSUME Init PROVE Inv
    OBVIOUS
  <2>1. /\ <<None>> \in Logs(ConfigObject \cup {None})
        /\ <<None>> \in Logs(InstallObject \cup {None})
        /\ <<None>> \in Logs(NixJobObject \cup {None})
        /\ <<None>> \in Logs(NixCronJobObject \cup {None})
        /\ <<[disc |-> TRUE, key |-> TRUE, host |-> 0,
              ac |-> None]>> \in Logs(MachineObject \cup {None})
    BY DEF Logs, MachineObject
  <2>2. TypeOK /\ MachineCopy
    BY <2>1 DEF Init, TypeOK, MachineCopy, AfterGates, Idle
  <2>3. CopyIsCurrent /\ ExistsWasBorn
    BY DEF Init, CopyIsCurrent, ExistsWasBorn, Idle, Cur
  <2> QED BY <2>2, <2>3
<1>2. Inv /\ [Next]_vars => Inv'
  <2> SUFFICES ASSUME Inv, [Next]_vars PROVE Inv'
    OBVIOUS
  <2>1. CASE Next
    <3>1. TypeOK'
      BY <2>1, StepTyped, AnswerLostTyped, OthersTyped DEF Next
    <3> QED BY <2>1, <3>1, MachineCopyKept, DurableStep
  <2>2. CASE UNCHANGED vars
    BY <2>2 DEF vars, TypeOK, MachineCopy, CopyIsCurrent, ExistsWasBorn, me
  <2> QED BY <2>1, <2>2
<1> QED BY <1>1, <1>2, PTL DEF Spec

\* Every variable keeps its type: in particular no step dereferences an object
\* that is gone, whatever the informers show.
THEOREM TypeCorrect == Spec => []TypeOK
BY StoredInvariant, PTL

\* No write takes back a stored completion: a reconcile that read before it was
\* stored is refused by the resourceVersion, however far the caches lag.
THEOREM CompletionDurable == Spec => CompletionIsDurable
<1>1. ASSUME TypeOK, TypeOK', CopyIsCurrent, ExistsWasBorn, [Next]_vars
      PROVE  [\A c \in Configs :
                Exists(c) /\ Exists(c)' /\ Cur(cfg[c]).done => Cur(cfg[c])'.done]_vars
  BY <1>1, DurableStep DEF Kept, Exists
<1> QED BY <1>1, StoredInvariant, PTL DEF Spec, CompletionIsDurable

\* No reconcile writes back an outdated spec: the finalizer, the one write of the
\* whole object, is refused to a copy that an edit outdated.
THEOREM UserWritesKept == Spec => UserWritesAreKept
<1>1. ASSUME TypeOK, TypeOK', CopyIsCurrent, ExistsWasBorn, [Next]_vars
      PROVE  [\A c \in Configs :
                Exists(c) /\ Exists(c)' /\ edits' = edits
                  => /\ Cur(cfg[c])'.full = Cur(cfg[c]).full
                     /\ Cur(cfg[c])'.onrm = Cur(cfg[c]).onrm
                     /\ Cur(cfg[c])'.flake = Cur(cfg[c]).flake]_vars
  BY <1>1, DurableStep DEF Kept, Exists
<1> QED BY <1>1, StoredInvariant, PTL DEF Spec, UserWritesAreKept

-----------------------------------------------------------------------------
(***************************************************************************)
(* No install child is created after a reconcile saw a full-disk install   *)
(* succeed, or after its completion was stored, as long as the             *)
(* configuration's informer is not behind; the informers of the children   *)
(* may lag, calls may fail with or without effect and the operator may     *)
(* crash at any point.                                                     *)
(***************************************************************************)

\* The premise.  Without it a stale cache hides the completion.
SettledReads == \A s \in Settings : s.lag.config = 0

CacheIsCurrent == \A c \in Configs : InSync(cfg[c])

\* The premise as a fact about the setting a behaviour is in.
LEMMA SettledSetting ==
  ASSUME SettledReads, TypeOK
  PROVE  Lag.config = 0
BY DEF SettledReads, TypeOK, Lag

\* A reconcile on its way to the install knows whether it was completed.
KnowsCompletion ==
  ctl.pc \in {"gates", "install"}
    => /\ Cur(cfg[me]) # None /\ Cur(cfg[me]).fin
       /\ ctl.obj.done = Cur(cfg[me]).done
       /\ ctl.pc = "install" => ~ctl.obj.done

Succeeded(c) ==
  /\ Cur(inst[c]) # None /\ ~Cur(inst[c]).del
  /\ Cur(inst[c]).st = "succeeded"

\* A success that was seen is on record: as the completion, or as the child that
\* reports it.
Remembered ==
  \A c \in Configs :
    saw[c] => /\ born[c] # 0
              /\ Cur(cfg[c]) = None \/ Cur(cfg[c]).done \/ Succeeded(c)

\* Neither deletion of the install child loses that record.
DeletesSafely ==
  /\ ctl.pc = "delRetry" => ~saw[me]
  /\ ctl.pc = "delDone"
       => born[me] # 0 /\ (Cur(cfg[me]) = None \/ Cur(cfg[me]).done)

InstallInv == CacheIsCurrent /\ KnowsCompletion /\ Remembered /\ DeletesSafely

-----------------------------------------------------------------------------
\* What the user's writes leave alone.
LEMMA UserWriteValue ==
  ASSUME TypeOK, ExistsWasBorn, NEW c \in Configs, User(c)
  PROVE  /\ UNCHANGED <<inst, runs, reruns, ran, saw>>
         /\ \E n \in ConfigObject \cup {None} :
              /\ UserWrites(c, n)
              /\ Cur(cfg[c]) # None /\ Cur(cfg[c]).fin
                   => n # None /\ n.done = Cur(cfg[c]).done /\ n.fin
<1>1. CASE CreateConfig(c)
  <2>1. PICK s \in Specs, t \in Nat :
          /\ born[c] = 0
          /\ UserWrites(c, [ctime |-> t, del |-> FALSE, fin |-> FALSE, full |-> s.full,
                            onrm |-> s.onrm, flake |-> 0, done |-> FALSE, retries |-> 0,
                            rmRetries |-> 0, phase |-> "Pending", applied |-> FALSE])
    <3>1. \A d \in Configs : born[d] \in Nat /\ born[d] + 1 \in Nat
      BY DEF TypeOK
    <3> QED BY <1>1, <3>1 DEF CreateConfig
  <2>2. [ctime |-> t, del |-> FALSE, fin |-> FALSE, full |-> s.full, onrm |-> s.onrm,
         flake |-> 0, done |-> FALSE, retries |-> 0, rmRetries |-> 0, phase |-> "Pending",
         applied |-> FALSE] \in ConfigObject \cup {None}
    <3>1. s \in [full : BOOLEAN, onrm : BOOLEAN]
      BY SpecsAreSpecs
    <3> QED BY <3>1 DEF ConfigObject, Phases
  <2>3. Cur(cfg[c]) = None
    BY <2>1 DEF ExistsWasBorn
  <2>4. UNCHANGED <<inst, runs, reruns, ran, saw>>
    BY <1>1 DEF CreateConfig, kids
  <2> QED BY <2>1, <2>2, <2>3, <2>4
<1>2. CASE EditConfig(c)
  <2>1. Cur(cfg[c]) \in ConfigObject
    BY <1>2, Versions DEF EditConfig
  <2>2. PICK s \in Specs, k \in {0, 1} :
          UserWrites(c, [Cur(cfg[c]) EXCEPT !.full = s.full, !.onrm = s.onrm,
                                            !.flake = @ + k])
    BY <1>2 DEF EditConfig
  <2> DEFINE n == [Cur(cfg[c]) EXCEPT !.full = s.full, !.onrm = s.onrm,
                                      !.flake = @ + k]
  <2>3. /\ n \in ConfigObject /\ n.done = Cur(cfg[c]).done
        /\ n.fin = Cur(cfg[c]).fin
    <3>1. Cur(cfg[c]).flake + k \in Nat
      BY <2>1 DEF ConfigObject
    <3>2. s \in [full : BOOLEAN, onrm : BOOLEAN]
      BY SpecsAreSpecs
    <3> QED BY <2>1, <3>1, <3>2 DEF ConfigObject
  <2>4. UNCHANGED <<inst, runs, reruns, ran, saw>>
    BY <1>2 DEF EditConfig, kids, history
  <2>5. UserWrites(c, n)
    BY <2>2
  <2> HIDE DEF n
  <2> QED BY <2>3, <2>4, <2>5, NoneIsNoObject
<1>3. CASE DeleteConfig(c)
  <2>1. Cur(cfg[c]) \in ConfigObject
    BY <1>3, Versions DEF DeleteConfig
  <2>2. UNCHANGED <<inst, runs, reruns, ran, saw>>
    BY <1>3 DEF DeleteConfig, kids, history
  <2> DEFINE n == [Cur(cfg[c]) EXCEPT !.del = TRUE]
  <2>3. /\ n \in ConfigObject /\ n.done = Cur(cfg[c]).done
        /\ n.fin = Cur(cfg[c]).fin
    BY <2>1 DEF ConfigObject
  <2>4. CASE Cur(cfg[c]).fin
    <3>1. UserWrites(c, n)
      BY <1>3, <2>4 DEF DeleteConfig
    <3> HIDE DEF n
    <3> QED BY <2>2, <2>3, <2>4, <3>1, NoneIsNoObject
  <2>5. CASE ~Cur(cfg[c]).fin
    <3>1. UserWrites(c, None)
      BY <1>3, <2>5 DEF DeleteConfig
    <3> QED BY <2>2, <2>5, <3>1
  <2> QED BY <2>4, <2>5
<1> QED BY <1>1, <1>2, <1>3 DEF User

\* With lag 0 every write reaches the cache at once.
LEMMA CacheStaysCurrent ==
  ASSUME Lag.config = 0, TypeOK, CopyIsCurrent, ExistsWasBorn, CacheIsCurrent, Next
  PROVE  CacheIsCurrent'
<1> DEFINE S == ConfigObject \cup {None}
<1>1. ASSUME NEW c \in Configs, NEW v \in S, cfg' = [cfg EXCEPT ![c] = Put(0, cfg[c], v)]
      PROVE  CacheIsCurrent'
  <2>1. cfg[c] \in Logs(S) /\ InSync(cfg[c])
    BY DEF TypeOK, CacheIsCurrent
  <2> HIDE DEF S
  <2>2. InSync(Put(0, cfg[c], v))
    BY <1>1, <2>1, LogNoLag
  <2> QED BY <1>1, <2>2 DEF CacheIsCurrent, TypeOK
<1>2. CASE Pass
  <2>1. CASE Quiet
    BY <2>1 DEF Quiet, CacheIsCurrent
  <2>2. CASE ConfigWrite
    <3>1. me \in Configs /\ \E v : v \in S /\ WriteConfig(v)
      BY <2>2, WritesStartFromStored
    <3> QED BY <1>1, <3>1 DEF WriteConfig
  <2> QED BY <1>2, <2>1, <2>2, QuietSteps
<1>3. ASSUME NEW c \in Configs, User(c) PROVE CacheIsCurrent'
  <2>1. \E v : v \in S /\ UserWrites(c, v)
    BY <1>3, UserWriteValue
  <2> QED BY <1>1, <2>1 DEF UserWrites
<1>4. CASE Crash
  BY <1>4, LogRelisted DEF Crash, CacheIsCurrent, TypeOK
<1>5. CASE ApiError \/ MachineChanges \/ DeliverMachine
  BY <1>5 DEF ApiError, MachineChanges, DeliverMachine, CacheIsCurrent
<1>6. ASSUME NEW c \in Configs, Reconcile(c) \/ Workloads(c) \/ Watch(c)
      PROVE  CacheIsCurrent'
  BY <1>6 DEF CacheIsCurrent, Reconcile, Workloads, Watch, InstallEnds,
        InstallSucceedsLate, InstallReruns,
       DecommissionEnds, DecommissionSucceedsLate, DecommissionReruns, DayTwoOutcome,
             ReleaseChild, GarbageCollect, DeliverConfig,
       DeliverInstall, DeliverDecommission, DeliverDayTwo
<1> QED BY <1>2, <1>3, <1>4, <1>5, <1>6 DEF Next, Pass

\* The calls of a pass that touch the install child or what is known of it, whether
\* they are answered or not: the Create, the write of its spec, and the Delete.
InstallCall ==
  \/ InstallCreated /\ UNCHANGED <<reruns, saw>>
  \/ /\ InstallChild /\ UNCHANGED <<runs, reruns, ran>>
     /\ \/ UNCHANGED saw
        \/ /\ Seen(inst[me]).st = "succeeded"
           /\ saw' = [saw EXCEPT ![me] = saw[me] \/ ~Seen(inst[me]).del]
  \/ /\ ctl.pc \in {"delRetry", "delDone"}
     /\ inst' = [inst EXCEPT ![me] = Deleted(Lag.job, inst[me])]
     /\ UNCHANGED <<runs, reruns, ran, saw>>

InstallStep ==
  \/ Pass /\ InstallCall
  \/ Crash
  \/ \E c \in Configs : \/ InstallEnds(c) \/ InstallSucceedsLate(c) \/ InstallReruns(c)
                        \/ ReleaseChild(c) \/ GarbageCollect(c) \/ DeliverInstall(c)

\* Every step but those of InstallStep leaves the install child and the history of
\* its runs alone.
LEMMA OtherSteps ==
  ASSUME TypeOK, ExistsWasBorn, Next
  PROVE  UNCHANGED <<inst, runs, reruns, ran, saw>> \/ InstallStep
<1> DEFINE Same == UNCHANGED <<inst, runs, reruns, ran, saw>>
<1>1. CASE Step
  <2>1. CASE CreateInstall
    BY <1>1, <2>1 DEF CreateInstall, InstallCall, InstallStep, Pass
  <2>2. CASE InstallSucceeded
    BY <1>1, <2>2 DEF InstallSucceeded, InstallCall, InstallStep, Pass
  <2>3. CASE InstallWait \/ InstallExhausted \/ InstallRetry
    BY <1>1, <2>3 DEF InstallWait, InstallExhausted, InstallRetry, InstallCall,
                      InstallStep, Pass, history
  <2>4. CASE DeleteFailedInstall \/ DeleteDoneInstall
    BY <1>1, <2>4 DEF DeleteFailedInstall, DeleteDoneInstall, InstallCall, InstallStep,
                      Pass, At, history
  <2>5. CASE \/ AddFinalizer \/ DropOnConflict \/ StatusUpdate
             \/ Blocked \/ SuspendDayTwo \/ PassGates \/ InstallConflict
             \/ MarkFullDiskInstallCompleted \/ RewriteFails \/ CreateDayTwo
             \/ DayTwoConflict \/ ObserveDayTwo \/ WriteBackMachineStatus
             \/ DeleteDayTwo \/ Decommission \/ CreateDecommission \/ ClearMachineStatus
             \/ BumpOnRemoveRetries \/ DeleteFailedDecommission \/ DeleteDecommissionJob
             \/ Finalize
    BY <2>5, Zenon DEF AddFinalizer, DropOnConflict, StatusUpdate, Blocked, SuspendDayTwo,
         PassGates, InstallConflict, MarkFullDiskInstallCompleted, RewriteFails,
         CreateDayTwo, DayTwoConflict, ObserveDayTwo, WriteBackMachineStatus, DeleteDayTwo,
         Decommission, CreateDecommission, ClearMachineStatus, BumpOnRemoveRetries,
         DeleteFailedDecommission, DeleteDecommissionJob, Finalize, kids, history
  <2> QED BY <1>1, <2>1, <2>2, <2>3, <2>4, <2>5 DEF Step
<1>2. CASE AnswerLost
  <2>1. CASE InstallAnswerLost
    BY <1>2, <2>1 DEF InstallAnswerLost, InstallCall, InstallStep, Pass, At
  <2>2. CASE MarkAnswerLost \/ DayTwoAnswerLost \/ DecommissionAnswerLost
    BY <2>2 DEF MarkAnswerLost, DayTwoAnswerLost, DecommissionAnswerLost, kids, history
  <2> QED BY <1>2, <2>1, <2>2 DEF AnswerLost
<1>3. CASE ApiError \/ MachineChanges \/ DeliverMachine
  BY <1>3 DEF ApiError, MachineChanges, DeliverMachine, kids, history
<1>4. ASSUME NEW c \in Configs, Reconcile(c) \/ Watch(c) \/ Workloads(c)
      PROVE  Same \/ InstallStep
  BY <1>4 DEF Reconcile, Watch, Workloads, InstallStep, DeliverConfig,
       DeliverDecommission, DeliverDayTwo, DecommissionEnds, DecommissionSucceedsLate,
       DecommissionReruns, DayTwoOutcome, kids, history
<1>5. ASSUME NEW c \in Configs, User(c) PROVE Same
  BY <1>5, UserWriteValue
<1> QED BY <1>1, <1>2, <1>3, <1>4, <1>5 DEF Next, InstallStep

\* A write of the log of an install child.
LEMMA InstallPut ==
  ASSUME TypeOK, NEW c \in Configs, NEW v \in InstallObject \cup {None},
         inst' = [inst EXCEPT ![c] = Put(Lag.job, inst[c], v)]
  PROVE  Cur(inst'[c]) = v /\ \A d \in Configs : d # c => inst'[d] = inst[d]
<1> DEFINE S == InstallObject \cup {None}
<1>1. inst[c] \in Logs(S) /\ v \in S /\ Lag.job \in Nat
  BY LagsAreNat DEF TypeOK
<1>2. inst'[c] = Put(Lag.job, inst[c], v) /\ \A d \in Configs : d # c => inst'[d] = inst[d]
  BY DEF TypeOK
<1> HIDE DEF S
<1>3. Cur(Put(Lag.job, inst[c], v)) = v
  BY <1>1, LogPut
<1> QED BY <1>2, <1>3

\* What a step may do to the stored install child o of c, which it leaves as n, and to
\* the history of its runs.
SameRuns(c) == runs'[c] = runs[c] /\ reruns'[c] = reruns[c] /\ ran'[c] = ran[c]

Alive(j) == j # None /\ ~j.del

InstallMoves(c, o, n) ==
  \/ SameRuns(c) /\ saw'[c] = saw[c] /\ n = o
  \* created
  \/ /\ Pass /\ c = me /\ ctl.pc = "install"
     /\ o = None /\ n = NewInstall
     /\ runs'[c] = Counted(runs[c]) /\ ran'[c] = Args(NewInstall)
     /\ reruns'[c] = reruns[c] /\ saw'[c] = saw[c]
  \* written
  \/ /\ Pass /\ c = me /\ ctl.pc = "install" /\ SameRuns(c)
     /\ \/ n = o
        \/ /\ Alive(o) /\ n # None
           /\ n = [o EXCEPT !.flake = ctl.obj.flake, !.host = ctl.host]
     /\ saw'[c] => saw[c] \/ (Alive(o) /\ o.st = "succeeded")
  \* deleted
  \/ /\ Pass /\ c = me /\ ctl.pc \in {"delRetry", "delDone"}
     /\ SameRuns(c) /\ saw'[c] = saw[c]
     /\ \/ o = None /\ n = None
        \/ o # None /\ n # None /\ n = [o EXCEPT !.del = TRUE]
  \* at the end of a run
  \/ /\ SameRuns(c) /\ saw'[c] = saw[c] /\ UNCHANGED <<cfg, ctl, edits, blips>>
     /\ Alive(o) /\ o.st # "succeeded"
     /\ n # None /\ \E r \in Reports : n = [o EXCEPT !.st = r]
  \* released or collected
  \/ /\ SameRuns(c) /\ saw'[c] = saw[c] /\ UNCHANGED <<cfg, ctl, edits, blips>>
     /\ \/ o # None /\ o.del /\ n = None
        \/ o # None /\ Cur(cfg[c]) = None /\ n # None /\ n = [o EXCEPT !.del = TRUE]
  \* at the start of a further run
  \/ /\ UNCHANGED <<cfg, ctl, edits, blips>>
     /\ Alive(o) /\ n # None /\ n = [o EXCEPT !.st = "active"]
     /\ Args(o) # ran[c] \/ MovingRef
     /\ runs'[c] = runs[c] /\ reruns'[c] = Counted(reruns[c])
     /\ ran'[c] = Args(o) /\ ~saw'[c]

\* Every step moves an install child, and counts a run of it, in one of these ways.
LEMMA InstallSteps ==
  ASSUME TypeOK, ExistsWasBorn, Next, NEW c \in Configs
  PROVE  InstallMoves(c, Cur(inst[c]), Cur(inst'[c]))
<1> DEFINE Moves == InstallMoves(c, Cur(inst[c]), Cur(inst'[c]))
<1>n. None \notin InstallObject
  BY NoneIsNoObject
<1>t. inst[c] \in Logs(InstallObject \cup {None})
  BY DEF TypeOK
<1>u. ASSUME SameRuns(c), saw'[c] = saw[c], Cur(inst'[c]) = Cur(inst[c]) PROVE Moves
  BY <1>u DEF InstallMoves
<1>1. CASE Pass /\ InstallCall
  <2>b. /\ ctl \in Busy /\ me \in Configs /\ ctl.obj \in ConfigObject
        /\ inst[me] \in Logs(InstallObject \cup {None})
        /\ Cur(inst[me]) \in InstallObject \cup {None}
        /\ Seen(inst[me]) \in InstallObject \cup {None}
    BY <1>1, StepIsBusy, BusyHere, Versions DEF TypeOK
  <2>1. CASE InstallCreated /\ UNCHANGED <<reruns, saw>>
    <3>1. NewInstall \in InstallObject
      BY <2>b DEF NewInstall, InstallObject, Reports, Busy, ConfigObject
    <3>2. inst' = [inst EXCEPT ![me] = Put(Lag.job, inst[me], NewInstall)]
      BY <2>1 DEF InstallCreated
    <3>3. Cur(inst'[me]) = NewInstall /\ \A d \in Configs : d # me => inst'[d] = inst[d]
      BY <2>b, <3>1, <3>2, InstallPut
    <3>4. /\ ctl.pc = "install" /\ Cur(inst[me]) = None
          /\ runs' = [runs EXCEPT ![me] = Counted(runs[me])]
          /\ ran' = [ran EXCEPT ![me] = Args(NewInstall)]
      BY <2>1 DEF InstallCreated, At
    <3>5. CASE c = me
      <4>1. runs'[c] = Counted(runs[c]) /\ ran'[c] = Args(NewInstall)
        BY <3>4, <3>5 DEF TypeOK
      <4> QED BY <1>1, <2>1, <3>3, <3>4, <3>5, <4>1 DEF InstallMoves
    <3>6. CASE c # me
      <4>1. runs'[c] = runs[c] /\ ran'[c] = ran[c]
        BY <3>4, <3>6 DEF TypeOK
      <4> QED BY <1>u, <2>1, <3>3, <3>6, <4>1 DEF SameRuns
    <3> QED BY <3>5, <3>6
  <2>2. CASE /\ InstallChild /\ UNCHANGED <<runs, reruns, ran>>
             /\ \/ UNCHANGED saw
                \/ /\ Seen(inst[me]).st = "succeeded"
                   /\ saw' = [saw EXCEPT ![me] = saw[me] \/ ~Seen(inst[me]).del]
    <3>1. /\ SameRuns(c) /\ ctl.pc = "install"
          /\ c # me => saw'[c] = saw[c]
          /\ saw'[me] => saw[me] \/ (Seen(inst[me]).st = "succeeded" /\ ~Seen(inst[me]).del)
      BY <2>b, <2>2 DEF SameRuns, InstallChild, At, TypeOK
    <3>2. CASE Seen(inst[me]).del
      <4>1. UNCHANGED inst
        BY <2>2, <3>2 DEF InstallChild
      <4>2. CASE c = me
        BY <1>1, <3>1, <3>2, <4>1, <4>2 DEF InstallMoves
      <4> QED BY <1>u, <3>1, <4>1, <4>2
    <3>3. CASE ~Seen(inst[me]).del
      <4>1. Seen(inst[me]) = Cur(inst[me]) /\ Alive(Cur(inst[me]))
        BY <2>b, <2>2, <3>3, LogVersions DEF InstallChild, Alive
      <4> DEFINE v == [Cur(inst[me]) EXCEPT !.flake = ctl.obj.flake, !.host = ctl.host]
      <4>2. v \in InstallObject
        BY <2>b, <4>1 DEF Alive, InstallObject, Busy, ConfigObject
      <4>3. inst' = [inst EXCEPT ![me] = Put(Lag.job, inst[me], v)]
        BY <2>2, <3>3 DEF InstallChild
      <4>4. Cur(inst'[me]) = v /\ \A d \in Configs : d # me => inst'[d] = inst[d]
        <5> HIDE DEF v
        <5> QED BY <2>b, <4>2, <4>3, InstallPut
      <4>5. CASE c = me
        BY <1>1, <1>n, <3>1, <4>1, <4>2, <4>4, <4>5 DEF InstallMoves
      <4> QED BY <1>u, <3>1, <4>4, <4>5
    <3> QED BY <3>2, <3>3
  <2>3. CASE /\ ctl.pc \in {"delRetry", "delDone"}
             /\ inst' = [inst EXCEPT ![me] = Deleted(Lag.job, inst[me])]
             /\ UNCHANGED <<runs, reruns, ran, saw>>
    <3>1. SameRuns(c) /\ saw'[c] = saw[c] /\ (c # me => inst'[c] = inst[c])
      BY <2>3 DEF SameRuns, TypeOK
    <3>2. CASE Cur(inst[me]) = None
      <4>1. Deleted(Lag.job, inst[me]) = inst[me]
        BY <3>2 DEF Deleted
      <4>2. Cur(inst'[c]) = Cur(inst[c])
        BY <2>3, <2>b, <4>1 DEF TypeOK
      <4> QED BY <1>u, <3>1, <4>2
    <3>3. CASE Cur(inst[me]) # None
      <4> DEFINE v == [Cur(inst[me]) EXCEPT !.del = TRUE]
      <4>1. v \in InstallObject
        BY <2>b, <3>3 DEF InstallObject
      <4>2. inst' = [inst EXCEPT ![me] = Put(Lag.job, inst[me], v)]
        BY <2>3, <3>3 DEF Deleted
      <4>3. Cur(inst'[me]) = v
        <5> HIDE DEF v
        <5> QED BY <2>b, <4>1, <4>2, InstallPut
      <4>4. CASE c = me
        BY <1>1, <1>n, <2>3, <3>1, <3>3, <4>1, <4>3, <4>4 DEF InstallMoves
      <4> QED BY <1>u, <3>1, <4>4
    <3> QED BY <3>2, <3>3
  <2> QED BY <1>1, <2>1, <2>2, <2>3 DEF InstallCall
<1>2. CASE Crash
  <2>1. inst'[c] = Relisted(inst[c]) /\ SameRuns(c) /\ saw'[c] = saw[c]
    BY <1>2 DEF Crash, TypeOK, SameRuns, history
  <2>2. Cur(inst'[c]) = Cur(inst[c])
    BY <1>t, <2>1, LogRelisted
  <2> QED BY <1>u, <2>1, <2>2
<1>3. ASSUME NEW d \in Configs, InstallEnds(d) \/ InstallSucceedsLate(d) PROVE Moves
  <2>1. /\ Cur(inst[d]) \in InstallObject /\ Alive(Cur(inst[d]))
        /\ Cur(inst[d]).st # "succeeded"
    BY <1>3, Versions DEF InstallEnds, InstallSucceedsLate, Alive
  <2>2. PICK r \in Reports :
          inst' = [inst EXCEPT ![d] = Put(Lag.job, inst[d], [Cur(inst[d]) EXCEPT !.st = r])]
    BY <1>3 DEF InstallEnds, InstallSucceedsLate, Reports
  <2> DEFINE v == [Cur(inst[d]) EXCEPT !.st = r]
  <2>3. v \in InstallObject
    BY <2>1, <2>2 DEF InstallObject
  <2>4. Cur(inst'[d]) = v /\ \A e \in Configs : e # d => inst'[e] = inst[e]
    <3> HIDE DEF v
    <3>1. inst' = [inst EXCEPT ![d] = Put(Lag.job, inst[d], v)]
      BY <2>2 DEF v
    <3> QED BY <2>3, <3>1, InstallPut
  <2>5. SameRuns(c) /\ saw'[c] = saw[c] /\ UNCHANGED <<cfg, ctl, edits, blips>>
    BY <1>3 DEF InstallEnds, InstallSucceedsLate, SameRuns, history, budgets
  <2>6. CASE c = d
    BY <1>n, <2>1, <2>3, <2>4, <2>5, <2>6 DEF InstallMoves
  <2> QED BY <1>u, <2>4, <2>5, <2>6
<1>4. ASSUME NEW d \in Configs, ReleaseChild(d) PROVE Moves
  <2>1. SameRuns(c) /\ saw'[c] = saw[c] /\ UNCHANGED <<cfg, ctl, edits, blips>>
    BY <1>4 DEF ReleaseChild, SameRuns, history, budgets
  <2>2. CASE UNCHANGED inst
    BY <1>u, <2>1, <2>2
  <2>3. CASE /\ Cur(inst[d]) # None /\ Cur(inst[d]).del
             /\ inst' = [inst EXCEPT ![d] = Put(Lag.job, inst[d], None)]
    <3>1. Cur(inst'[d]) = None /\ \A e \in Configs : e # d => inst'[e] = inst[e]
      BY <2>3, InstallPut
    <3>2. CASE c = d
      BY <2>1, <2>3, <3>1, <3>2 DEF InstallMoves
    <3> QED BY <1>u, <2>1, <3>1, <3>2
  <2> QED BY <1>4, <2>2, <2>3 DEF ReleaseChild
<1>5. ASSUME NEW d \in Configs, GarbageCollect(d) PROVE Moves
  <2>1. /\ SameRuns(c) /\ saw'[c] = saw[c] /\ UNCHANGED <<cfg, ctl, edits, blips>>
        /\ Cur(cfg[d]) = None
    BY <1>5 DEF GarbageCollect, SameRuns, history, budgets
  <2>2. CASE UNCHANGED inst
    BY <1>u, <2>1, <2>2
  <2>3. CASE /\ Cur(inst[d]) # None
             /\ inst' = [inst EXCEPT ![d] = Deleted(Lag.job, inst[d])]
    <3> DEFINE v == [Cur(inst[d]) EXCEPT !.del = TRUE]
    <3>1. v \in InstallObject
      BY <2>3, Versions DEF InstallObject
    <3>2. inst' = [inst EXCEPT ![d] = Put(Lag.job, inst[d], v)]
      BY <2>3 DEF Deleted
    <3>3. Cur(inst'[d]) = v /\ \A e \in Configs : e # d => inst'[e] = inst[e]
      <4> HIDE DEF v
      <4> QED BY <3>1, <3>2, InstallPut
    <3>4. CASE c = d
      BY <1>n, <2>1, <2>3, <3>1, <3>3, <3>4 DEF InstallMoves
    <3> QED BY <1>u, <2>1, <3>3, <3>4
  <2> QED BY <1>5, <2>2, <2>3 DEF GarbageCollect
<1>6. ASSUME NEW d \in Configs, DeliverInstall(d) PROVE Moves
  <2>1. /\ SameRuns(c) /\ saw'[c] = saw[c]
        /\ ~InSync(inst[d]) /\ inst' = [inst EXCEPT ![d] = Delivered(inst[d])]
    BY <1>6 DEF DeliverInstall, SameRuns, history
  <2>2. d = c => Cur(Delivered(inst[c])) = Cur(inst[c])
    BY <1>t, <2>1, LogDelivered
  <2>3. Cur(inst'[c]) = Cur(inst[c])
    BY <2>1, <2>2 DEF TypeOK
  <2> QED BY <1>u, <2>1, <2>3
<1>7. ASSUME NEW d \in Configs, InstallReruns(d) PROVE Moves
  <2> DEFINE v == [Cur(inst[d]) EXCEPT !.st = "active"]
  <2>1. /\ Cur(inst[d]) \in InstallObject /\ Alive(Cur(inst[d]))
        /\ Args(Cur(inst[d])) # ran[d] \/ MovingRef
        /\ UNCHANGED <<cfg, ctl, edits, blips, runs>>
    BY <1>7, Versions DEF InstallReruns, Alive, budgets
  <2>2. /\ inst' = [inst EXCEPT ![d] = Put(Lag.job, inst[d], v)]
        /\ reruns' = [reruns EXCEPT ![d] = Counted(reruns[d])]
        /\ ran' = [ran EXCEPT ![d] = Args(Cur(inst[d]))]
        /\ saw' = [saw EXCEPT ![d] = FALSE]
    BY <1>7 DEF InstallReruns
  <2>3. v \in InstallObject
    BY <2>1 DEF InstallObject, Reports
  <2>4. Cur(inst'[d]) = v /\ \A e \in Configs : e # d => inst'[e] = inst[e]
    <3> HIDE DEF v
    <3> QED BY <2>2, <2>3, InstallPut
  <2>5. CASE c = d
    <3>1. /\ runs'[c] = runs[c] /\ reruns'[c] = Counted(reruns[c])
          /\ ran'[c] = Args(Cur(inst[c])) /\ ~saw'[c]
      BY <2>1, <2>2, <2>5 DEF TypeOK
    <3> QED BY <1>n, <2>1, <2>3, <2>4, <2>5, <3>1 DEF InstallMoves
  <2>6. CASE c # d
    <3>1. SameRuns(c) /\ saw'[c] = saw[c]
      BY <2>1, <2>2, <2>6 DEF SameRuns, TypeOK
    <3> QED BY <1>u, <2>4, <2>6, <3>1
  <2> QED BY <2>5, <2>6
<1>8. CASE UNCHANGED <<inst, runs, reruns, ran, saw>>
  BY <1>u, <1>8 DEF SameRuns
<1> QED BY <1>1, <1>2, <1>3, <1>4, <1>5, <1>6, <1>7, <1>8, OtherSteps DEF InstallStep

\* The steps of a reconcile that lead to the install and to the deletions of its
\* child.
LEMMA Arrives ==
  ASSUME TypeOK, Pass
  PROVE  /\ ctl'.pc = "gates" => AddFinalizer
         /\ ctl'.pc = "install" => PassGates
         /\ ctl'.pc = "delRetry" => InstallRetry
         /\ ctl'.pc = "delDone" => MarkFullDiskInstallCompleted
         /\ ctl'.pc # "addFinalizer"
<1> DEFINE Watched == {"gates", "install", "delRetry", "delDone", "addFinalizer"}
<1>b. ctl \in Busy /\ me \in Configs /\ ctl.obj \in ConfigObject
  BY StepIsBusy, BusyHere
<1>1. CASE AddFinalizer \/ InstallRetry \/ MarkFullDiskInstallCompleted
  BY <1>b, <1>1 DEF AddFinalizer, InstallRetry, InstallChild, MarkFullDiskInstallCompleted,
                    Rewrite, Rewritten, Completed, Bumped, WithStatus, Busy
<1>2. CASE PassGates
  BY <1>b, <1>2 DEF PassGates, Busy
<1>3. CASE ctl' = Idle
  BY <1>3 DEF Idle
<1>4. CASE \E p \in PCs \ Watched : Goto(p)
  BY <1>b, <1>4 DEF Goto, Busy
<1>5. CASE \E ph, ap : Report(ph, ap)
  BY <1>b, <1>5 DEF Report, Busy
<1>6. CASE Blocked \/ BumpOnRemoveRetries
  BY <1>b, <1>6 DEF Blocked, BumpOnRemoveRetries, Rewrite, Rewritten, Completed, Bumped,
        WithStatus, Busy
<1>7. CASE DropOnConflict \/ StatusUpdate \/ Finalize
  BY <1>3, <1>7 DEF DropOnConflict, StatusUpdate, WithStatus, Finalize
<1>8. CASE SuspendDayTwo \/ InstallConflict \/ InstallSucceeded \/ DeleteDoneInstall
             \/ DayTwoConflict \/ WriteBackMachineStatus \/ DeleteDayTwo
             \/ DeleteFailedDecommission \/ DeleteDecommissionJob
  BY <1>4, <1>8 DEF SuspendDayTwo, InstallConflict, InstallSucceeded, InstallChild,
       DeleteDoneInstall, DayTwoConflict, WriteBackMachineStatus, DeleteDayTwo,
       DeleteFailedDecommission, AfterStamp, DeleteDecommissionJob, PCs
<1>9. CASE InstallWait \/ InstallExhausted \/ DeleteFailedInstall
  BY <1>5, <1>9 DEF InstallWait, InstallChild, InstallExhausted, DeleteFailedInstall
<1>10. CASE CreateInstall \/ CreateDayTwo
  BY <1>4, <1>5, <1>10 DEF CreateInstall, InstallCreated, CreateDayTwo, DayTwoCreated, PCs
<1>11. CASE RewriteFails
  BY <1>b, <1>11 DEF RewriteFails, Busy, Idle
<1>12. CASE ClearMachineStatus
  BY <1>3, <1>4, <1>12 DEF ClearMachineStatus, PCs
<1>13. CASE CreateDecommission
  <2>1. \/ Goto("finalize")
        \/ ctl' = [ctl EXCEPT !.pc = "rmStatus", !.obj.phase = "Removing"]
    BY <1>13 DEF CreateDecommission, DecommissionCreated
  <2> QED BY <1>b, <2>1 DEF Goto, Busy
<1>14. CASE Decommission
  <2>1. ctl'.pc \in {"clearOnly", "clear", "finalize", "createDec", "dropJob", "bump",
                     "rmStatus"}
    BY <1>b, <1>14 DEF Decommission, AfterStamp, Busy
  <2> QED BY <2>1
<1>15. CASE ObserveDayTwo
  <2>1. CASE ctl' = [ctl EXCEPT !.pc = "writeback", !.obj.phase = "Ready",
                                !.obj.applied = TRUE]
    BY <1>b, <2>1 DEF Busy
  <2> QED BY <1>5, <1>15, <2>1 DEF ObserveDayTwo, DayTwoResumed
<1>16. CASE AnswerLost
  <2>1. ctl.pc \in {"install", "mark", "delRetry", "daytwo", "createDec"}
    BY <1>16 DEF AnswerLost, InstallAnswerLost, MarkAnswerLost, DayTwoAnswerLost,
         DecommissionAnswerLost, InstallCreated, InstallChild, DayTwoCreated,
         DayTwoResumed, DecommissionCreated, At
  <2>2. ctl'.pc = AfterError.pc
    BY <1>16, <1>b, <2>1 DEF AnswerLost, InstallAnswerLost, MarkAnswerLost,
         DayTwoAnswerLost, DecommissionAnswerLost, AfterError, At, Busy
  <2>3. AfterError.pc \in {"status", "finalize"}
    BY <1>b, <2>1 DEF AfterError, At, Busy
  <2> QED BY <2>2, <2>3
<1> QED BY <1>1, <1>2, <1>6, <1>7, <1>8, <1>9, <1>10, <1>11, <1>12, <1>13, <1>14,
           <1>15, <1>16 DEF Pass, Step

\* Only the start of a reconcile and the two steps before it lead to the install.
LEMMA KnowsCompletionKept ==
  ASSUME TypeOK, CopyIsCurrent, ExistsWasBorn, CacheIsCurrent, KnowsCompletion, Next
  PROVE  KnowsCompletion'
<1>0. ASSUME ctl'.pc \notin {"gates", "install"} PROVE KnowsCompletion'
  BY <1>0 DEF KnowsCompletion
<1>u. ASSUME ctl'.pc = ctl.pc, ctl'.c = ctl.c, ctl'.obj = ctl.obj,
             \A c \in Configs : Cur(cfg'[c]) = Cur(cfg[c])
      PROVE  KnowsCompletion'
  <2>1. CASE ctl = Idle
    BY <1>0, <1>u, <2>1 DEF Idle
  <2>2. CASE ctl \in Busy
    BY <1>u, <2>2 DEF KnowsCompletion, Busy, me
  <2> QED BY <2>1, <2>2 DEF TypeOK
<1>1. CASE Pass
  <2>b. ctl \in Busy /\ me \in Configs /\ ctl.obj \in ConfigObject
    BY <1>1, StepIsBusy, BusyHere
  <2>1. CASE AddFinalizer
    <3> DEFINE n == [ctl.obj EXCEPT !.fin = TRUE]
    <3>1. n \in ConfigObject /\ WriteConfig(n) /\ n.fin
      BY <2>b, <2>1 DEF AddFinalizer, ConfigObject
    <3>2. ctl'.c = ctl.c /\ ctl'.obj = n /\ ctl'.pc = "gates"
      BY <2>b, <2>1 DEF AddFinalizer, Busy, ConfigObject
    <3> HIDE DEF n
    <3>3. Cur(cfg'[me]) = n
      BY <2>b, <3>1, Written
    <3> QED BY <3>1, <3>2, <3>3, NoneIsNoObject DEF KnowsCompletion, me
  <2>2. CASE PassGates
    <3>1. ctl'.c = ctl.c /\ ctl'.obj = ctl.obj /\ cfg' = cfg /\ ctl.pc = "gates"
      BY <2>b, <2>2 DEF PassGates, Busy, At
    <3>2. ctl'.pc # "gates" /\ (ctl'.pc = "install" => ~ctl.obj.done)
      BY <2>b, <2>2 DEF PassGates, Busy
    <3> QED BY <3>1, <3>2 DEF KnowsCompletion, me
  <2> QED BY <1>0, <1>1, <2>1, <2>2, Arrives
<1>2. CASE ApiError
  BY <1>0, <1>2, BusyHere DEF ApiError, AfterError, At, Busy, Idle
<1>3. CASE Crash
  BY <1>0, <1>3 DEF Crash, Idle
<1>4. CASE MachineChanges
  <2>1. ctl'.pc = ctl.pc /\ ctl'.c = ctl.c /\ ctl'.obj = ctl.obj /\ UNCHANGED cfg
    BY <1>4 DEF MachineChanges, TypeOK, Busy, Idle
  <2> QED BY <1>u, <2>1
<1>5. CASE DeliverMachine
  BY <1>5, <1>u DEF DeliverMachine
<1>6. ASSUME NEW c \in Configs, Reconcile(c) PROVE KnowsCompletion'
  <2>1. Seen(cfg[c]) = Cur(cfg[c])
    BY LogVersions DEF TypeOK, CacheIsCurrent
  <2>2. /\ cfg' = cfg /\ Seen(cfg[c]) # None
        /\ ctl'.c = c /\ ctl'.obj = Seen(cfg[c])
        /\ ctl'.pc # "install" /\ (ctl'.pc = "gates" => Seen(cfg[c]).fin)
    BY <1>6 DEF Reconcile
  <2> QED BY <2>1, <2>2 DEF KnowsCompletion, me
<1>7. ASSUME NEW c \in Configs, User(c) PROVE KnowsCompletion'
  <2>1. PICK n \in ConfigObject \cup {None} :
              /\ UserWrites(c, n)
              /\ Cur(cfg[c]) # None /\ Cur(cfg[c]).fin
                   => n # None /\ n.done = Cur(cfg[c]).done /\ n.fin
    BY <1>7, UserWriteValue
  <2>2. Cur(cfg'[c]) = n /\ \A d \in Configs : d # c => cfg'[d] = cfg[d]
    BY <2>1, UserWritten
  <2>3. ctl'.pc = ctl.pc /\ ctl'.c = ctl.c /\ ctl'.obj = ctl.obj
    BY <2>1 DEF UserWrites, TypeOK, Busy, Idle
  <2>4. CASE ctl = Idle
    BY <1>0, <2>3, <2>4 DEF Idle
  <2>5. CASE ctl \in Busy
    BY <2>1, <2>2, <2>3, <2>5 DEF KnowsCompletion, Busy, me
  <2> QED BY <2>4, <2>5 DEF TypeOK
<1>8. ASSUME NEW c \in Configs, Workloads(c) \/ Watch(c) PROVE KnowsCompletion'
  <2>1. UNCHANGED <<cfg, ctl>>
    BY <1>8 DEF Workloads, Watch, InstallEnds, InstallSucceedsLate, InstallReruns,
          DecommissionEnds, DecommissionSucceedsLate, DecommissionReruns,
         DayTwoOutcome, ReleaseChild, GarbageCollect, DeliverConfig, DeliverInstall,
         DeliverDecommission, DeliverDayTwo, CacheIsCurrent
  <2> QED BY <1>u, <2>1
<1> QED BY <1>1, <1>2, <1>3, <1>4, <1>5, <1>6, <1>7, <1>8 DEF Next, Pass

\* What a step leaves of a completion, or of the configuration's absence.
LEMMA CompletedStays ==
  ASSUME TypeOK, TypeOK', CopyIsCurrent, ExistsWasBorn, Next, NEW c \in Configs,
         born[c] # 0, Cur(cfg[c]) = None \/ Cur(cfg[c]).done
  PROVE  born'[c] # 0 /\ (Cur(cfg'[c]) = None \/ Cur(cfg'[c]).done)
BY DurableStep DEF Kept, StaysGone

\* The install child is not deleted, nor the retry taken, once a success was seen.
LEMMA DeletesSafelyKept ==
  ASSUME TypeOK, TypeOK', CopyIsCurrent, ExistsWasBorn, InstallInv, Next
  PROVE  DeletesSafely'
<1>0. ASSUME ctl'.pc \notin {"delRetry", "delDone"} PROVE DeletesSafely'
  BY <1>0 DEF DeletesSafely
<1>u. ASSUME ctl'.pc = ctl.pc, ctl'.c = ctl.c, \A c \in Configs : saw'[c] => saw[c]
      PROVE  DeletesSafely'
  <2>1. CASE ctl = Idle
    BY <1>0, <1>u, <2>1 DEF Idle
  <2>2. CASE ctl \in Busy
    BY <1>u, <2>2, CompletedStays DEF InstallInv, DeletesSafely, Busy, me
  <2> QED BY <2>1, <2>2 DEF TypeOK
<1>1. CASE Pass
  <2>b. ctl \in Busy /\ me \in Configs
    BY <1>1, StepIsBusy, BusyHere
  <2>1. CASE InstallRetry
    <3>1. /\ ctl.pc = "install" /\ ctl'.pc = "delRetry" /\ ctl'.c = ctl.c
          /\ UNCHANGED saw
      BY <2>b, <2>1 DEF InstallRetry, InstallChild, At, Busy, history
    <3>2. Seen(inst[me]) = Cur(inst[me])
      BY <2>b, <2>1, LogVersions DEF InstallRetry, InstallChild, NewFailure, TypeOK
    <3>3. ~Succeeded(me)
      BY <2>1, <3>2 DEF InstallRetry, InstallChild, NewFailure, Succeeded
    <3>4. ~saw[me]
      BY <2>b, <3>1, <3>3 DEF InstallInv, Remembered, KnowsCompletion
    <3> QED BY <3>1, <3>4 DEF DeletesSafely, me
  <2>2. CASE MarkFullDiskInstallCompleted
    <3> DEFINE n == Completed
    <3>1. /\ Seen(cfg[me]) \in ConfigObject /\ Seen(cfg[me]) = Cur(cfg[me])
      BY <2>b, <2>2, LogVersions DEF MarkFullDiskInstallCompleted, Rewrite, TypeOK
    <3>2. /\ n \in ConfigObject /\ WriteConfig(n) /\ n.done
          /\ ctl'.pc = "delDone" /\ ctl'.c = ctl.c /\ UNCHANGED born
      BY <2>b, <2>2, <3>1 DEF MarkFullDiskInstallCompleted, Rewrite, Rewritten,
                              Completed, ConfigObject, Busy, history
    <3> HIDE DEF n
    <3>3. Cur(cfg'[me]) = n
      BY <2>b, <3>2, Written
    <3>4. born[me] # 0
      BY <2>b, <3>1, NoneIsNoObject DEF ExistsWasBorn
    <3> QED BY <3>2, <3>3, <3>4 DEF DeletesSafely, me
  <2> QED BY <1>0, <1>1, <2>1, <2>2, Arrives
<1>2. CASE ApiError
  BY <1>0, <1>2, BusyHere DEF ApiError, AfterError, At, Busy, Idle
<1>3. CASE Crash
  BY <1>0, <1>3 DEF Crash, Idle
<1>4. CASE MachineChanges
  <2>1. ctl'.pc = ctl.pc /\ ctl'.c = ctl.c /\ UNCHANGED saw
    BY <1>4 DEF MachineChanges, TypeOK, Busy, Idle, history
  <2> QED BY <1>u, <2>1
<1>5. CASE DeliverMachine
  BY <1>5, <1>u DEF DeliverMachine, history
<1>6. ASSUME NEW c \in Configs, Reconcile(c) PROVE DeletesSafely'
  BY <1>0, <1>6 DEF Reconcile
<1>7. ASSUME NEW c \in Configs, User(c) PROVE DeletesSafely'
  <2>1. UNCHANGED saw /\ \E n : UserWrites(c, n)
    BY <1>7, UserWriteValue, Zenon
  <2>2. ctl'.pc = ctl.pc /\ ctl'.c = ctl.c
    BY <2>1 DEF UserWrites, TypeOK, Busy, Idle
  <2> QED BY <1>u, <2>1, <2>2
<1>8. ASSUME NEW c \in Configs, Workloads(c) \/ Watch(c) PROVE DeletesSafely'
  <2>1. UNCHANGED ctl /\ (UNCHANGED saw \/ InstallReruns(c))
    BY <1>8 DEF Workloads, Watch, InstallEnds, InstallSucceedsLate, InstallReruns,
         DecommissionEnds, DecommissionSucceedsLate, DecommissionReruns,
         DayTwoOutcome, ReleaseChild, GarbageCollect, DeliverConfig, DeliverInstall,
         DeliverDecommission, DeliverDayTwo, history
  <2>2. \A d \in Configs : saw'[d] => saw[d]
    BY <2>1 DEF InstallReruns, TypeOK
  <2> QED BY <1>u, <2>1, <2>2
<1> QED BY <1>1, <1>2, <1>3, <1>4, <1>5, <1>6, <1>7, <1>8 DEF Next, Pass

\* A child whose success was seen keeps reporting it while its configuration lives
\* and is not completed, or runs again.
LEMMA RecordKept ==
  ASSUME InstallInv, NEW c \in Configs, InstallMoves(c, Cur(inst[c]), Cur(inst'[c])),
         Cur(inst[c]) \in InstallObject \cup {None},
         saw[c], saw'[c], Succeeded(c), Cur(cfg[c]) # None, ~Cur(cfg[c]).done
  PROVE  Succeeded(c)'
<1>1. Cur(inst[c]) \in InstallObject /\ Alive(Cur(inst[c]))
  BY DEF Succeeded, Alive
<1>2. CASE Cur(inst'[c]) = Cur(inst[c])
  BY <1>2 DEF Succeeded
<1>3. CASE /\ Cur(inst'[c]) # None
           /\ Cur(inst'[c]) = [Cur(inst[c]) EXCEPT !.flake = ctl.obj.flake, !.host = ctl.host]
  BY <1>1, <1>3 DEF Succeeded, InstallObject
<1>4. CASE c = me /\ ctl.pc \in {"delRetry", "delDone"}
  BY <1>4 DEF InstallInv, DeletesSafely
<1> QED BY <1>1, <1>2, <1>3, <1>4 DEF InstallMoves, Succeeded, Alive

\* No step creates an install child once a success is on record.
LEMMA NoCreation ==
  ASSUME InstallInv, NEW c \in Configs, InstallMoves(c, Cur(inst[c]), Cur(inst'[c])),
         saw[c] \/ (Cur(cfg[c]) # None /\ Cur(cfg[c]).done)
  PROVE  runs'[c] = runs[c]
<1>1. ASSUME c = me, ctl.pc = "install", Cur(inst[c]) = None PROVE FALSE
  <2>1. Cur(cfg[c]) # None /\ ~Cur(cfg[c]).done
    BY <1>1 DEF InstallInv, KnowsCompletion
  <2> QED BY <1>1, <2>1 DEF InstallInv, Remembered, Succeeded
<1> QED BY <1>1 DEF InstallMoves, SameRuns

\* A seen success stays on record.
LEMMA RememberedKept ==
  ASSUME TypeOK, TypeOK', CopyIsCurrent, ExistsWasBorn, InstallInv, Next
  PROVE  Remembered'
<1> SUFFICES ASSUME NEW c \in Configs, saw'[c]
             PROVE  /\ born'[c] # 0
                    /\ Cur(cfg'[c]) = None \/ Cur(cfg'[c]).done \/ Succeeded(c)'
  BY DEF Remembered
<1>m. /\ InstallMoves(c, Cur(inst[c]), Cur(inst'[c]))
      /\ Cur(inst[c]) \in InstallObject \cup {None}
  BY InstallSteps, Versions
<1>1. CASE saw[c]
  <2>1. born[c] # 0 /\ (Cur(cfg[c]) = None \/ Cur(cfg[c]).done \/ Succeeded(c))
    BY <1>1 DEF InstallInv, Remembered
  <2>2. born'[c] # 0
    BY <2>1, DurableStep DEF StaysGone
  <2>3. CASE Cur(cfg[c]) = None \/ Cur(cfg[c]).done
    BY <2>1, <2>3, CompletedStays
  <2>4. CASE Cur(cfg[c]) # None /\ ~Cur(cfg[c]).done
    BY <1>1, <1>m, <2>1, <2>2, <2>4, RecordKept
  <2> QED BY <2>3, <2>4
<1>2. CASE ~saw[c]
  <2> DEFINE o == Cur(inst[c])
             n == Cur(inst'[c])
  <2>1. /\ c = me /\ ctl.pc = "install" /\ Alive(o) /\ o.st = "succeeded"
        /\ \/ n = o
           \/ n # None /\ n = [o EXCEPT !.flake = ctl.obj.flake, !.host = ctl.host]
    BY <1>2, <1>m DEF InstallMoves
  <2>2. Succeeded(c)'
    <3>1. o \in InstallObject
      BY <1>m, <2>1 DEF Alive
    <3> QED BY <2>1, <3>1 DEF Succeeded, Alive, InstallObject
  <2>3. born[c] # 0
    BY <2>1 DEF InstallInv, KnowsCompletion, ExistsWasBorn
  <2>4. born'[c] # 0
    BY <2>3, DurableStep DEF StaysGone
  <2> QED BY <2>2, <2>4
<1> QED BY <1>1, <1>2

\* InstallInv holds throughout, when reads are settled.
LEMMA InstallInvariant == SettledReads => (Spec => []InstallInv)
<1> SUFFICES ASSUME SettledReads PROVE Spec => []InstallInv
  OBVIOUS
<1>1. Init => InstallInv
  BY DEF Init, InstallInv, CacheIsCurrent, KnowsCompletion, Remembered, DeletesSafely,
         InSync, Idle
<1>2. ASSUME TypeOK, TypeOK', CopyIsCurrent, ExistsWasBorn, InstallInv, [Next]_vars
      PROVE  InstallInv'
  <2>1. CASE Next
    BY <1>2, <2>1, SettledSetting, CacheStaysCurrent, KnowsCompletionKept, RememberedKept,
       DeletesSafelyKept DEF InstallInv
  <2>2. CASE UNCHANGED vars
    BY <1>2, <2>2 DEF vars, InstallInv, CacheIsCurrent, KnowsCompletion, Remembered,
         DeletesSafely, Succeeded, me
  <2> QED BY <1>2, <2>1, <2>2
<1> QED BY <1>1, <1>2, StoredInvariant, PTL DEF Spec

\* No install child is created after a reconcile saw one succeed, nor once the
\* completion is stored, for any number of configurations, retries, faults, lost
\* answers and edits, any lag of the informers of the children, and any ref.
THEOREM NoSecondInstall == SettledReads => (Spec => NoRecreation)
<1> SUFFICES ASSUME SettledReads PROVE Spec => NoRecreation
  OBVIOUS
<1>1. ASSUME TypeOK, ExistsWasBorn, InstallInv, [Next]_vars
      PROVE  [\A c \in Configs :
                saw[c] \/ (Exists(c) /\ Cur(cfg[c]).done) => runs'[c] = runs[c]]_vars
  BY <1>1, InstallSteps, NoCreation DEF Exists
<1> QED BY <1>1, StoredInvariant, InstallInvariant, PTL DEF Spec, NoRecreation

-----------------------------------------------------------------------------
(* Removal. *)

RemovalPCs == {"removing", "decommission", "createDec", "clearOnly", "clear", "bump",
               "delFailed", "dropJob", "rmStatus", "finalize"}

\* Removal is entered by Reconcile alone: the steps of a pass that is not removing
\* do not lead there.
LEMMA RemovalSteps ==
  ASSUME TypeOK, Pass, ctl'.pc \in RemovalPCs
  PROVE  /\ ctl.pc \in RemovalPCs /\ ctl'.c = ctl.c
         /\ ctl'.obj.del = ctl.obj.del /\ ctl'.obj.onrm = ctl.obj.onrm
         /\ \/ DeleteDayTwo \/ Decommission \/ CreateDecommission \/ ClearMachineStatus
            \/ BumpOnRemoveRetries \/ DeleteFailedDecommission \/ DeleteDecommissionJob
            \/ AnswerLost /\ DecommissionAnswerLost
<1>b. ctl \in Busy /\ me \in Configs /\ ctl.obj \in ConfigObject
  BY StepIsBusy, BusyHere
<1>1. CASE ctl' = Idle
  BY <1>1 DEF Idle, RemovalPCs
<1>2. CASE \E p \in PCs \ RemovalPCs : Goto(p)
  BY <1>b, <1>2 DEF Goto, Busy
<1>3. CASE \E ph, ap : Report(ph, ap)
  BY <1>b, <1>3 DEF Report, Busy, RemovalPCs
<1>4. CASE AddFinalizer \/ InstallRetry \/ Blocked \/ PassGates
  BY <1>b, <1>4 DEF AddFinalizer, InstallRetry, InstallChild, Blocked, PassGates, Busy,
        RemovalPCs
<1>5. CASE MarkFullDiskInstallCompleted
  BY <1>b, <1>5 DEF MarkFullDiskInstallCompleted, Rewrite, Rewritten, Completed, Bumped,
        WithStatus, Busy, RemovalPCs
<1>6. CASE DropOnConflict \/ StatusUpdate \/ Finalize
  BY <1>1, <1>6 DEF DropOnConflict, StatusUpdate, WithStatus, Finalize
<1>7. CASE \/ SuspendDayTwo \/ InstallConflict \/ InstallSucceeded \/ DeleteDoneInstall
           \/ DayTwoConflict \/ WriteBackMachineStatus
  BY <1>2, <1>7 DEF SuspendDayTwo, InstallConflict, InstallSucceeded, InstallChild,
        DeleteDoneInstall,
       DayTwoConflict, WriteBackMachineStatus, PCs, RemovalPCs
<1>8. CASE InstallWait \/ InstallExhausted \/ DeleteFailedInstall
  BY <1>3, <1>8 DEF InstallWait, InstallChild, InstallExhausted, DeleteFailedInstall
<1>9. CASE CreateInstall \/ CreateDayTwo
  BY <1>2, <1>3, <1>9 DEF CreateInstall, InstallCreated, CreateDayTwo, DayTwoCreated,
        PCs, RemovalPCs
<1>10. CASE RewriteFails
  BY <1>b, <1>10 DEF RewriteFails, Busy, Idle, RemovalPCs
<1>11. CASE ObserveDayTwo
  <2>1. CASE ctl' = [ctl EXCEPT !.pc = "writeback", !.obj.phase = "Ready",
                                !.obj.applied = TRUE]
    BY <1>b, <2>1 DEF Busy, RemovalPCs
  <2> QED BY <1>3, <1>11, <2>1 DEF ObserveDayTwo, DayTwoResumed
<1>12. CASE \/ DeleteDayTwo \/ CreateDecommission \/ ClearMachineStatus
            \/ BumpOnRemoveRetries \/ DeleteFailedDecommission \/ DeleteDecommissionJob
  <2>1. ctl.pc \in RemovalPCs
    BY <1>12 DEF DeleteDayTwo, CreateDecommission, DecommissionCreated,
          ClearMachineStatus, BumpOnRemoveRetries,
         DeleteFailedDecommission, DeleteDecommissionJob, At, RemovalPCs
  <2>i. ctl' # Idle
    BY DEF Idle, RemovalPCs
  <2>f. \/ \E p : Goto(p)
        \/ ctl' = [ctl EXCEPT !.pc = "rmStatus", !.obj.phase = "Removing"]
        \/ Rewritten(Bumped, "delFailed")
    BY <1>12, <2>i DEF DeleteDayTwo, CreateDecommission, ClearMachineStatus,
         BumpOnRemoveRetries, DeleteFailedDecommission, DeleteDecommissionJob
  <2>g. ASSUME Rewritten(Bumped, "delFailed")
        PROVE  ctl'.c = ctl.c /\ ctl'.obj.del = ctl.obj.del /\ ctl'.obj.onrm = ctl.obj.onrm
    <3> DEFINE b == Bumped
    <3>1. ctl' = [ctl EXCEPT !.pc = "delFailed", !.obj = WithStatus(ctl.obj, b), !.fresh = TRUE]
      BY <2>g DEF Rewritten
    <3> HIDE DEF b
    <3>2. ctl'.c = ctl.c /\ ctl'.obj = WithStatus(ctl.obj, b)
      BY <1>b, <3>1 DEF Busy
    <3>3. /\ WithStatus(ctl.obj, b).del = ctl.obj.del
          /\ WithStatus(ctl.obj, b).onrm = ctl.obj.onrm
      BY <1>b DEF WithStatus, ConfigObject
    <3> QED BY <3>2, <3>3
  <2>h. ASSUME ctl' = [ctl EXCEPT !.pc = "rmStatus", !.obj.phase = "Removing"]
        PROVE  ctl'.c = ctl.c /\ ctl'.obj.del = ctl.obj.del /\ ctl'.obj.onrm = ctl.obj.onrm
    <3>1. ctl'.c = ctl.c /\ ctl'.obj = [ctl.obj EXCEPT !.phase = "Removing"]
      BY <1>b, <2>h DEF Busy
    <3> QED BY <1>b, <3>1 DEF ConfigObject
  <2>2. /\ ctl'.c = ctl.c
        /\ ctl'.obj.del = ctl.obj.del /\ ctl'.obj.onrm = ctl.obj.onrm
    BY <1>b, <2>f, <2>g, <2>h DEF Goto, Busy
  <2> QED BY <1>12, <2>1, <2>2
<1>13. CASE Decommission
  <2>1. ctl.pc = "decommission"
    BY <1>13 DEF Decommission, At
  <2>2. \/ ctl' = [ctl EXCEPT !.pc = "rmStatus", !.obj.phase = "Removing"]
        \/ \E p, mine :
             ctl' = [ctl EXCEPT !.pc = p, !.mine = mine, !.mfresh = InSync(mach)]
    BY <1>13 DEF Decommission
  <2>3. /\ ctl'.c = ctl.c
        /\ ctl'.obj.del = ctl.obj.del /\ ctl'.obj.onrm = ctl.obj.onrm
    <3>1. CASE ctl' = [ctl EXCEPT !.pc = "rmStatus", !.obj.phase = "Removing"]
      <4>1. ctl'.c = ctl.c /\ ctl'.obj = [ctl.obj EXCEPT !.phase = "Removing"]
        BY <1>b, <3>1 DEF Busy
      <4> QED BY <1>b, <4>1 DEF ConfigObject
    <3>2. CASE \E p, mine :
                 ctl' = [ctl EXCEPT !.pc = p, !.mine = mine, !.mfresh = InSync(mach)]
      BY <1>b, <3>2 DEF Busy
    <3> QED BY <2>2, <3>1, <3>2
  <2> QED BY <1>13, <2>1, <2>3 DEF RemovalPCs
<1>14. CASE AnswerLost
  <2>1. CASE DecommissionAnswerLost
    <3>1. ctl.pc = "createDec" /\ ctl' = [AfterError EXCEPT !.lost = TRUE]
      BY <2>1 DEF DecommissionAnswerLost, DecommissionCreated, At
    <3>2. AfterError = [ctl EXCEPT !.pc = "finalize"]
      BY <3>1 DEF AfterError, At
    <3> QED BY <1>b, <1>14, <2>1, <3>1, <3>2 DEF Busy, RemovalPCs
  <2>2. CASE InstallAnswerLost \/ MarkAnswerLost \/ DayTwoAnswerLost
    <3>1. ctl.pc \in {"install", "delRetry", "mark", "daytwo"}
      BY <2>2 DEF InstallAnswerLost, InstallCreated, InstallChild, MarkAnswerLost,
           DayTwoAnswerLost, DayTwoCreated, DayTwoResumed, At
    <3>2. AfterError = [ctl EXCEPT !.pc = "status"]
      BY <3>1 DEF AfterError
    <3>3. ctl' = AfterError \/ \E f : ctl' = [AfterError EXCEPT !.fresh = f]
      BY <2>2 DEF InstallAnswerLost, MarkAnswerLost, DayTwoAnswerLost
    <3>4. ctl'.pc = "status"
      BY <1>b, <3>2, <3>3 DEF Busy
    <3> QED BY <3>4 DEF RemovalPCs
  <2> QED BY <1>14, <2>1, <2>2 DEF AnswerLost
<1> QED BY <1>4, <1>5, <1>6, <1>7, <1>8, <1>9, <1>10, <1>11, <1>12, <1>13, <1>14
        DEF Step, Pass

\* What everybody else leaves of a pass: nothing, all of it but the currency of its
\* copies, or its way after a failed call.
OthersLeave ==
  \/ ctl' = ctl
  \/ ctl' = Idle
  \/ ctl.pc # "idle" /\ ctl' = [ctl EXCEPT !.fresh = FALSE]
  \/ ctl.pc # "idle" /\ ctl' = [ctl EXCEPT !.mfresh = FALSE]
  \/ ctl.pc # "idle" /\ ctl' = AfterError

\* No pass, no copies.
LEMMA IdleHasNoCopies ==
  [Idle EXCEPT !.mfresh = FALSE] = Idle /\ [Idle EXCEPT !.fresh = FALSE] = Idle
<1> DEFINE R == [pc : {"idle"}, c : {None}, obj : {None}, host : {0}, fresh : {FALSE},
                 mfresh : {FALSE}, mine : {FALSE}, lost : {FALSE}]
           m == [Idle EXCEPT !.mfresh = FALSE]
           f == [Idle EXCEPT !.fresh = FALSE]
<1>1. Idle \in R
  BY DEF Idle
<1>2. m \in R /\ f \in R
  <2> HIDE DEF Idle
  <2> QED BY <1>1
<1> QED BY <1>1, <1>2

\* The steps of a pass are Pass and Reconcile; all others are somebody else's.
LEMMA OthersMovePass ==
  ASSUME TypeOK, Next, ~Pass, ~\E c \in Configs : Reconcile(c)
  PROVE  OthersLeave
<1>i. ctl = Idle \/ (ctl \in Busy /\ ctl.pc # "idle")
  BY DEF TypeOK, Busy
<1>1. CASE ApiError
  BY <1>1 DEF ApiError, OthersLeave, At
<1>2. CASE Crash
  BY <1>2 DEF Crash, OthersLeave
<1>3. ASSUME \/ ctl' = [ctl EXCEPT !.fresh = FALSE]
             \/ ctl' = [ctl EXCEPT !.mfresh = FALSE]
      PROVE  OthersLeave
  BY <1>i, <1>3, IdleHasNoCopies DEF OthersLeave
<1>4. CASE MachineChanges
  BY <1>3, <1>4 DEF MachineChanges
<1>5. CASE DeliverMachine
  BY <1>5 DEF DeliverMachine, OthersLeave
<1>6. ASSUME NEW c \in Configs, User(c) PROVE OthersLeave
  <2>1. \E v : UserWrites(c, v)
    BY <1>6 DEF User, CreateConfig, EditConfig, DeleteConfig
  <2>2. ctl' = ctl \/ ctl' = [ctl EXCEPT !.fresh = FALSE]
    BY <2>1 DEF UserWrites
  <2> QED BY <1>3, <2>2 DEF OthersLeave
<1>7. ASSUME NEW c \in Configs, Workloads(c) \/ Watch(c) PROVE OthersLeave
  BY <1>7 DEF Workloads, Watch, InstallEnds, InstallSucceedsLate, InstallReruns,
        DecommissionEnds, DecommissionSucceedsLate,
       DecommissionReruns, DayTwoOutcome, ReleaseChild, GarbageCollect, DeliverConfig,
       DeliverInstall, DeliverDecommission, DeliverDayTwo, OthersLeave
<1> QED BY <1>1, <1>2, <1>4, <1>5, <1>6, <1>7 DEF Next, Pass

\* A pass that nobody but others moves stays where it is, or ends, or takes the way of
\* an error; it keeps its configuration and its working copy.
LEMMA OthersKeepPass ==
  ASSUME TypeOK, OthersLeave, ctl'.pc # "idle"
  PROVE  /\ ctl \in Busy /\ ctl'.c = ctl.c /\ ctl'.obj = ctl.obj
         /\ ctl'.mine = ctl.mine /\ ctl'.lost = ctl.lost /\ ctl'.host = ctl.host
         /\ ctl'.fresh => ctl.fresh
         /\ ctl'.mfresh => ctl.mfresh
         /\ \/ ctl'.pc = ctl.pc
            \/ ctl'.pc = "status" /\ ctl.pc \notin RemovalPCs
            \/ ctl'.pc = "decommission" /\ ctl.pc = "removing"
            \/ ctl'.pc = "finalize" /\ ctl.pc = "createDec"
<1>1. CASE ctl = Idle
  BY <1>1 DEF OthersLeave, Idle
<1>2. CASE ctl \in Busy
  <2>1. ctl' # Idle
    BY DEF Idle
  <2>2. CASE ctl' = AfterError
    BY <1>2, <2>1, <2>2 DEF AfterError, Busy, At, RemovalPCs
  <2>3. CASE ctl' = [ctl EXCEPT !.fresh = FALSE] \/ ctl' = [ctl EXCEPT !.mfresh = FALSE]
    BY <1>2, <2>3 DEF Busy
  <2> QED BY <1>2, <2>1, <2>2, <2>3 DEF OthersLeave
<1> QED BY <1>1, <1>2 DEF TypeOK

-----------------------------------------------------------------------------
\* The configuration is deleted, or was and is gone.
Gone(c) == Cur(cfg[c]) = None \/ Cur(cfg[c]).del

GoneNext(c) == Cur(cfg'[c]) = None \/ Cur(cfg'[c]).del

Undeleted == {v \in ConfigObject \cup {None} : v = None \/ ~v.del}

\* A cache shows no deletion that was not stored, and nothing before the creation.
DeletionsAreStored ==
  \A c \in Configs : /\ ~Gone(c) => cfg[c] \in Logs(Undeleted)
                     /\ born[c] = 0 => cfg[c] \in Logs({None})

\* A pass that removes works on a deleted configuration.
RemovalKnows ==
  ctl.pc \in RemovalPCs => born[me] # 0 /\ Gone(me) /\ ctl.obj.del

\* How the log of a configuration may change.
LogMoves(c) ==
  \/ cfg'[c] = cfg[c]
  \/ ~InSync(cfg[c]) /\ cfg'[c] = Delivered(cfg[c])
  \/ cfg'[c] = Relisted(cfg[c])
  \/ \E v \in ConfigObject \cup {None} : cfg'[c] = Put(Lag.config, cfg[c], v)

\* Every step changes the log of a configuration in one of these ways.
LEMMA ConfigLogs ==
  ASSUME TypeOK, CopyIsCurrent, ExistsWasBorn, Next
  PROVE  \A c \in Configs : LogMoves(c)
<1> DEFINE S == ConfigObject \cup {None}
<1>u. ASSUME UNCHANGED cfg PROVE \A c \in Configs : LogMoves(c)
  BY <1>u DEF LogMoves
<1>1. ASSUME NEW c \in Configs, NEW v \in S,
             cfg' = [cfg EXCEPT ![c] = Put(Lag.config, cfg[c], v)]
      PROVE  \A d \in Configs : LogMoves(d)
  BY <1>1 DEF LogMoves, TypeOK
<1>2. CASE Pass
  <2>1. CASE Quiet
    BY <1>u, <2>1 DEF Quiet
  <2>2. CASE ConfigWrite
    <3>1. me \in Configs /\ \E v : v \in S /\ WriteConfig(v)
      BY <2>2, WritesStartFromStored
    <3> QED BY <1>1, <3>1 DEF WriteConfig
  <2> QED BY <1>2, <2>1, <2>2, QuietSteps
<1>3. ASSUME NEW c \in Configs, User(c) PROVE \A d \in Configs : LogMoves(d)
  <2>1. \E v : v \in S /\ UserWrites(c, v)
    BY <1>3, UserWriteValue
  <2> QED BY <1>1, <2>1 DEF UserWrites
<1>4. CASE Crash
  BY <1>4 DEF Crash, LogMoves
<1>5. CASE ApiError \/ MachineChanges \/ DeliverMachine
  BY <1>5, <1>u DEF ApiError, MachineChanges, DeliverMachine
<1>6. ASSUME NEW c \in Configs, Reconcile(c) \/ Workloads(c) \/ Watch(c)
      PROVE  \A d \in Configs : LogMoves(d)
  <2>1. CASE DeliverConfig(c)
    BY <2>1 DEF DeliverConfig, LogMoves, TypeOK
  <2>2. CASE ~DeliverConfig(c)
    <3>1. UNCHANGED cfg
      BY <1>6, <2>2 DEF Reconcile, Workloads, Watch, InstallEnds, InstallSucceedsLate,
            InstallReruns,
         DecommissionEnds, DecommissionSucceedsLate, DecommissionReruns, DayTwoOutcome,
               ReleaseChild, GarbageCollect,
         DeliverInstall, DeliverDecommission, DeliverDayTwo
    <3> QED BY <1>u, <3>1
  <2> QED BY <2>1, <2>2
<1> QED BY <1>2, <1>3, <1>4, <1>5, <1>6 DEF Next, Pass

\* A log whose versions are all in T keeps them there when the stored one stays in T.
LEMMA LogStaysIn ==
  ASSUME TypeOK, NEW c \in Configs, LogMoves(c), NEW T, cfg[c] \in Logs(T), Cur(cfg'[c]) \in T
  PROVE  cfg'[c] \in Logs(T)
<1>1. CASE cfg'[c] = cfg[c]
  BY <1>1
<1>2. CASE ~InSync(cfg[c]) /\ cfg'[c] = Delivered(cfg[c])
  BY <1>2, LogDelivered
<1>3. CASE cfg'[c] = Relisted(cfg[c])
  BY <1>3, LogRelisted
<1>4. ASSUME NEW v \in ConfigObject \cup {None}, cfg'[c] = Put(Lag.config, cfg[c], v)
      PROVE  cfg'[c] \in Logs(T)
  <2> DEFINE S == ConfigObject \cup {None}
  <2>1. cfg[c] \in Logs(S) /\ v \in S /\ Lag.config \in Nat
    BY LagsAreNat DEF TypeOK
  <2> HIDE DEF S
  <2>2. Cur(Put(Lag.config, cfg[c], v)) = v
    BY <2>1, LogPut
  <2> QED BY <1>4, <2>1, <2>2, LogPut
<1> QED BY <1>1, <1>2, <1>3, <1>4 DEF LogMoves

\* Once a configuration is deleted, no later version of it is undeleted, whoever
\* writes it.
LEMMA DeletionsStayStored ==
  ASSUME TypeOK, TypeOK', CopyIsCurrent, ExistsWasBorn, DeletionsAreStored, Next
  PROVE  /\ DeletionsAreStored'
         /\ \A c \in Configs : born[c] # 0 /\ Gone(c) => born'[c] # 0 /\ GoneNext(c)
<1> SUFFICES ASSUME NEW c \in Configs
             PROVE  /\ ~GoneNext(c) => cfg'[c] \in Logs(Undeleted)
                    /\ born'[c] = 0 => cfg'[c] \in Logs({None})
                    /\ born[c] # 0 /\ Gone(c) => born'[c] # 0 /\ GoneNext(c)
  BY DEF DeletionsAreStored, Gone, GoneNext
<1>1. LogMoves(c) /\ ExistsWasBorn' /\ Kept(c) /\ StaysGone(c)
  BY ConfigLogs, DurableStep
<1>2. Cur(cfg'[c]) \in ConfigObject \cup {None}
  <2> DEFINE S == ConfigObject \cup {None}
  <2>1. cfg'[c] \in Logs(S)
    BY DEF TypeOK
  <2> HIDE DEF S
  <2>2. Cur(cfg'[c]) \in S
    BY <2>1, LogVersions
  <2> QED BY <2>2 DEF S
<1>3. ASSUME born'[c] = 0 PROVE cfg'[c] \in Logs({None})
  <2>1. born[c] = 0 /\ Cur(cfg'[c]) = None
    BY <1>1, <1>3 DEF StaysGone, ExistsWasBorn
  <2> QED BY <1>1, <2>1, LogStaysIn DEF DeletionsAreStored
<1>4. ASSUME ~GoneNext(c) PROVE cfg'[c] \in Logs(Undeleted)
  <2>1. Cur(cfg'[c]) \in Undeleted
    BY <1>2, <1>4 DEF Gone, GoneNext, Undeleted
  <2>2. CASE born[c] = 0
    <3>1. {None} \subseteq Undeleted
      BY DEF Undeleted
    <3>2. cfg[c] \in Logs(Undeleted)
      BY <2>2, <3>1, LogWidened DEF DeletionsAreStored
    <3> QED BY <1>1, <2>1, <3>2, LogStaysIn
  <2>3. CASE born[c] # 0
    <3>1. ~Gone(c)
      BY <1>1, <1>4, <2>3 DEF Gone, GoneNext, Kept, StaysGone
    <3> QED BY <1>1, <2>1, <3>1, LogStaysIn DEF DeletionsAreStored
  <2> QED BY <2>2, <2>3
<1>5. ASSUME born[c] # 0, Gone(c) PROVE born'[c] # 0 /\ GoneNext(c)
  BY <1>1, <1>5 DEF Gone, GoneNext, Kept, StaysGone
<1> QED BY <1>3, <1>4, <1>5

\* A pass that is removing works for a configuration that is deleted, and its working
\* copy says so: every step keeps that.
LEMMA RemovalKnowsKept ==
  ASSUME TypeOK, TypeOK', CopyIsCurrent, ExistsWasBorn, DeletionsAreStored, RemovalKnows, Next
  PROVE  RemovalKnows'
<1> SUFFICES ASSUME ctl'.pc \in RemovalPCs
             PROVE  born'[ctl'.c] # 0 /\ GoneNext(ctl'.c) /\ ctl'.obj.del
  BY DEF RemovalKnows, me, Gone, GoneNext
<1>1. ASSUME ctl.pc \in RemovalPCs, ctl'.c = ctl.c PROVE born'[ctl'.c] # 0 /\ GoneNext(ctl'.c)
  <2>1. me \in Configs
    BY <1>1, BusyHere DEF RemovalPCs, At
  <2> QED BY <1>1, <2>1, DeletionsStayStored DEF RemovalKnows, me, Gone, GoneNext
<1>2. CASE Pass
  <2>1. ctl.pc \in RemovalPCs /\ ctl'.c = ctl.c /\ ctl'.obj.del = ctl.obj.del
    BY <1>2, RemovalSteps
  <2> QED BY <1>1, <2>1 DEF RemovalKnows
<1>3. ASSUME NEW c \in Configs, Reconcile(c)
      PROVE  born'[ctl'.c] # 0 /\ GoneNext(ctl'.c) /\ ctl'.obj.del
  <2>1. /\ ctl'.c = c /\ ctl'.obj = Seen(cfg[c]) /\ Seen(cfg[c]) # None
        /\ ctl'.pc = (IF Seen(cfg[c]).del THEN "removing"
                      ELSE IF Seen(cfg[c]).fin THEN "gates" ELSE "addFinalizer")
        /\ UNCHANGED <<cfg, born>>
    BY <1>3 DEF Reconcile, history
  <2>2. Seen(cfg[c]).del
    BY <2>1 DEF RemovalPCs
  <2>3. born[c] # 0
    BY <2>1, LogVersions DEF DeletionsAreStored
  <2>4. Gone(c)
    <3> SUFFICES ASSUME ~Gone(c) PROVE FALSE
      OBVIOUS
    <3>1. Seen(cfg[c]) \in Undeleted
      BY LogVersions DEF DeletionsAreStored
    <3> QED BY <2>1, <2>2, <3>1 DEF Undeleted
  <2> QED BY <2>1, <2>2, <2>3, <2>4 DEF Gone, GoneNext
<1>4. CASE ~Pass /\ ~\E c \in Configs : Reconcile(c)
  <2>1. OthersLeave /\ ctl'.pc # "idle"
    BY <1>4, OthersMovePass DEF RemovalPCs
  <2>2. ctl.pc \in RemovalPCs /\ ctl'.c = ctl.c /\ ctl'.obj = ctl.obj
    BY <2>1, OthersKeepPass DEF RemovalPCs
  <2> QED BY <1>1, <2>2 DEF RemovalKnows
<1> QED BY <1>2, <1>3, <1>4

-----------------------------------------------------------------------------
(* The stamp on the Machine. *)

\* What a step may do to the stored Machine.
MachineMoves ==
  \/ Cur(mach') = Cur(mach)
  \/ /\ WriteBackMachineStatus /\ Cur(mach) # None /\ Cur(mach') # None
     /\ Cur(mach').ac = me /\ Cur(mach').host = Cur(mach).host
  \/ /\ ClearMachineStatus /\ ctl.mfresh /\ Cur(mach) # None /\ Cur(mach') # None
     /\ Cur(mach').ac = None /\ Cur(mach').host = Cur(mach).host
  \/ /\ MachineChanges /\ Cur(mach) # None
     /\ \/ Cur(mach') = None
        \/ /\ Cur(mach').ac = Cur(mach).ac
           /\ Cur(mach').host = Cur(mach).host \/ Cur(mach').host = Cur(mach).host + 1

\* The stored Machine is one.
LEMMA MachineVersion ==
  ASSUME TypeOK
  PROVE  Cur(mach) \in MachineObject \cup {None}
<1> DEFINE S == MachineObject \cup {None}
<1>1. mach \in Logs(S)
  BY DEF TypeOK
<1> HIDE DEF S
<1>2. Cur(mach) \in S
  BY <1>1, LogVersions
<1> QED BY <1>2 DEF S

\* A write of the Machine's log.
LEMMA MachinePut ==
  ASSUME TypeOK, NEW v \in MachineObject \cup {None}
  PROVE  Cur(Put(Lag.machine, mach, v)) = v
<1> DEFINE S == MachineObject \cup {None}
<1>1. mach \in Logs(S) /\ v \in S /\ Lag.machine \in Nat
  BY LagsAreNat DEF TypeOK
<1> HIDE DEF S
<1> QED BY <1>1, LogPut

\* Who writes the Machine, and who moves its informer.
LEMMA MachineWriters ==
  ASSUME Next
  PROVE  \/ UNCHANGED mach \/ WriteBackMachineStatus \/ ClearMachineStatus
         \/ MachineChanges \/ Crash \/ DeliverMachine
<1>1. CASE Step
  BY <1>1, Zenon DEF Step, AddFinalizer, DropOnConflict, StatusUpdate, WithStatus, Blocked,
       SuspendDayTwo, PassGates, CreateInstall, InstallCreated, InstallConflict,
             InstallSucceeded, InstallChild,
       InstallWait, InstallExhausted, InstallRetry, DeleteFailedInstall,
       MarkFullDiskInstallCompleted, RewriteFails, DeleteDoneInstall, CreateDayTwo,
             DayTwoCreated,
       DayTwoConflict, ObserveDayTwo, DayTwoResumed, DeleteDayTwo, Decommission,
             CreateDecommission, DecommissionCreated,
       BumpOnRemoveRetries, DeleteFailedDecommission, DeleteDecommissionJob, Finalize
<1>2. CASE ApiError \/ AnswerLost
  BY <1>2 DEF ApiError, AnswerLost, InstallAnswerLost, MarkAnswerLost, DayTwoAnswerLost,
       DecommissionAnswerLost
<1>3. ASSUME NEW c \in Configs, Reconcile(c) \/ User(c) \/ Workloads(c) \/ Watch(c)
      PROVE  UNCHANGED mach
  BY <1>3, Zenon DEF Reconcile, User, CreateConfig, EditConfig, DeleteConfig, Workloads, Watch,
       InstallEnds, InstallSucceedsLate, InstallReruns, DecommissionEnds,
             DecommissionSucceedsLate, DecommissionReruns, DayTwoOutcome,
       ReleaseChild, GarbageCollect, DeliverConfig, DeliverInstall, DeliverDecommission,
       DeliverDayTwo
<1> QED BY <1>1, <1>2, <1>3 DEF Next

\* The writes of the Machine, one by one.
LEMMA MachineSteps ==
  ASSUME TypeOK, MachineCopy, Next
  PROVE  MachineMoves
<1>m. Cur(mach) \in MachineObject \cup {None}
  BY MachineVersion
<1>1. CASE WriteBackMachineStatus
  <2>1. CASE ctl.mfresh
    <3> DEFINE v == [Cur(mach) EXCEPT !.ac = me]
    <3>1. Cur(mach) \in MachineObject /\ me \in Configs
      BY <1>m, <1>1, <2>1, BusyHere DEF MachineCopy, AfterGates, WriteBackMachineStatus, At
    <3>2. v \in MachineObject /\ v.ac = me /\ v.host = Cur(mach).host
      BY <3>1 DEF MachineObject
    <3>3. mach' = Put(Lag.machine, mach, v)
      BY <1>1, <2>1 DEF WriteBackMachineStatus
    <3> HIDE DEF v
    <3>4. Cur(mach') = v
      BY <3>2, <3>3, MachinePut
    <3> QED BY <1>1, <3>1, <3>2, <3>4, NoneIsNoObject DEF MachineMoves
  <2>2. CASE ~ctl.mfresh
    BY <1>1, <2>2 DEF WriteBackMachineStatus, MachineMoves
  <2> QED BY <2>1, <2>2
<1>2. CASE ClearMachineStatus
  <2>1. CASE Cur(mach) # None /\ ctl.mfresh
    <3> DEFINE v == [Cur(mach) EXCEPT !.ac = None]
    <3>1. Cur(mach) \in MachineObject
      BY <1>m, <2>1
    <3>2. v \in MachineObject /\ v.ac = None /\ v.host = Cur(mach).host
      BY <3>1 DEF MachineObject
    <3>3. mach' = Put(Lag.machine, mach, v)
      BY <1>2, <2>1 DEF ClearMachineStatus
    <3> HIDE DEF v
    <3>4. Cur(mach') = v
      BY <3>2, <3>3, MachinePut
    <3> QED BY <1>2, <2>1, <3>2, <3>4, NoneIsNoObject DEF MachineMoves
  <2>2. CASE Cur(mach) = None \/ ~ctl.mfresh
    BY <1>2, <2>2 DEF ClearMachineStatus, MachineMoves
  <2> QED BY <2>1, <2>2
<1>3. CASE MachineChanges
  <2>1. Cur(mach) # None /\ Cur(mach) \in MachineObject
    BY <1>m, <1>3 DEF MachineChanges
  <2>2. PICK v \in {[Cur(mach) EXCEPT !.disc = ~@], [Cur(mach) EXCEPT !.key = ~@],
                   [Cur(mach) EXCEPT !.host = @ + 1], None} :
          mach' = Put(Lag.machine, mach, v)
    BY <1>3 DEF MachineChanges
  <2>3. /\ v \in MachineObject \cup {None}
        /\ v # None => /\ v.ac = Cur(mach).ac
                       /\ v.host = Cur(mach).host \/ v.host = Cur(mach).host + 1
    <3>1. Cur(mach).host + 1 \in Nat
      BY <2>1 DEF MachineObject
    <3>2. CASE v = [Cur(mach) EXCEPT !.host = @ + 1]
      BY <2>1, <3>1, <3>2 DEF MachineObject
    <3>3. CASE v \in {[Cur(mach) EXCEPT !.disc = ~@], [Cur(mach) EXCEPT !.key = ~@], None}
      BY <2>1, <3>3 DEF MachineObject
    <3> QED BY <2>2, <3>2, <3>3
  <2>4. Cur(mach') = v
    BY <2>2, <2>3, MachinePut
  <2>5. \/ Cur(mach') = None
        \/ /\ Cur(mach').ac = Cur(mach).ac
           /\ Cur(mach').host = Cur(mach).host \/ Cur(mach').host = Cur(mach).host + 1
    BY <2>3, <2>4
  <2> QED BY <1>3, <2>1, <2>5 DEF MachineMoves
<1>4. CASE Crash
  <2>1. mach \in Logs(MachineObject \cup {None}) /\ mach' = Relisted(mach)
    BY <1>4 DEF Crash, TypeOK
  <2>2. Cur(Relisted(mach)) = Cur(mach)
    BY <2>1, LogRelisted
  <2> QED BY <2>1, <2>2 DEF MachineMoves
<1>5. CASE DeliverMachine
  <2>1. mach \in Logs(MachineObject \cup {None}) /\ mach' = Delivered(mach) /\ ~InSync(mach)
    BY <1>5 DEF DeliverMachine, TypeOK
  <2>2. Cur(Delivered(mach)) = Cur(mach)
    BY <2>1, LogDelivered
  <2> QED BY <2>1, <2>2 DEF MachineMoves
<1>6. CASE UNCHANGED mach
  BY <1>6 DEF MachineMoves
<1> QED BY <1>1, <1>2, <1>3, <1>4, <1>5, <1>6, MachineWriters

\* A pass that is about to clear the stamp has seen its own name there; where its copy
\* of the Machine is still current the name is there.
StampKnown ==
  /\ ctl.pc \in {"clear", "clearOnly", "bump", "delFailed"} /\ ctl.mine /\ ctl.mfresh
       => Cur(mach) # None /\ Cur(mach).ac = me
  /\ ctl.pc \in {"clear", "clearOnly"} => ctl.mine

\* What a removing pass knows of the stamp survives every step.
LEMMA StampKnownKept ==
  ASSUME TypeOK, MachineCopy, StampKnown, Next
  PROVE  StampKnown'
<1> DEFINE Clearing == {"clear", "clearOnly", "bump", "delFailed"}
<1> SUFFICES ASSUME ctl'.pc \in Clearing
             PROVE  /\ ctl'.mine /\ ctl'.mfresh => Cur(mach') # None /\ Cur(mach').ac = ctl'.c
                    /\ ctl'.pc \in {"clear", "clearOnly"} => ctl'.mine
  BY DEF StampKnown, me
<1>r. ctl'.pc \in RemovalPCs /\ ctl'.pc # "idle"
  BY DEF RemovalPCs
<1>1. CASE Pass
  <2>b. ctl \in Busy /\ ctl.pc \in RemovalPCs /\ ctl'.c = ctl.c
    BY <1>1, <1>r, RemovalSteps, StepIsBusy, BusyHere
  <2>1. CASE Decommission
    <3>1. PICK p : ctl' = [ctl EXCEPT !.pc = p,
                                      !.mine = (Seen(mach) # None /\ Seen(mach).ac = me),
                                      !.mfresh = InSync(mach)]
      <4>1. \/ ctl' = [ctl EXCEPT !.pc = "rmStatus", !.obj.phase = "Removing"]
            \/ \E p : ctl' = [ctl EXCEPT !.pc = p,
                                      !.mine = (Seen(mach) # None /\ Seen(mach).ac = me),
                                      !.mfresh = InSync(mach)]
        BY <2>1 DEF Decommission
      <4>2. ctl' # [ctl EXCEPT !.pc = "rmStatus", !.obj.phase = "Removing"]
        BY <2>b DEF Busy
      <4> QED BY <4>1, <4>2
    <3>2. /\ ctl'.mine = (Seen(mach) # None /\ Seen(mach).ac = me)
          /\ ctl'.mfresh = InSync(mach)
      BY <2>b, <3>1 DEF Busy
    <3>3. InSync(mach) => Seen(mach) = Cur(mach)
      BY LogVersions DEF TypeOK
    <3>4. ctl'.pc \in {"clear", "clearOnly"} => ctl'.mine
      BY <2>b, <2>1 DEF Decommission, AfterStamp, Busy
    <3>5. mach' = mach
      BY <2>1 DEF Decommission
    <3> QED BY <2>b, <3>2, <3>3, <3>4, <3>5 DEF me
  <2>2. CASE BumpOnRemoveRetries
    <3>1. /\ ctl'.pc = "delFailed" /\ ctl'.mine = ctl.mine /\ ctl'.mfresh = ctl.mfresh
          /\ ctl.pc = "bump" /\ mach' = mach
      BY <2>b, <2>2 DEF BumpOnRemoveRetries, Rewrite, Rewritten, Completed, Bumped,
            WithStatus, Busy, At
    <3> QED BY <2>b, <3>1 DEF StampKnown, me
  <2>3. CASE DeleteFailedDecommission
    <3>1. /\ ctl'.pc \in {"clear", "dropJob", "rmStatus"} /\ ctl'.mine = ctl.mine
          /\ ctl'.mfresh = ctl.mfresh
          /\ ctl.pc = "delFailed" /\ mach' = mach
          /\ ctl'.pc = "clear" => ctl.mine
      BY <2>b, <2>3 DEF DeleteFailedDecommission, Goto, AfterStamp, Busy, At
    <3> QED BY <2>b, <3>1 DEF StampKnown, me
  <2>4. CASE DeleteDayTwo \/ CreateDecommission \/ ClearMachineStatus \/ DeleteDecommissionJob
    <3>1. \/ ctl' = Idle \/ ctl' = [ctl EXCEPT !.pc = "rmStatus", !.obj.phase = "Removing"]
          \/ \E p \in {"decommission", "finalize", "dropJob"} : Goto(p)
      BY <2>4 DEF DeleteDayTwo, CreateDecommission, DecommissionCreated,
            ClearMachineStatus, DeleteDecommissionJob
    <3>2. ctl' # Idle
      BY <1>r DEF Idle
    <3>3. CASE ctl' = [ctl EXCEPT !.pc = "rmStatus", !.obj.phase = "Removing"]
      BY <2>b, <3>3 DEF Busy
    <3>4. CASE \E p \in {"decommission", "finalize", "dropJob"} : Goto(p)
      BY <2>b, <3>4 DEF Goto, Busy
    <3> QED BY <3>1, <3>2, <3>3, <3>4
  <2>5. CASE DecommissionAnswerLost
    <3>1. ctl.pc = "createDec" /\ ctl' = [AfterError EXCEPT !.lost = TRUE]
      BY <2>5 DEF DecommissionAnswerLost, DecommissionCreated, At
    <3>2. AfterError = [ctl EXCEPT !.pc = "finalize"]
      BY <3>1 DEF AfterError, At
    <3> QED BY <2>b, <3>1, <3>2 DEF Busy
  <2> QED BY <1>1, <1>r, <2>1, <2>2, <2>3, <2>4, <2>5, RemovalSteps
<1>2. ASSUME NEW c \in Configs, Reconcile(c) PROVE FALSE
  BY <1>2 DEF Reconcile
<1>3. CASE ~Pass /\ ~\E c \in Configs : Reconcile(c)
  <2>1. OthersLeave
    BY <1>3, OthersMovePass
  <2>2. /\ ctl \in Busy /\ ctl'.c = ctl.c /\ ctl'.mine = ctl.mine
        /\ ctl'.pc = ctl.pc /\ (ctl'.mfresh => ctl.mfresh)
    BY <1>r, <2>1, OthersKeepPass
  <2>3. Cur(mach') = Cur(mach) \/ ~ctl'.mfresh
    <3>1. Cur(mach') = Cur(mach) \/ MachineChanges
      BY <1>3, MachineSteps DEF MachineMoves, Step, Pass
    <3>2. CASE MachineChanges
      BY <2>2, <3>2 DEF MachineChanges, Busy
    <3> QED BY <3>1, <3>2
  <2> QED BY <2>2, <2>3 DEF StampKnown, me
<1> QED BY <1>1, <1>2, <1>3

\* What is known of deletions and of the stamp, in every reachable state.
LEMMA RemovalInvariant == Spec => [](DeletionsAreStored /\ RemovalKnows /\ StampKnown)
<1>1. Init => DeletionsAreStored /\ RemovalKnows /\ StampKnown
  <2> SUFFICES ASSUME Init PROVE DeletionsAreStored /\ RemovalKnows /\ StampKnown
    OBVIOUS
  <2>1. ctl.pc = "idle"
    BY DEF Init, Idle
  <2>2. RemovalKnows /\ StampKnown
    BY <2>1 DEF RemovalKnows, RemovalPCs, StampKnown
  <2>3. ASSUME NEW c \in Configs PROVE Gone(c) /\ cfg[c] \in Logs({None})
    <3>1. cfg[c] = <<None>>
      BY DEF Init
    <3> QED BY <3>1, LogOfOne DEF Gone
  <2> QED BY <2>2, <2>3 DEF DeletionsAreStored
<1>2. ASSUME TypeOK, TypeOK', MachineCopy, CopyIsCurrent, ExistsWasBorn, DeletionsAreStored,
             RemovalKnows, StampKnown, [Next]_vars
      PROVE  DeletionsAreStored' /\ RemovalKnows' /\ StampKnown'
  <2>1. CASE Next
    BY <1>2, <2>1, DeletionsStayStored, RemovalKnowsKept, StampKnownKept
  <2>2. CASE UNCHANGED vars
    BY <1>2, <2>2 DEF vars, DeletionsAreStored, RemovalKnows, StampKnown, Gone, me
  <2> QED BY <1>2, <2>1, <2>2
<1> QED BY <1>1, <1>2, StoredInvariant, PTL DEF Spec

\* Only the removal of the configuration that a machine names clears the name, for every
\* lag of the informers and any number of configurations.
THEOREM ForeignStampKept == Spec => ForeignStampIsKept
<1>1. ASSUME TypeOK, MachineCopy, RemovalKnows, StampKnown, [Next]_vars
      PROVE  [\A c \in Configs :
                Cur(mach) # None /\ Cur(mach)' # None /\ Cur(mach).ac = c /\ Cur(mach)'.ac = None
                  => ctl.c = c /\ ctl.obj.del]_vars
  <2> SUFFICES ASSUME Next, NEW c \in Configs, Cur(mach) # None, Cur(mach') # None,
                      Cur(mach).ac = c, Cur(mach').ac = None
               PROVE  ctl.c = c /\ ctl.obj.del
    BY <1>1
  <2>1. c # None
    BY ConfigsAreNames
  <2>2. CASE WriteBackMachineStatus /\ (Cur(mach') # None => Cur(mach').ac = me)
    <3>1. me \in Configs
      BY <1>1, <2>2, BusyHere DEF WriteBackMachineStatus, At
    <3> QED BY <2>2, <3>1, ConfigsAreNames
  <2>3. CASE ClearMachineStatus /\ ctl.mfresh
    <3>1. ctl.pc \in {"clear", "clearOnly"} /\ ctl.pc \in RemovalPCs
      BY <2>3 DEF ClearMachineStatus, RemovalPCs
    <3> QED BY <1>1, <2>3, <3>1 DEF StampKnown, RemovalKnows, me
  <2> QED BY <1>1, <2>1, <2>2, <2>3, MachineSteps DEF MachineMoves
<1> QED BY <1>1, StoredInvariant, RemovalInvariant, PTL DEF Spec, ForeignStampIsKept

-----------------------------------------------------------------------------
(***************************************************************************)
(* What removal leaves behind, where the informers of the NixJobs and of   *)
(* the Machine are not behind.                                             *)
(***************************************************************************)

\* The premises.  Without the first a pass that misses its own job creates a second one,
\* is refused, and lets go of the configuration while the first runs; without the second
\* it takes the Machine for unstamped although the pass before stamped it.
JobReadsSettled == \A s \in Settings : s.lag.job = 0

MachineReadsSettled == \A s \in Settings : s.lag.machine = 0

\* What a step may do to the stored decommission job of c.
DecommissionMoves(c) ==
  \/ Cur(dec'[c]) = Cur(dec[c])
  \/ /\ CreateDecommission \/ (AnswerLost /\ DecommissionAnswerLost)
     /\ c = me /\ Cur(dec[c]) = None
     /\ Cur(dec'[c]) = NewDecommission
  \/ /\ DeleteFailedDecommission \/ DeleteDecommissionJob
     /\ c = me /\ Cur(dec[c]) # None
     /\ Cur(dec'[c]) = [Cur(dec[c]) EXCEPT !.del = TRUE]
  \/ ReleaseChild(c) /\ Cur(dec[c]) # None /\ Cur(dec[c]).del /\ Cur(dec'[c]) = None
  \/ /\ DecommissionEnds(c) \/ DecommissionSucceedsLate(c) \/ DecommissionReruns(c)
     /\ Cur(dec[c]) # None /\ Cur(dec'[c]) # None
     /\ ~Cur(dec[c]).del /\ ~Cur(dec'[c]).del

\* A write of the log of a decommission job.
LEMMA DecommissionPut ==
  ASSUME TypeOK, NEW c \in Configs, NEW v \in NixJobObject \cup {None},
         dec' = [dec EXCEPT ![c] = Put(Lag.job, dec[c], v)]
  PROVE  /\ Cur(dec'[c]) = v
         /\ \A d \in Configs : d # c => dec'[d] = dec[d]
         /\ Lag.job = 0 /\ InSync(dec[c]) => InSync(dec'[c])
<1> DEFINE S == NixJobObject \cup {None}
<1>1. dec[c] \in Logs(S) /\ v \in S /\ Lag.job \in Nat
  BY LagsAreNat DEF TypeOK
<1>2. dec'[c] = Put(Lag.job, dec[c], v) /\ \A d \in Configs : d # c => dec'[d] = dec[d]
  BY DEF TypeOK
<1> HIDE DEF S
<1>3. Cur(Put(Lag.job, dec[c], v)) = v
  BY <1>1, LogPut
<1>4. Lag.job = 0 /\ InSync(dec[c]) => InSync(Put(Lag.job, dec[c], v))
  BY <1>1, LogNoLag
<1> QED BY <1>2, <1>3, <1>4

\* Every step moves a decommission job in one of these ways, and a cache that is
\* never behind stays level with it.
LEMMA DecommissionSteps ==
  ASSUME TypeOK, Next, NEW c \in Configs
  PROVE  /\ DecommissionMoves(c)
         /\ Lag.job = 0 /\ InSync(dec[c]) => InSync(dec'[c])
<1> DEFINE Fine == /\ DecommissionMoves(c)
                   /\ Lag.job = 0 /\ InSync(dec[c]) => InSync(dec'[c])
<1>n. None \notin NixJobObject
  BY NoneIsNoObject
<1>u. ASSUME dec'[c] = dec[c] PROVE Fine
  BY <1>u DEF DecommissionMoves
<1>1. CASE CreateDecommission \/ (AnswerLost /\ DecommissionAnswerLost)
  <2>1. me \in Configs
    BY <1>1, BusyHere DEF CreateDecommission, DecommissionAnswerLost, DecommissionCreated, At
  <2>2. NewDecommission \in NixJobObject
    BY DEF NewDecommission, NixJobObject, Reports
  <2>3. CASE UNCHANGED dec
    BY <1>u, <2>3
  <2>4. CASE /\ Cur(dec[me]) = None
             /\ dec' = [dec EXCEPT ![me] = Put(Lag.job, dec[me], NewDecommission)]
    <3>1. /\ Cur(dec'[me]) = NewDecommission
          /\ \A d \in Configs : d # me => dec'[d] = dec[d]
          /\ Lag.job = 0 /\ InSync(dec[me]) => InSync(dec'[me])
      BY <2>1, <2>2, <2>4, DecommissionPut
    <3> QED BY <1>1, <1>u, <2>4, <3>1 DEF DecommissionMoves
  <2> QED BY <1>1, <2>3, <2>4
          DEF CreateDecommission, DecommissionAnswerLost, DecommissionCreated
<1>2. CASE DeleteFailedDecommission \/ DeleteDecommissionJob
  <2>1. me \in Configs /\ dec' = [dec EXCEPT ![me] = Deleted(Lag.job, dec[me])]
    BY <1>2, BusyHere DEF DeleteFailedDecommission, DeleteDecommissionJob, At
  <2>2. CASE Cur(dec[me]) = None
    <3>1. dec'[c] = dec[c]
      BY <2>1, <2>2 DEF Deleted, TypeOK
    <3> QED BY <1>u, <3>1
  <2>3. CASE Cur(dec[me]) # None
    <3> DEFINE v == [Cur(dec[me]) EXCEPT !.del = TRUE]
    <3>1. Cur(dec[me]) \in NixJobObject
      BY <2>1, <2>3, Versions
    <3>2. v \in NixJobObject
      BY <3>1 DEF NixJobObject
    <3>3. dec' = [dec EXCEPT ![me] = Put(Lag.job, dec[me], v)]
      BY <2>1, <2>3 DEF Deleted
    <3>v. v = [Cur(dec[me]) EXCEPT !.del = TRUE]
      OBVIOUS
    <3> HIDE DEF v
    <3>4. /\ Cur(dec'[me]) = v
          /\ \A d \in Configs : d # me => dec'[d] = dec[d]
          /\ Lag.job = 0 /\ InSync(dec[me]) => InSync(dec'[me])
      BY <2>1, <3>2, <3>3, DecommissionPut
    <3> QED BY <1>2, <1>u, <2>3, <3>4, <3>v DEF DecommissionMoves
  <2> QED BY <2>2, <2>3
<1>3. ASSUME NEW d \in Configs, DecommissionEnds(d) \/ DecommissionSucceedsLate(d) \/ DecommissionReruns(d) PROVE Fine
  <2>1. Cur(dec[d]) \in NixJobObject /\ Cur(dec[d]) # None /\ ~Cur(dec[d]).del
    BY <1>3, Versions DEF DecommissionEnds, DecommissionSucceedsLate, DecommissionReruns
  <2>2. PICK v : /\ \E s \in {"active", "failed", "succeeded"} : v = [Cur(dec[d]) EXCEPT !.st = s]
                 /\ dec' = [dec EXCEPT ![d] = Put(Lag.job, dec[d], v)]
    BY <1>3 DEF DecommissionEnds, DecommissionSucceedsLate, DecommissionReruns
  <2>3. v \in NixJobObject /\ ~v.del
    BY <2>1, <2>2 DEF NixJobObject, Reports
  <2>4. /\ Cur(dec'[d]) = v
        /\ \A e \in Configs : e # d => dec'[e] = dec[e]
        /\ Lag.job = 0 /\ InSync(dec[d]) => InSync(dec'[d])
    BY <2>2, <2>3, DecommissionPut
  <2> QED BY <1>3, <1>n, <1>u, <2>1, <2>3, <2>4 DEF DecommissionMoves
<1>4. ASSUME NEW d \in Configs, ReleaseChild(d) PROVE Fine
  <2>1. CASE UNCHANGED dec
    BY <1>u, <2>1
  <2>2. CASE /\ Cur(dec[d]) # None /\ Cur(dec[d]).del
             /\ dec' = [dec EXCEPT ![d] = Put(Lag.job, dec[d], None)]
    <3>1. /\ Cur(dec'[d]) = None
          /\ \A e \in Configs : e # d => dec'[e] = dec[e]
          /\ Lag.job = 0 /\ InSync(dec[d]) => InSync(dec'[d])
      BY <2>2, DecommissionPut
    <3> QED BY <1>4, <1>u, <2>2, <3>1 DEF DecommissionMoves
  <2> QED BY <1>4, <2>1, <2>2 DEF ReleaseChild
<1>5. CASE Crash
  <2>1. dec[c] \in Logs(NixJobObject \cup {None}) /\ dec'[c] = Relisted(dec[c])
    BY <1>5 DEF Crash, TypeOK
  <2>2. Cur(Relisted(dec[c])) = Cur(dec[c]) /\ InSync(Relisted(dec[c]))
    BY <2>1, LogRelisted
  <2> QED BY <2>1, <2>2 DEF DecommissionMoves
<1>6. ASSUME NEW d \in Configs, DeliverDecommission(d) PROVE Fine
  <2>1. CASE d = c
    <3>1. /\ dec[c] \in Logs(NixJobObject \cup {None}) /\ dec'[c] = Delivered(dec[c])
          /\ ~InSync(dec[c])
      BY <1>6, <2>1 DEF DeliverDecommission, TypeOK
    <3>2. Cur(Delivered(dec[c])) = Cur(dec[c])
      BY <3>1, LogDelivered
    <3> QED BY <3>1, <3>2 DEF DecommissionMoves
  <2>2. CASE d # c
    BY <1>6, <1>u, <2>2 DEF DeliverDecommission, TypeOK
  <2> QED BY <2>1, <2>2
<1>7. CASE Step
  <2>1. UNCHANGED dec \/ CreateDecommission \/ DeleteFailedDecommission \/ DeleteDecommissionJob
    BY <1>7, Zenon DEF Step, AddFinalizer, DropOnConflict, StatusUpdate, WithStatus,
          Blocked,
         SuspendDayTwo, PassGates, CreateInstall, InstallCreated, InstallConflict,
               InstallSucceeded, InstallChild,
         InstallWait, InstallExhausted, InstallRetry, DeleteFailedInstall,
         MarkFullDiskInstallCompleted, RewriteFails, DeleteDoneInstall, CreateDayTwo,
               DayTwoCreated,
         DayTwoConflict, ObserveDayTwo, DayTwoResumed, WriteBackMachineStatus,
               DeleteDayTwo, Decommission,
         ClearMachineStatus, BumpOnRemoveRetries, Finalize, kids
  <2> QED BY <1>1, <1>2, <1>u, <2>1
<1>8. CASE ApiError \/ MachineChanges \/ DeliverMachine
  BY <1>u, <1>8 DEF ApiError, MachineChanges, DeliverMachine, kids
<1>a. CASE AnswerLost
  <2>1. CASE InstallAnswerLost \/ MarkAnswerLost \/ DayTwoAnswerLost
    BY <1>u, <2>1 DEF InstallAnswerLost, MarkAnswerLost, DayTwoAnswerLost, kids
  <2> QED BY <1>1, <1>a, <2>1 DEF AnswerLost
<1>9. ASSUME NEW d \in Configs, Reconcile(d) \/ User(d) \/ Workloads(d) \/ Watch(d)
      PROVE  \/ UNCHANGED dec \/ DecommissionEnds(d) \/ DecommissionSucceedsLate(d) \/ DecommissionReruns(d)
             \/ ReleaseChild(d) \/ DeliverDecommission(d)
  BY <1>9, Zenon DEF Reconcile, User, CreateConfig, EditConfig, DeleteConfig, Workloads, Watch,
       InstallEnds, InstallSucceedsLate, InstallReruns, DayTwoOutcome, GarbageCollect,
             DeliverConfig,
       DeliverInstall, DeliverDayTwo, kids
<1> QED BY <1>3, <1>4, <1>5, <1>6, <1>7, <1>8, <1>9, <1>a, <1>u DEF Next

\* How the log of the Machine may change.
MachineLogMoves ==
  \/ mach' = mach
  \/ ~InSync(mach) /\ mach' = Delivered(mach)
  \/ mach' = Relisted(mach)
  \/ \E v \in MachineObject \cup {None} : mach' = Put(Lag.machine, mach, v)

\* Every step changes the log of the Machine in one of these ways.
LEMMA MachineLogs ==
  ASSUME TypeOK, MachineCopy, Next
  PROVE  MachineLogMoves
<1>m. Cur(mach) \in MachineObject \cup {None}
  BY MachineVersion
<1>1. CASE WriteBackMachineStatus
  <2>1. CASE ctl.mfresh
    <3>1. Cur(mach) \in MachineObject /\ me \in Configs
      BY <1>m, <1>1, <2>1, BusyHere DEF MachineCopy, AfterGates, WriteBackMachineStatus, At
    <3>2. [Cur(mach) EXCEPT !.ac = me] \in MachineObject
      BY <3>1 DEF MachineObject
    <3> QED BY <1>1, <2>1, <3>2 DEF WriteBackMachineStatus, MachineLogMoves
  <2> QED BY <1>1, <2>1 DEF WriteBackMachineStatus, MachineLogMoves
<1>2. CASE ClearMachineStatus
  <2>1. CASE Cur(mach) # None /\ ctl.mfresh
    <3>1. [Cur(mach) EXCEPT !.ac = None] \in MachineObject
      BY <1>m, <2>1 DEF MachineObject
    <3> QED BY <1>2, <2>1, <3>1 DEF ClearMachineStatus, MachineLogMoves
  <2> QED BY <1>2, <2>1 DEF ClearMachineStatus, MachineLogMoves
<1>3. CASE MachineChanges
  <2>1. Cur(mach) \in MachineObject
    BY <1>m, <1>3 DEF MachineChanges
  <2>2. PICK v \in {[Cur(mach) EXCEPT !.disc = ~@], [Cur(mach) EXCEPT !.key = ~@],
                   [Cur(mach) EXCEPT !.host = @ + 1], None} :
          mach' = Put(Lag.machine, mach, v)
    BY <1>3 DEF MachineChanges
  <2>3. v \in MachineObject \cup {None}
    <3>1. Cur(mach).host + 1 \in Nat
      BY <2>1 DEF MachineObject
    <3>2. CASE v = [Cur(mach) EXCEPT !.host = @ + 1]
      BY <2>1, <3>1, <3>2 DEF MachineObject
    <3>3. CASE v \in {[Cur(mach) EXCEPT !.disc = ~@], [Cur(mach) EXCEPT !.key = ~@], None}
      BY <2>1, <3>3 DEF MachineObject
    <3> QED BY <2>2, <3>2, <3>3
  <2> QED BY <2>2, <2>3 DEF MachineLogMoves
<1>4. CASE Crash
  BY <1>4 DEF Crash, MachineLogMoves
<1>5. CASE DeliverMachine
  BY <1>5 DEF DeliverMachine, MachineLogMoves
<1>6. CASE UNCHANGED mach
  BY <1>6 DEF MachineLogMoves
<1> QED BY <1>1, <1>2, <1>3, <1>4, <1>5, <1>6, MachineWriters

\* The Machine is not created again: a cache that shows none is right.
MachineStaysGone == Cur(mach) # None => mach \in Logs(MachineObject)

\* A Machine that is gone does not come back, so a removing pass that found none
\* need not look again.
LEMMA MachineStaysGoneKept ==
  ASSUME TypeOK, MachineCopy, MachineStaysGone, Next
  PROVE  /\ MachineStaysGone'
         /\ Cur(mach) = None => Cur(mach') = None
         /\ Lag.machine = 0 /\ InSync(mach) => InSync(mach')
<1> DEFINE S == MachineObject \cup {None}
<1>0. mach \in Logs(S) /\ Lag.machine \in Nat
  BY LagsAreNat DEF TypeOK
<1>1. CASE mach' = mach
  BY <1>1 DEF MachineStaysGone
<1>2. CASE ~InSync(mach) /\ mach' = Delivered(mach)
  <2>1. Cur(mach') = Cur(mach)
    BY <1>0, <1>2, LogDelivered
  <2>2. mach \in Logs(MachineObject) => mach' \in Logs(MachineObject)
    BY <1>2, LogDelivered
  <2> QED BY <1>2, <2>1, <2>2 DEF MachineStaysGone
<1>3. CASE mach' = Relisted(mach)
  <2>1. Cur(mach') = Cur(mach) /\ InSync(mach')
    BY <1>0, <1>3, LogRelisted
  <2>2. mach \in Logs(MachineObject) => mach' \in Logs(MachineObject)
    BY <1>3, LogRelisted
  <2> QED BY <2>1, <2>2 DEF MachineStaysGone
<1>4. ASSUME NEW v \in S, mach' = Put(Lag.machine, mach, v)
      PROVE  /\ MachineStaysGone'
             /\ Cur(mach) = None => Cur(mach') = None
             /\ Lag.machine = 0 /\ InSync(mach) => InSync(mach')
  <2>1. Cur(mach') = v
    <3> HIDE DEF S
    <3> QED BY <1>0, <1>4, LogPut
  <2>2. Cur(mach) = None => Cur(mach') = None
    <3> SUFFICES ASSUME Cur(mach) = None PROVE Cur(mach') = None
      OBVIOUS
    <3>1. CASE WriteBackMachineStatus
      <4>1. ~ctl.mfresh
        BY <3>1 DEF MachineCopy, AfterGates, WriteBackMachineStatus, At
      <4> QED BY <3>1, <4>1 DEF WriteBackMachineStatus
    <3> QED BY <3>1, MachineSteps DEF MachineMoves
  <2>3. MachineStaysGone'
    <3> SUFFICES ASSUME Cur(mach') # None PROVE mach' \in Logs(MachineObject)
      BY DEF MachineStaysGone
    <3>1. v \in MachineObject /\ mach \in Logs(MachineObject)
      BY <2>1, <2>2 DEF MachineStaysGone
    <3> QED BY <1>0, <1>4, <3>1, LogPut
  <2>4. Lag.machine = 0 /\ InSync(mach) => InSync(mach')
    <3> HIDE DEF S
    <3> QED BY <1>0, <1>4, LogNoLag
  <2> QED BY <2>2, <2>3, <2>4
<1> QED BY <1>1, <1>2, <1>3, <1>4, MachineLogs DEF MachineLogMoves

\* A configuration with its finalizer goes in one way.
LEMMA GoneByFinalize ==
  ASSUME TypeOK, CopyIsCurrent, ExistsWasBorn, Next, NEW c \in Configs,
         Cur(cfg[c]) # None, Cur(cfg[c]).fin, Cur(cfg'[c]) = None
  PROVE  Finalize /\ me = c
<1>n. None \notin ConfigObject
  BY NoneIsNoObject
<1>1. CASE Pass
  <2>1. ~Quiet
    BY DEF Quiet
  <2>2. ConfigWrite
    BY <1>1, <2>1, QuietSteps
  <2>3. PICK n \in ConfigObject \cup {None} : WriteConfig(n)
    BY <2>2, WritesStartFromStored
  <2>b. ctl \in Busy /\ me \in Configs /\ ctl.obj \in ConfigObject
    BY <1>1, StepIsBusy, BusyHere
  <2>4. me = c
    BY <2>b, <2>3, Written
  <2>v. Seen(cfg[me]) \in ConfigObject \cup {None}
    BY <2>b, Versions
  <2>5. ASSUME NEW v \in ConfigObject, WriteConfig(v) PROVE FALSE
    <3>1. Cur(cfg'[me]) = v
      BY <2>b, <2>5, Written
    <3> QED BY <1>n, <2>4, <3>1
  <2>6. CASE AddFinalizer
    <3>1. [ctl.obj EXCEPT !.fin = TRUE] \in ConfigObject
      BY <2>b DEF ConfigObject
    <3> QED BY <2>5, <2>6, <3>1 DEF AddFinalizer
  <2>7. CASE StatusUpdate
    <3>1. Cur(cfg[me]) \in ConfigObject
      BY <2>2, WritesStartFromStored
    <3>2. WithStatus(Cur(cfg[me]), ctl.obj) \in ConfigObject
      BY <2>b, <3>1 DEF WithStatus, ConfigObject
    <3> QED BY <2>5, <2>7, <3>2 DEF StatusUpdate
  <2>8. CASE MarkFullDiskInstallCompleted \/ MarkUnanswered
    <3>1. Seen(cfg[me]) \in ConfigObject /\ WriteConfig(Completed)
      BY <2>v, <2>8 DEF MarkFullDiskInstallCompleted, MarkUnanswered, MarkAnswerLost, Rewrite
    <3>2. Completed \in ConfigObject
      BY <3>1 DEF Completed, ConfigObject
    <3> QED BY <2>5, <3>1, <3>2
  <2>9. CASE BumpOnRemoveRetries
    <3>1. Seen(cfg[me]) \in ConfigObject /\ WriteConfig(Bumped)
      BY <2>v, <2>9 DEF BumpOnRemoveRetries, Rewrite
    <3>2. Seen(cfg[me]).rmRetries + 1 \in Nat
      BY <3>1 DEF ConfigObject
    <3>3. Bumped \in ConfigObject
      BY <3>1, <3>2 DEF Bumped, ConfigObject, Phases
    <3> QED BY <2>5, <3>1, <3>3
  <2> QED BY <2>2, <2>4, <2>6, <2>7, <2>8, <2>9 DEF ConfigWrite
<1>2. ASSUME NEW d \in Configs, User(d) PROVE FALSE
  <2>1. PICK n \in ConfigObject \cup {None} :
              /\ UserWrites(d, n)
              /\ Cur(cfg[d]) # None /\ Cur(cfg[d]).fin
                   => n # None /\ n.done = Cur(cfg[d]).done /\ n.fin
    BY <1>2, UserWriteValue
  <2>2. Cur(cfg'[d]) = n /\ \A e \in Configs : e # d => cfg'[e] = cfg[e]
    BY <2>1, UserWritten
  <2> QED BY <2>1, <2>2
<1>3. ASSUME Cur(cfg'[c]) = Cur(cfg[c]) PROVE FALSE
  BY <1>3
<1>4. CASE Crash
  <2>1. cfg[c] \in Logs(ConfigObject \cup {None}) /\ cfg'[c] = Relisted(cfg[c])
    BY <1>4 DEF Crash, TypeOK
  <2> QED BY <1>3, <2>1, LogRelisted
<1>5. CASE ApiError \/ MachineChanges \/ DeliverMachine
  BY <1>3, <1>5 DEF ApiError, MachineChanges, DeliverMachine
<1>6. ASSUME NEW d \in Configs, Reconcile(d) \/ Workloads(d) \/ Watch(d) PROVE FALSE
  <2>1. CASE DeliverConfig(d)
    <3>1. cfg[d] \in Logs(ConfigObject \cup {None}) /\ ~InSync(cfg[d])
      BY <2>1 DEF DeliverConfig, TypeOK
    <3>2. Cur(Delivered(cfg[d])) = Cur(cfg[d])
      BY <3>1, LogDelivered
    <3> QED BY <1>3, <2>1, <3>2 DEF DeliverConfig, TypeOK
  <2>2. CASE ~DeliverConfig(d)
    <3>1. UNCHANGED cfg
      BY <1>6, <2>2 DEF Reconcile, Workloads, Watch, InstallEnds, InstallSucceedsLate,
            InstallReruns,
         DecommissionEnds, DecommissionSucceedsLate, DecommissionReruns, DayTwoOutcome,
               ReleaseChild, GarbageCollect,
         DeliverInstall, DeliverDecommission, DeliverDayTwo
    <3> QED BY <1>3, <3>1
  <2> QED BY <2>1, <2>2
<1> QED BY <1>1, <1>2, <1>4, <1>5, <1>6 DEF Next, Pass

-----------------------------------------------------------------------------
\* What Decommission reads and decides.  Mine: the Machine in the cache names c.
Mine(c) == Seen(mach) # None /\ Seen(mach).ac = c

\* What the decommission step of removeConfiguration decides, case by case, from the
\* Machine and the job it reads.
LEMMA DecommissionDecides ==
  ASSUME TypeOK, Decommission
  PROVE  /\ UNCHANGED <<cfg, dec, mach, rmTries, rmFails>> /\ ctl.pc = "decommission"
         /\ ctl'.c = ctl.c /\ ctl'.fresh = ctl.fresh
         /\ \/ ctl'.pc = "rmStatus" /\ ctl'.obj = [ctl.obj EXCEPT !.phase = "Removing"]
            \/ /\ ctl'.obj = ctl.obj
               /\ ctl'.mine = Mine(me) /\ ctl'.mfresh = InSync(mach)
               /\ \/ /\ ~ctl.obj.onrm \/ Seen(mach) = None
                     /\ ctl'.pc = AfterStamp(Mine(me), "clearOnly", "finalize")
                  \/ /\ ctl.obj.onrm /\ Seen(mach) # None
                     /\ \/ Seen(dec[me]) = None /\ ctl'.pc \in {"createDec", "finalize"}
                        \/ /\ Seen(dec[me]) # None /\ ~NewFailure(Seen(dec[me]))
                           /\ \/ Seen(dec[me]).st = "succeeded"
                              \/ /\ Seen(dec[me]).st = "failed"
                                 /\ ctl.obj.rmRetries >= MaxOnRemoveRetries
                           /\ ctl'.pc = AfterStamp(Mine(me), "clear", "dropJob")
                        \/ /\ Seen(dec[me]) # None /\ NewFailure(Seen(dec[me]))
                           /\ ctl'.pc = "bump"
<1>b. ctl \in Busy /\ ctl.pc = "decommission"
  BY BusyHere DEF Decommission, At
<1>u. UNCHANGED <<cfg, dec, mach, rmTries, rmFails>>
  BY DEF Decommission, kids, history
<1> DEFINE Decide(p) == ctl' = [ctl EXCEPT !.pc = p, !.mine = Mine(me), !.mfresh = InSync(mach)]
           Removing == ctl' = [ctl EXCEPT !.pc = "rmStatus", !.obj.phase = "Removing"]
<1>d. ASSUME NEW p, Decide(p)
      PROVE  /\ ctl'.pc = p /\ ctl'.c = ctl.c /\ ctl'.obj = ctl.obj /\ ctl'.fresh = ctl.fresh
             /\ ctl'.mine = Mine(me) /\ ctl'.mfresh = InSync(mach)
  BY <1>b, <1>d DEF Busy
<1>r. ASSUME Removing
      PROVE  /\ ctl'.pc = "rmStatus" /\ ctl'.c = ctl.c /\ ctl'.fresh = ctl.fresh
             /\ ctl'.obj = [ctl.obj EXCEPT !.phase = "Removing"]
  BY <1>b, <1>r DEF Busy
<1>1. \/ /\ ~ctl.obj.onrm \/ Seen(mach) = None
         /\ Decide(AfterStamp(Mine(me), "clearOnly", "finalize"))
      \/ /\ ctl.obj.onrm /\ Seen(mach) # None
         /\ \/ /\ Seen(dec[me]) = None
               /\ Decide(IF Seen(mach).key THEN "createDec" ELSE "finalize")
            \/ /\ Seen(dec[me]) # None /\ Seen(dec[me]).st = "succeeded"
               /\ Decide(AfterStamp(Mine(me), "clear", "dropJob"))
            \/ Seen(dec[me]) # None /\ NewFailure(Seen(dec[me])) /\ Decide("bump")
            \/ /\ Seen(dec[me]) # None /\ Seen(dec[me]).st = "failed"
               /\ ~NewFailure(Seen(dec[me]))
               /\ ctl.obj.rmRetries >= MaxOnRemoveRetries
               /\ Decide(AfterStamp(Mine(me), "clear", "dropJob"))
            \/ Removing
  BY DEF Decommission, Mine
<1> HIDE DEF Decide, Removing
<1>2. CASE /\ ~ctl.obj.onrm \/ Seen(mach) = None
           /\ Decide(AfterStamp(Mine(me), "clearOnly", "finalize"))
  BY <1>b, <1>u, <1>2, <1>d
<1>3. CASE /\ ctl.obj.onrm /\ Seen(mach) # None /\ Seen(dec[me]) = None
           /\ Decide(IF Seen(mach).key THEN "createDec" ELSE "finalize")
  <2>1. PICK p \in {"createDec", "finalize"} : Decide(p)
    BY <1>3
  <2> QED BY <1>b, <1>u, <1>3, <2>1, <1>d
<1>4. CASE /\ ctl.obj.onrm /\ Seen(mach) # None
           /\ Seen(dec[me]) # None /\ Seen(dec[me]).st = "succeeded"
           /\ Decide(AfterStamp(Mine(me), "clear", "dropJob"))
  <2>1. ~NewFailure(Seen(dec[me]))
    BY <1>4 DEF NewFailure
  <2> QED BY <1>b, <1>u, <1>4, <2>1, <1>d
<1>5. CASE /\ ctl.obj.onrm /\ Seen(mach) # None
           /\ Seen(dec[me]) # None /\ NewFailure(Seen(dec[me])) /\ Decide("bump")
  BY <1>b, <1>u, <1>5, <1>d
<1>6. CASE /\ ctl.obj.onrm /\ Seen(mach) # None
           /\ Seen(dec[me]) # None /\ Seen(dec[me]).st = "failed"
           /\ ~NewFailure(Seen(dec[me]))
           /\ ctl.obj.rmRetries >= MaxOnRemoveRetries
           /\ Decide(AfterStamp(Mine(me), "clear", "dropJob"))
  BY <1>b, <1>u, <1>6, <1>d
<1>7. CASE Removing
  BY <1>b, <1>u, <1>7, <1>r
<1> QED BY <1>1, <1>2, <1>3, <1>4, <1>5, <1>6, <1>7

\* While the copy of a pass stays current nobody else writes what it is a copy of.
LEMMA OthersKeepStored ==
  ASSUME TypeOK, ExistsWasBorn, Next, ~Pass, ~\E c \in Configs : Reconcile(c),
         ctl \in Busy, ctl'.fresh
  PROVE  Cur(cfg'[me]) = Cur(cfg[me])
<1>b. me \in Configs /\ cfg[me] \in Logs(ConfigObject \cup {None})
  BY DEF Busy, me, TypeOK
<1>1. CASE Crash
  BY <1>1 DEF Crash, Idle
<1>2. CASE ApiError \/ MachineChanges \/ DeliverMachine
  BY <1>2 DEF ApiError, MachineChanges, DeliverMachine
<1>3. ASSUME NEW c \in Configs, User(c) PROVE Cur(cfg'[me]) = Cur(cfg[me])
  <2>1. PICK v \in ConfigObject \cup {None} : UserWrites(c, v)
    BY <1>3, UserWriteValue
  <2>2. me # c
    BY <2>1 DEF UserWrites, Busy, me
  <2> QED BY <1>b, <2>1, <2>2, UserWritten
<1>4. ASSUME NEW c \in Configs, Workloads(c) \/ Watch(c)
      PROVE  Cur(cfg'[me]) = Cur(cfg[me])
  <2>1. CASE DeliverConfig(c)
    <3>1. CASE c = me
      <4>1. ~InSync(cfg[me]) /\ cfg'[me] = Delivered(cfg[me])
        BY <1>b, <2>1, <3>1 DEF DeliverConfig, TypeOK
      <4> QED BY <1>b, <4>1, LogDelivered
    <3>2. CASE c # me
      BY <1>b, <2>1, <3>2 DEF DeliverConfig, TypeOK
    <3> QED BY <3>1, <3>2
  <2>2. CASE ~DeliverConfig(c)
    BY <1>4, <2>2 DEF Workloads, Watch, InstallEnds, InstallSucceedsLate, InstallReruns,
         DecommissionEnds, DecommissionSucceedsLate, DecommissionReruns, DayTwoOutcome,
         ReleaseChild, GarbageCollect, DeliverInstall, DeliverDecommission, DeliverDayTwo
  <2> QED BY <2>1, <2>2
<1> QED BY <1>1, <1>2, <1>3, <1>4 DEF Next, Pass

\* What a removing pass knows of spec.onRemoveFlake.  Until it decides, its copy is right
\* as long as it is current; a count of a failure makes the copy current and keeps its
\* spec, which had a removal flake then.
RemovalSpec ==
  /\ ctl.pc \in {"removing", "decommission", "createDec"} /\ ctl.fresh
       => ctl.obj.onrm = Cur(cfg[me]).onrm
  /\ ctl.pc \in RemovalPCs /\ ctl.fresh /\ Cur(cfg[me]).onrm => ctl.obj.onrm
  /\ ctl.pc \in {"bump", "delFailed"} => ctl.obj.onrm

\* Every step keeps that.
LEMMA RemovalSpecKept ==
  ASSUME TypeOK, ExistsWasBorn, RemovalSpec, Next
  PROVE  RemovalSpec'
<1> DEFINE Undecided == {"removing", "decommission", "createDec"}
<1> SUFFICES ASSUME ctl'.pc \in RemovalPCs
             PROVE  /\ ctl'.pc \in Undecided /\ ctl'.fresh
                         => ctl'.obj.onrm = Cur(cfg'[ctl'.c]).onrm
                    /\ ctl'.fresh /\ Cur(cfg'[ctl'.c]).onrm => ctl'.obj.onrm
                    /\ ctl'.pc \in {"bump", "delFailed"} => ctl'.obj.onrm
  BY DEF RemovalSpec, RemovalPCs, me
<1>1. CASE Pass
  <2>b. /\ ctl \in Busy /\ me \in Configs /\ ctl.pc \in RemovalPCs /\ ctl'.c = ctl.c
        /\ ctl'.obj.onrm = ctl.obj.onrm
    BY <1>1, RemovalSteps, StepIsBusy, BusyHere
  <2>i. ctl' # Idle
    BY DEF Idle, RemovalPCs
  <2>1. CASE BumpOnRemoveRetries
    <3>1. ctl.pc = "bump" /\ ctl'.pc = "delFailed"
      BY <2>b, <2>1 DEF BumpOnRemoveRetries, Rewritten, Busy, At
    <3> QED BY <2>b, <3>1 DEF RemovalSpec
  <2>2. CASE Decommission
    <3>1. /\ UNCHANGED cfg /\ ctl'.fresh = ctl.fresh /\ ctl.pc = "decommission"
          /\ ctl'.pc = "bump" => ctl.obj.onrm
          /\ ctl'.pc # "delFailed"
      BY <2>2, DecommissionDecides DEF AfterStamp
    <3> QED BY <2>b, <3>1 DEF RemovalSpec, me
  <2>3. ASSUME UNCHANGED cfg, ctl'.fresh = ctl.fresh, ctl'.pc \notin {"bump", "delFailed"},
               ctl'.pc \in Undecided => ctl.pc \in Undecided
        PROVE  /\ ctl'.pc \in Undecided /\ ctl'.fresh
                    => ctl'.obj.onrm = Cur(cfg'[ctl'.c]).onrm
               /\ ctl'.fresh /\ Cur(cfg'[ctl'.c]).onrm => ctl'.obj.onrm
    BY <2>b, <2>3 DEF RemovalSpec, me
  <2>4. CASE \/ DeleteDayTwo \/ ClearMachineStatus \/ DeleteFailedDecommission
             \/ DeleteDecommissionJob
    <3>1. /\ UNCHANGED cfg
          /\ \/ ctl.pc = "removing" /\ Goto("decommission")
             \/ \E q \in {"dropJob", "finalize", "clear", "rmStatus"} : Goto(q)
      BY <2>4, <2>i DEF DeleteDayTwo, ClearMachineStatus, DeleteFailedDecommission,
           DeleteDecommissionJob, AfterStamp, At
    <3>2. /\ ctl'.fresh = ctl.fresh /\ ctl'.pc \notin {"bump", "delFailed"}
          /\ ctl'.pc \in Undecided => ctl.pc \in Undecided
      BY <2>b, <3>1 DEF Goto, Busy
    <3> QED BY <2>3, <3>1, <3>2
  <2>5. CASE CreateDecommission
    <3>1. /\ UNCHANGED cfg
          /\ \/ Goto("finalize")
             \/ ctl' = [ctl EXCEPT !.pc = "rmStatus", !.obj.phase = "Removing"]
      BY <2>5 DEF CreateDecommission
    <3>2. ctl'.fresh = ctl.fresh /\ ctl'.pc \in {"finalize", "rmStatus"}
      BY <2>b, <3>1 DEF Goto, Busy
    <3> QED BY <2>3, <3>1, <3>2
  <2>6. CASE DecommissionAnswerLost
    <3>1. /\ ctl.pc = "createDec" /\ ctl' = [AfterError EXCEPT !.lost = TRUE]
          /\ UNCHANGED cfg
      BY <2>6 DEF DecommissionAnswerLost, DecommissionCreated, At
    <3>2. AfterError = [ctl EXCEPT !.pc = "finalize"]
      BY <3>1 DEF AfterError, At
    <3>3. ctl'.fresh = ctl.fresh /\ ctl'.pc = "finalize"
      BY <2>b, <3>1, <3>2 DEF Busy
    <3> QED BY <2>3, <3>1, <3>3
  <2> QED BY <1>1, <2>1, <2>2, <2>4, <2>5, <2>6, RemovalSteps
<1>2. ASSUME NEW c \in Configs, Reconcile(c)
      PROVE  /\ ctl'.fresh => ctl'.obj = Cur(cfg'[ctl'.c])
             /\ ctl'.pc \notin {"bump", "delFailed"}
  <2>1. /\ ctl'.c = c /\ ctl'.obj = Seen(cfg[c]) /\ ctl'.fresh = InSync(cfg[c])
        /\ ctl'.pc \in {"removing", "gates", "addFinalizer"} /\ UNCHANGED cfg
    BY <1>2 DEF Reconcile
  <2>2. InSync(cfg[c]) => Seen(cfg[c]) = Cur(cfg[c])
    BY LogVersions DEF TypeOK
  <2> QED BY <2>1, <2>2
<1>3. CASE ~Pass /\ ~\E c \in Configs : Reconcile(c)
  <2>1. OthersLeave
    BY <1>3, OthersMovePass
  <2>2. /\ ctl \in Busy /\ ctl'.c = ctl.c /\ ctl'.obj = ctl.obj
        /\ ctl'.fresh => ctl.fresh
        /\ ctl.pc \in RemovalPCs
        /\ ctl'.pc \in Undecided => ctl.pc \in Undecided
        /\ ctl'.pc \in {"bump", "delFailed"} => ctl'.pc = ctl.pc
    BY <2>1, OthersKeepPass DEF RemovalPCs
  <2>3. ctl'.fresh => Cur(cfg'[me]) = Cur(cfg[me])
    BY <1>3, <2>2, OthersKeepStored
  <2> QED BY <2>2, <2>3 DEF RemovalSpec, me
<1> QED BY <1>1, <1>2, <1>3

\* It holds in every reachable state.
LEMMA RemovalSpecInvariant == Spec => []RemovalSpec
<1>1. Init => RemovalSpec
  BY DEF Init, Idle, RemovalSpec, RemovalPCs
<1>2. ASSUME TypeOK, ExistsWasBorn, RemovalSpec, [Next]_vars PROVE RemovalSpec'
  <2>1. CASE UNCHANGED vars
    BY <1>2, <2>1 DEF vars, RemovalSpec, me
  <2> QED BY <1>2, <2>1, RemovalSpecKept
<1> QED BY <1>1, <1>2, StoredInvariant, PTL DEF Spec

\* No job stays behind.  Whoever is about to create the decommission job has read that
\* there is none; whoever is about to let go of the configuration has read that none is
\* needed, or that there is none, or has deleted it, or was told that the job it created could not be created.
JobReadsCurrent == \A c \in Configs : InSync(dec[c])

NoOrphan ==
  /\ ctl.pc = "createDec" => ctl.obj.onrm /\ Cur(dec[me]) = None
  /\ ctl.pc = "clearOnly" /\ ctl.obj.onrm => Cur(mach) = None
  /\ ctl.pc = "finalize" /\ ctl.obj.onrm /\ Cur(mach) # None /\ ~ctl.lost
       => Cur(dec[me]) = None \/ Cur(dec[me]).del

\* No step lets a removal reach its end with a decommission job left.
LEMMA NoOrphanKept ==
  ASSUME TypeOK, MachineCopy, MachineStaysGone, JobReadsCurrent, NoOrphan, Next
  PROVE  NoOrphan'
<1> DEFINE Watched == {"createDec", "clearOnly", "finalize"}
<1> SUFFICES ASSUME ctl'.pc \in Watched
             PROVE  /\ ctl'.pc = "createDec" => ctl'.obj.onrm /\ Cur(dec'[ctl'.c]) = None
                    /\ ctl'.pc = "clearOnly" /\ ctl'.obj.onrm => Cur(mach') = None
                    /\ ctl'.pc = "finalize" /\ ctl'.obj.onrm /\ Cur(mach') # None
                       /\ ~ctl'.lost
                         => Cur(dec'[ctl'.c]) = None \/ Cur(dec'[ctl'.c]).del
  BY DEF NoOrphan, me
<1>r. ctl'.pc \in RemovalPCs /\ ctl'.pc # "idle" /\ ctl' # Idle
  BY DEF RemovalPCs, Idle
<1>m. Cur(mach) = None => Cur(mach') = None
  BY MachineStaysGoneKept
<1>1. CASE Pass
  <2>b. /\ ctl \in Busy /\ me \in Configs /\ ctl.obj \in ConfigObject
        /\ ctl.pc \in RemovalPCs /\ ctl'.c = ctl.c
    BY <1>1, <1>r, RemovalSteps, StepIsBusy, BusyHere
  <2>1. CASE Decommission
    <3>1. /\ ctl'.obj = ctl.obj /\ UNCHANGED <<dec, mach>>
          /\ ctl'.pc = "createDec" => ctl.obj.onrm /\ Seen(dec[me]) = None
          /\ \/ ~ctl.obj.onrm \/ Seen(mach) = None
             \/ ctl.obj.onrm /\ Seen(dec[me]) = None /\ ctl'.pc # "clearOnly"
      BY <2>1, DecommissionDecides DEF AfterStamp
    <3>2. Seen(dec[me]) = Cur(dec[me])
      BY <2>b, LogVersions DEF TypeOK, JobReadsCurrent
    <3>3. Seen(mach) = None => Cur(mach) = None
      <4> SUFFICES ASSUME Cur(mach) # None PROVE Seen(mach) # None
        OBVIOUS
      <4>1. Seen(mach) \in MachineObject
        BY LogVersions DEF MachineStaysGone
      <4> QED BY <4>1, NoneIsNoObject
    <3> QED BY <2>b, <3>1, <3>2, <3>3 DEF me
  <2>2. CASE CreateDecommission
    <3>1. Cur(dec[me]) = None
      BY <2>2 DEF NoOrphan, CreateDecommission, DecommissionCreated, At
    <3>2. ctl' = [ctl EXCEPT !.pc = "rmStatus", !.obj.phase = "Removing"]
      BY <2>2, <3>1 DEF CreateDecommission, DecommissionCreated
    <3> QED BY <2>b, <3>2 DEF Busy
  <2>3. CASE ClearMachineStatus
    <3>1. Goto(IF At("clear") THEN "dropJob" ELSE "finalize") /\ UNCHANGED dec
      BY <1>r, <2>3 DEF ClearMachineStatus, kids
    <3>2. /\ ctl'.obj = ctl.obj
          /\ ctl'.pc = (IF At("clear") THEN "dropJob" ELSE "finalize")
      BY <2>b, <3>1 DEF Goto, Busy
    <3>3. ctl.pc = "clearOnly" /\ ctl'.pc = "finalize"
      BY <2>3, <3>2 DEF ClearMachineStatus, At
    <3> QED BY <1>m, <3>2, <3>3 DEF NoOrphan
  <2>4. CASE DeleteDecommissionJob
    <3>1. Goto("finalize")
      BY <2>4 DEF DeleteDecommissionJob
    <3>2. ctl'.pc = "finalize"
      BY <2>b, <3>1 DEF Goto, Busy
    <3>3. Cur(dec[me]) \in NixJobObject \cup {None}
      BY <2>b, Versions
    <3>4. dec' = [dec EXCEPT ![me] = Deleted(Lag.job, dec[me])]
      BY <2>4 DEF DeleteDecommissionJob
    <3>5. CASE Cur(dec[me]) = None
      BY <2>b, <3>2, <3>4, <3>5 DEF Deleted, TypeOK, me
    <3>6. CASE Cur(dec[me]) # None
      <4> DEFINE v == [Cur(dec[me]) EXCEPT !.del = TRUE]
      <4>1. v \in NixJobObject /\ v.del
        BY <3>3, <3>6 DEF NixJobObject
      <4>2. dec' = [dec EXCEPT ![me] = Put(Lag.job, dec[me], v)]
        BY <3>4, <3>6 DEF Deleted
      <4> HIDE DEF v
      <4>3. Cur(dec'[me]) = v
        BY <2>b, <4>1, <4>2, DecommissionPut
      <4> QED BY <2>b, <3>2, <4>1, <4>3 DEF me
    <3> QED BY <3>5, <3>6
  <2>5. CASE DeleteDayTwo \/ BumpOnRemoveRetries \/ DeleteFailedDecommission
    <3>1. ctl'.pc \in {"decommission", "delFailed", "clear", "dropJob", "rmStatus"}
      BY <2>b, <2>5 DEF DeleteDayTwo, BumpOnRemoveRetries, Rewrite, Rewritten, Completed,
            Bumped, WithStatus,
           DeleteFailedDecommission, AfterStamp, Goto, Busy
    <3> QED BY <3>1
  <2>6. CASE DecommissionAnswerLost
    <3>1. ctl.pc = "createDec" /\ ctl' = [AfterError EXCEPT !.lost = TRUE]
      BY <2>6 DEF DecommissionAnswerLost, DecommissionCreated, At
    <3>2. AfterError = [ctl EXCEPT !.pc = "finalize"]
      BY <3>1 DEF AfterError, At
    <3>3. ctl'.lost /\ ctl'.pc = "finalize"
      BY <2>b, <3>1, <3>2 DEF Busy
    <3> QED BY <3>3
  <2> QED BY <1>1, <1>r, <2>1, <2>2, <2>3, <2>4, <2>5, <2>6, RemovalSteps
<1>2. ASSUME NEW c \in Configs, Reconcile(c) PROVE FALSE
  BY <1>2 DEF Reconcile
<1>3. CASE ~Pass /\ ~\E c \in Configs : Reconcile(c)
  <2>1. OthersLeave
    BY <1>3, OthersMovePass
  <2>2. /\ ctl \in Busy /\ ctl'.c = ctl.c /\ ctl'.obj = ctl.obj /\ ctl'.lost = ctl.lost
        /\ ctl'.pc = ctl.pc \/ (ctl'.pc = "finalize" /\ ctl.pc = "createDec")
    BY <1>r, <2>1, OthersKeepPass
  <2>3. me \in Configs
    BY <2>2 DEF Busy, me
  <2>4. /\ Cur(dec[me]) = None => Cur(dec'[me]) = None
        /\ Cur(dec[me]) # None /\ Cur(dec[me]).del
             => Cur(dec'[me]) = None \/ Cur(dec'[me]).del
    <3>1. DecommissionMoves(me)
      BY <2>3, DecommissionSteps
    <3> QED BY <1>3, <3>1 DEF DecommissionMoves, Step, Pass
  <2> QED BY <1>m, <2>2, <2>4 DEF NoOrphan, me
<1> QED BY <1>1, <1>2, <1>3

\* Where the informer of the NixJobs is not behind, reads and promises of a removal hold.
LEMMA NoOrphanInvariant ==
  JobReadsSettled => (Spec => [](MachineStaysGone /\ JobReadsCurrent /\ NoOrphan))
<1> SUFFICES ASSUME JobReadsSettled
             PROVE  Spec => [](MachineStaysGone /\ JobReadsCurrent /\ NoOrphan)
  OBVIOUS
<1>1. Init => MachineStaysGone /\ JobReadsCurrent /\ NoOrphan
  <2> SUFFICES ASSUME Init PROVE MachineStaysGone /\ JobReadsCurrent /\ NoOrphan
    OBVIOUS
  <2>1. ctl.pc = "idle"
    BY DEF Init, Idle
  <2>2. JobReadsCurrent
    BY LogOfOne DEF Init, JobReadsCurrent
  <2>3. MachineStaysGone
    <3> DEFINE m == [disc |-> TRUE, key |-> TRUE, host |-> 0, ac |-> None]
    <3>1. m \in MachineObject
      BY DEF MachineObject
    <3>2. mach = <<m>>
      BY DEF Init
    <3> HIDE DEF m
    <3> QED BY <3>1, <3>2, LogOfOne DEF MachineStaysGone
  <2> QED BY <2>1, <2>2, <2>3 DEF NoOrphan
<1>2. ASSUME TypeOK, MachineCopy, MachineStaysGone, JobReadsCurrent, NoOrphan, [Next]_vars
      PROVE  MachineStaysGone' /\ JobReadsCurrent' /\ NoOrphan'
  <2>1. CASE Next
    <3>1. Lag.job = 0
      BY <1>2 DEF JobReadsSettled, TypeOK, Lag
    <3>2. JobReadsCurrent'
      BY <1>2, <2>1, <3>1, DecommissionSteps DEF JobReadsCurrent
    <3> QED BY <1>2, <2>1, <3>2, MachineStaysGoneKept, NoOrphanKept
  <2>2. CASE UNCHANGED vars
    BY <1>2, <2>2 DEF vars, MachineStaysGone, JobReadsCurrent, NoOrphan, me
  <2> QED BY <1>2, <2>1, <2>2
<1> QED BY <1>1, <1>2, StoredInvariant, PTL DEF Spec

\* A configuration with a removal flake and a machine is let go only when its decommission
\* job is gone or going, where the cache shows a pass the job of the pass before, unless
\* the pass was told that the job it created could not be created.
THEOREM FinalizeLeavesNone == JobReadsSettled => (Spec => FinalizeLeavesNoOrphan)
<1> SUFFICES ASSUME JobReadsSettled PROVE Spec => FinalizeLeavesNoOrphan
  OBVIOUS
<1>1. ASSUME TypeOK, CopyIsCurrent, ExistsWasBorn, RemovalSpec, NoOrphan, [Next]_vars
      PROVE  [\A c \in Configs :
                Finalized(c) /\ Cur(cfg[c]).onrm /\ Cur(mach) # None /\ ~ctl.lost
                  => Cur(dec[c]) = None \/ Cur(dec[c]).del]_vars
  <2> SUFFICES ASSUME Next, NEW c \in Configs, Finalized(c), Cur(cfg[c]).onrm,
                      Cur(mach) # None, ~ctl.lost
               PROVE  Cur(dec[c]) = None \/ Cur(dec[c]).del
    BY <1>1
  <2>1. Finalize /\ me = c
    BY <1>1, GoneByFinalize DEF Finalized, Exists
  <2>2. ctl.pc = "finalize" /\ ctl.fresh
    BY <2>1 DEF Finalize, At
  <2>3. ctl.obj.onrm
    BY <1>1, <2>1, <2>2 DEF RemovalSpec, RemovalPCs
  <2> QED BY <1>1, <2>1, <2>2, <2>3 DEF NoOrphan
<1> QED BY <1>1, StoredInvariant, RemovalSpecInvariant, NoOrphanInvariant, PTL
        DEF Spec, FinalizeLeavesNoOrphan

-----------------------------------------------------------------------------
\* The Machine does not name c.
Unnamed(c) == Cur(mach) = None \/ Cur(mach).ac # c

\* A pass that lets go of the Machine without clearing its stamp has read that the stamp
\* is another's, or gives up because no decommission job can be created, or so it was told.
StampSafe ==
  /\ ctl.pc = "dropJob" => Unnamed(me)
  /\ ctl.pc \in {"bump", "delFailed"} /\ ~ctl.mine => Unnamed(me)
  /\ ctl.pc = "finalize" /\ ~ctl.lost
       => Unnamed(me) \/ (Cur(dec[me]) = None /\ (ctl.fresh => Cur(cfg[me]).onrm))

\* No step lets a removal reach its end with the configuration's stamp in place.
LEMMA StampSafeKept ==
  ASSUME TypeOK, ExistsWasBorn, MachineCopy, InSync(mach), JobReadsCurrent, RemovalSpec,
         NoOrphan, StampSafe, Next
  PROVE  StampSafe'
<1> DEFINE Watched == {"dropJob", "bump", "delFailed", "finalize"}
           UnnamedNext == Cur(mach') = None \/ Cur(mach').ac # ctl.c
<1> SUFFICES ASSUME ctl'.pc \in Watched
             PROVE  /\ ctl'.c = ctl.c
                    /\ ctl'.pc = "dropJob" => UnnamedNext
                    /\ ctl'.pc \in {"bump", "delFailed"} /\ ~ctl'.mine => UnnamedNext
                    /\ ctl'.pc = "finalize" /\ ~ctl'.lost
                         => \/ UnnamedNext
                            \/ /\ Cur(dec'[ctl.c]) = None
                               /\ ctl'.fresh => Cur(cfg'[ctl.c]).onrm
  BY DEF StampSafe, Unnamed, me
<1>r. ctl'.pc \in RemovalPCs /\ ctl'.pc # "idle" /\ ctl' # Idle
  BY DEF RemovalPCs, Idle
<1>m. Seen(mach) = Cur(mach)
  BY LogVersions DEF TypeOK
<1>k. ASSUME ~WriteBackMachineStatus, ctl \in Busy, Unnamed(me) PROVE UnnamedNext
  <2>1. me # None
    BY <1>k, ConfigsAreNames DEF Busy, me
  <2> QED BY <1>k, <2>1, MachineSteps DEF MachineMoves, Unnamed, me
<1>1. CASE Pass
  <2>b. /\ ctl \in Busy /\ me \in Configs /\ ctl.obj \in ConfigObject
        /\ ctl.pc \in RemovalPCs /\ ctl'.c = ctl.c
    BY <1>1, <1>r, RemovalSteps, StepIsBusy, BusyHere
  <2>w. ~WriteBackMachineStatus
    BY <2>b DEF WriteBackMachineStatus, RemovalPCs, At
  <2>1. CASE Decommission
    <3>1. ~Mine(me) => Unnamed(me)
      BY <1>m DEF Mine, Unnamed
    <3>2. Seen(dec[me]) = Cur(dec[me])
      BY <2>b, LogVersions DEF TypeOK, JobReadsCurrent
    <3>3. /\ UNCHANGED <<cfg, mach, dec>> /\ ctl'.obj = ctl.obj /\ ctl'.fresh = ctl.fresh
          /\ ctl.pc = "decommission"
      BY <2>1, DecommissionDecides
    <3>s. ctl.fresh => ctl.obj.onrm = Cur(cfg[me]).onrm
      BY <3>3 DEF RemovalSpec
    <3>4. CASE ctl'.pc = "finalize"
      BY <2>b, <2>1, <3>1, <3>2, <3>3, <3>s, <3>4, DecommissionDecides DEF AfterStamp, Unnamed, me
    <3>5. CASE ctl'.pc \in {"dropJob", "bump"}
      BY <2>b, <2>1, <3>1, <3>3, <3>5, DecommissionDecides DEF AfterStamp, Unnamed, me
    <3>6. ctl'.pc # "delFailed"
      BY <2>1, DecommissionDecides DEF AfterStamp
    <3> QED BY <2>b, <3>4, <3>5, <3>6
  <2>2. CASE CreateDecommission
    <3>1. Cur(dec[me]) = None
      BY <2>2 DEF NoOrphan, CreateDecommission, DecommissionCreated, At
    <3>2. ctl' = [ctl EXCEPT !.pc = "rmStatus", !.obj.phase = "Removing"]
      BY <2>2, <3>1 DEF CreateDecommission, DecommissionCreated
    <3> QED BY <2>b, <3>2 DEF Busy
  <2>3. CASE ClearMachineStatus
    <3>1. /\ Goto(IF At("clear") THEN "dropJob" ELSE "finalize")
          /\ mach' = IF Cur(mach) = None THEN mach
                     ELSE Put(Lag.machine, mach, [Cur(mach) EXCEPT !.ac = None])
      BY <1>r, <2>3 DEF ClearMachineStatus
    <3>2. ctl'.pc \in {"dropJob", "finalize"}
      BY <2>b, <3>1 DEF Goto, Busy
    <3>3. UnnamedNext
      <4>1. CASE Cur(mach) = None
        BY <3>1, <4>1
      <4>2. CASE Cur(mach) # None
        <5> DEFINE v == [Cur(mach) EXCEPT !.ac = None]
        <5>1. v \in MachineObject /\ v.ac = None
          BY <4>2, MachineVersion DEF MachineObject
        <5>2. mach' = Put(Lag.machine, mach, v)
          BY <3>1, <4>2
        <5> HIDE DEF v
        <5>3. Cur(mach') = v
          BY <5>1, <5>2, MachinePut
        <5> QED BY <2>b, <5>1, <5>3, ConfigsAreNames DEF me
      <4> QED BY <4>1, <4>2
    <3> QED BY <2>b, <3>2, <3>3
  <2>4. CASE DeleteDecommissionJob
    <3>1. ctl.pc = "dropJob" /\ Goto("finalize")
      BY <2>4 DEF DeleteDecommissionJob, At
    <3>2. ctl'.pc = "finalize"
      BY <2>b, <3>1 DEF Goto, Busy
    <3> QED BY <1>k, <2>b, <2>w, <3>1, <3>2 DEF StampSafe
  <2>5. CASE BumpOnRemoveRetries
    <3>1. ctl.pc = "bump" /\ ctl'.pc = "delFailed" /\ ctl'.mine = ctl.mine
      BY <2>b, <2>5 DEF BumpOnRemoveRetries, Rewrite, Rewritten, Completed, Bumped,
            WithStatus, Busy, At
    <3> QED BY <1>k, <2>b, <2>w, <3>1 DEF StampSafe
  <2>6. CASE DeleteFailedDecommission
    <3>1. /\ ctl.pc = "delFailed" /\ ctl'.pc \in {"clear", "dropJob", "rmStatus"}
          /\ ctl'.pc = "dropJob" => ~ctl.mine
      BY <2>b, <2>6 DEF DeleteFailedDecommission, Goto, AfterStamp, Busy, At
    <3> QED BY <1>k, <2>b, <2>w, <3>1 DEF StampSafe
  <2>7. CASE DeleteDayTwo
    <3>1. ctl'.pc = "decommission"
      BY <2>b, <2>7 DEF DeleteDayTwo, Goto, Busy
    <3> QED BY <3>1
  <2>8. CASE DecommissionAnswerLost
    <3>1. ctl.pc = "createDec" /\ ctl' = [AfterError EXCEPT !.lost = TRUE]
      BY <2>8 DEF DecommissionAnswerLost, DecommissionCreated, At
    <3>2. AfterError = [ctl EXCEPT !.pc = "finalize"]
      BY <3>1 DEF AfterError, At
    <3>3. ctl'.lost /\ ctl'.pc = "finalize"
      BY <2>b, <3>1, <3>2 DEF Busy
    <3> QED BY <2>b, <3>3
  <2> QED BY <1>1, <1>r, <2>1, <2>2, <2>3, <2>4, <2>5, <2>6, <2>7, <2>8,
          RemovalSteps
<1>2. ASSUME NEW c \in Configs, Reconcile(c) PROVE FALSE
  BY <1>2 DEF Reconcile
<1>3. CASE ~Pass /\ ~\E c \in Configs : Reconcile(c)
  <2>1. OthersLeave
    BY <1>3, OthersMovePass
  <2>2. /\ ctl \in Busy /\ ctl'.c = ctl.c /\ ctl'.obj = ctl.obj /\ ctl'.mine = ctl.mine
        /\ ctl'.lost = ctl.lost /\ (ctl'.fresh => ctl.fresh)
        /\ ctl'.pc = ctl.pc \/ (ctl'.pc = "finalize" /\ ctl.pc = "createDec")
    BY <1>r, <2>1, OthersKeepPass
  <2>3. me \in Configs
    BY <2>2 DEF Busy, me
  <2>4. Cur(dec[me]) = None => Cur(dec'[me]) = None
    <3>1. DecommissionMoves(me)
      BY <2>3, DecommissionSteps
    <3> QED BY <1>3, <3>1 DEF DecommissionMoves, Step, Pass
  <2>5. Unnamed(me) => UnnamedNext
    BY <1>k, <1>3, <2>2 DEF Step, Pass
  <2>6. ctl'.fresh => Cur(cfg'[me]) = Cur(cfg[me])
    BY <1>3, <2>2, OthersKeepStored
  <2> QED BY <2>2, <2>4, <2>5, <2>6 DEF NoOrphan, StampSafe, RemovalSpec, me
<1> QED BY <1>1, <1>2, <1>3

\* A machine does not keep naming a configuration that is gone, unless no decommission job
\* could be created, or so the pass was told, where the caches show a pass the stamp and
\* the job.
THEOREM StampCleared ==
  JobReadsSettled /\ MachineReadsSettled => (Spec => StampIsCleared)
<1> SUFFICES ASSUME JobReadsSettled, MachineReadsSettled PROVE Spec => StampIsCleared
  OBVIOUS
<1>1. Init => InSync(mach) /\ StampSafe
  <2> SUFFICES ASSUME Init PROVE InSync(mach) /\ StampSafe
    OBVIOUS
  <2>1. ctl.pc = "idle" /\ InSync(mach)
    BY LogOfOne DEF Init, Idle
  <2> QED BY <2>1 DEF StampSafe
<1>2. ASSUME TypeOK, ExistsWasBorn, MachineCopy, MachineStaysGone, JobReadsCurrent,
             RemovalSpec, NoOrphan, InSync(mach), StampSafe, [Next]_vars
      PROVE  InSync(mach)' /\ StampSafe'
  <2>1. CASE Next
    <3>1. Lag.machine = 0
      BY <1>2 DEF MachineReadsSettled, TypeOK, Lag
    <3>2. InSync(mach')
      BY <1>2, <2>1, <3>1, MachineStaysGoneKept
    <3> QED BY <1>2, <2>1, <3>2, StampSafeKept
  <2>2. CASE UNCHANGED vars
    BY <1>2, <2>2 DEF vars, StampSafe, Unnamed, me
  <2> QED BY <1>2, <2>1, <2>2
<1>3. ASSUME TypeOK, CopyIsCurrent, ExistsWasBorn, StampSafe, [Next]_vars
      PROVE  [\A c \in Configs :
                Finalized(c) /\ Cur(mach) # None /\ ~ctl.lost
                  /\ (Cur(cfg[c]).onrm => Cur(dec[c]) # None)
                  => Cur(mach).ac # c]_vars
  <2> SUFFICES ASSUME Next, NEW c \in Configs, Finalized(c), Cur(mach) # None,
                      ~ctl.lost, Cur(cfg[c]).onrm => Cur(dec[c]) # None
               PROVE  Cur(mach).ac # c
    BY <1>3
  <2>1. Finalize /\ me = c
    BY <1>3, GoneByFinalize DEF Finalized, Exists
  <2>2. ctl.pc = "finalize" /\ ctl.fresh
    BY <2>1 DEF Finalize, At
  <2> QED BY <1>3, <2>1, <2>2 DEF StampSafe, Unnamed
<1> QED BY <1>1, <1>2, <1>3, StoredInvariant, RemovalSpecInvariant, NoOrphanInvariant, PTL
        DEF Spec, StampIsCleared

-----------------------------------------------------------------------------
(***************************************************************************)
(* The counters: how often the install runs and the decommission is tried. *)
(***************************************************************************)

\* The steps of a pass that count nothing and write no configuration.  One that ends the
\* pass was refused for an outdated copy, or is part of a removal.
Uncounted ==
  /\ UNCHANGED <<cfg, born, edits, blips, faults, set>>
  /\ \/ ctl' = Idle /\ (~ctl.fresh \/ ctl.pc \in RemovalPCs)
     \/ /\ ctl'.c = ctl.c /\ ctl'.fresh = ctl.fresh
        /\ ctl'.obj.retries = ctl.obj.retries /\ ctl'.obj.rmRetries = ctl.obj.rmRetries

\* The steps of a pass that write the configuration.
StepWrite == AddFinalizer \/ StatusUpdate \/ MarkFullDiskInstallCompleted
               \/ BumpOnRemoveRetries \/ Finalize

\* Every step of a pass counts nothing, writes the configuration, or is the retry of
\* the install.
LEMMA UncountedSteps ==
  ASSUME TypeOK, Step
  PROVE  Uncounted \/ StepWrite \/ InstallRetry
<1>b. ctl \in Busy /\ me \in Configs /\ ctl.obj \in ConfigObject
  BY StepIsBusy, BusyHere DEF Pass
<1> DEFINE Same == /\ ctl'.c = ctl.c /\ ctl'.fresh = ctl.fresh
                   /\ ctl'.obj.retries = ctl.obj.retries
                   /\ ctl'.obj.rmRetries = ctl.obj.rmRetries
<1>g. ASSUME NEW p, Goto(p) PROVE Same
  BY <1>b, <1>g DEF Goto, Busy
<1>p. ASSUME NEW ph, NEW ap, Report(ph, ap) PROVE Same
  BY <1>b, <1>p DEF Report, Busy, ConfigObject
<1>u. UNCHANGED <<born, edits, blips, faults, set>>
  BY Zenon DEF Step, AddFinalizer, DropOnConflict, StatusUpdate, WithStatus, Blocked,
       SuspendDayTwo, PassGates, CreateInstall, InstallCreated, InstallConflict,
             InstallSucceeded, InstallChild,
       InstallWait, InstallExhausted, InstallRetry, DeleteFailedInstall,
       MarkFullDiskInstallCompleted, RewriteFails, DeleteDoneInstall, CreateDayTwo,
             DayTwoCreated,
       DayTwoConflict, ObserveDayTwo, DayTwoResumed, WriteBackMachineStatus,
             DeleteDayTwo, Decommission,
       CreateDecommission, DecommissionCreated, ClearMachineStatus, BumpOnRemoveRetries,
             DeleteFailedDecommission,
       DeleteDecommissionJob, Finalize, history, budgets
<1>c. UNCHANGED cfg \/ StepWrite
  <2>1. faults \in Nat
    BY DEF TypeOK
  <2>2. ~MarkUnanswered
    BY <1>u, <2>1 DEF MarkUnanswered, AnswerLost
  <2>3. Quiet \/ ConfigWrite
    BY QuietSteps DEF Pass
  <2> QED BY <2>2, <2>3 DEF Quiet, StepWrite, ConfigWrite
<1>s. ASSUME Same, UNCHANGED cfg PROVE Uncounted
  BY <1>s, <1>u DEF Uncounted
<1> HIDE DEF Same
<1>1. CASE DropOnConflict
  BY <1>1, <1>u DEF DropOnConflict, Uncounted
<1>2. CASE Blocked \/ PassGates
  <2>1. CASE Blocked
    <3>1. Same
      BY <1>b, <2>1 DEF Blocked, Busy, ConfigObject, Same
    <3> QED BY <2>1, <1>s, <3>1 DEF Blocked
  <2>2. CASE PassGates
    <3>1. Same
      BY <1>b, <2>2 DEF PassGates, Busy, Same
    <3> QED BY <2>2, <1>s, <3>1 DEF PassGates
  <2> QED BY <1>2, <2>1, <2>2
<1>3. CASE SuspendDayTwo \/ InstallConflict \/ InstallSucceeded \/ DeleteDoneInstall
             \/ DayTwoConflict \/ WriteBackMachineStatus \/ DeleteDayTwo
             \/ DeleteFailedDecommission \/ DeleteDecommissionJob
  <2>1. \E p : Goto(p)
    BY <1>3 DEF SuspendDayTwo, InstallConflict, InstallSucceeded, InstallChild,
          DeleteDoneInstall,
         DayTwoConflict, WriteBackMachineStatus, DeleteDayTwo, DeleteFailedDecommission,
         DeleteDecommissionJob
  <2> QED BY <1>c, <1>g, <1>s, <2>1
<1>4. CASE InstallWait \/ InstallExhausted \/ DeleteFailedInstall \/ CreateInstall
             \/ CreateDayTwo
  <2>1. (\E p : Goto(p)) \/ \E ph, ap : Report(ph, ap)
    BY <1>4 DEF InstallWait, InstallChild, InstallExhausted, DeleteFailedInstall,
          CreateInstall, InstallCreated,
         CreateDayTwo, DayTwoCreated
  <2> QED BY <1>c, <1>g, <1>p, <1>s, <2>1
<1>5. CASE RewriteFails
  <2>1. CASE At("mark")
    <3>1. Same
      BY <1>b, <1>5, <2>1 DEF RewriteFails, Busy, Same
    <3> QED BY <1>5, <1>s, <3>1 DEF RewriteFails
  <2>2. CASE ~At("mark")
    <3>1. ctl' = Idle /\ ctl.pc \in RemovalPCs /\ UNCHANGED cfg
      BY <1>5, <2>2 DEF RewriteFails, At, RemovalPCs
    <3> QED BY <1>u, <3>1 DEF Uncounted
  <2> QED BY <2>1, <2>2
<1>6. CASE ObserveDayTwo
  <2>1. CASE ctl' = [ctl EXCEPT !.pc = "writeback", !.obj.phase = "Ready",
                                !.obj.applied = TRUE]
    <3>1. Same
      BY <1>b, <2>1 DEF Busy, ConfigObject, Same
    <3> QED BY <1>c, <1>s, <3>1
  <2>2. CASE \E ph, ap : Report(ph, ap)
    BY <1>c, <1>p, <1>s, <2>2
  <2> QED BY <1>6, <2>1, <2>2 DEF ObserveDayTwo, DayTwoResumed
<1>7. CASE Decommission
  <2>1. Same
    <3>1. ctl'.c = ctl.c /\ ctl'.fresh = ctl.fresh
      BY <1>7, DecommissionDecides
    <3>2. ctl'.obj = ctl.obj \/ ctl'.obj = [ctl.obj EXCEPT !.phase = "Removing"]
      BY <1>7, DecommissionDecides
    <3> QED BY <1>b, <3>1, <3>2 DEF ConfigObject, Same
  <2> QED BY <1>c, <1>s, <2>1
<1>8. CASE CreateDecommission
  <2>1. CASE ctl' = [ctl EXCEPT !.pc = "rmStatus", !.obj.phase = "Removing"]
    <3>1. Same
      BY <1>b, <2>1 DEF Busy, ConfigObject, Same
    <3> QED BY <1>c, <1>s, <3>1
  <2>2. CASE \E p : Goto(p)
    BY <1>c, <1>g, <1>s, <2>2
  <2> QED BY <1>8, <2>1, <2>2 DEF CreateDecommission, DecommissionCreated
<1>9. CASE ClearMachineStatus
  <2>1. CASE ctl' = Idle
    <3>1. ctl.pc \in RemovalPCs /\ UNCHANGED cfg
      BY <1>9 DEF ClearMachineStatus, RemovalPCs
    <3> QED BY <1>u, <2>1, <3>1 DEF Uncounted
  <2>2. CASE \E p : Goto(p)
    BY <1>c, <1>g, <1>s, <2>2
  <2> QED BY <1>9, <2>1, <2>2 DEF ClearMachineStatus
<1> QED BY <1>1, <1>2, <1>3, <1>4, <1>5, <1>6, <1>7, <1>8, <1>9 DEF Step, StepWrite

\* What the writes of a pass store.
WriteCounts(n) ==
  \/ /\ AddFinalizer /\ ctl.pc = "addFinalizer" /\ ctl.fresh
     /\ n # None /\ n.done = ctl.obj.done /\ n.del = ctl.obj.del
     /\ n.retries = ctl.obj.retries /\ n.rmRetries = ctl.obj.rmRetries
     /\ ctl'.pc = "gates" /\ ctl'.c = ctl.c /\ ctl'.fresh
     /\ ctl'.obj.retries = n.retries /\ ctl'.obj.rmRetries = n.rmRetries
  \/ /\ StatusUpdate /\ ctl.pc \in {"status", "rmStatus"} /\ ctl.fresh
     /\ Cur(cfg[me]) # None /\ n # None
     /\ n.done = Cur(cfg[me]).done /\ n.del = Cur(cfg[me]).del
     /\ n.retries = ctl.obj.retries /\ n.rmRetries = ctl.obj.rmRetries
     /\ ctl' = Idle
  \/ /\ MarkFullDiskInstallCompleted /\ ctl.pc = "mark" /\ Cur(cfg[me]) # None
     /\ n # None /\ n.done /\ n.del = Cur(cfg[me]).del
     /\ n.retries = Cur(cfg[me]).retries /\ n.rmRetries = Cur(cfg[me]).rmRetries
     /\ ctl'.pc = "delDone" /\ ctl'.c = ctl.c /\ ctl'.fresh
     /\ ctl'.obj.retries = n.retries /\ ctl'.obj.rmRetries = n.rmRetries
  \/ /\ BumpOnRemoveRetries /\ ctl.pc = "bump" /\ Cur(cfg[me]) # None
     /\ n # None /\ n.del = Cur(cfg[me]).del
     /\ n.retries = Cur(cfg[me]).retries /\ n.rmRetries = Cur(cfg[me]).rmRetries + 1
     /\ ctl'.pc = "delFailed" /\ ctl'.c = ctl.c /\ ctl'.fresh
     /\ ctl'.obj.retries = n.retries /\ ctl'.obj.rmRetries = n.rmRetries
     /\ ctl'.mine = ctl.mine /\ ctl'.mfresh = ctl.mfresh
  \/ Finalize /\ ctl.pc = "finalize" /\ ctl.fresh /\ n = None /\ ctl' = Idle

\* What each write of a pass stores of the counters.
LEMMA WritesCount ==
  ASSUME TypeOK, CopyIsCurrent, StepWrite
  PROVE  /\ ctl \in Busy /\ me \in Configs
         /\ UNCHANGED <<inst, dec, cron, mach, born, runs, reruns, ran, saw, rmTries, rmFails,
                        edits, blips, faults, set>>
         /\ \A c \in Configs : c # me => cfg'[c] = cfg[c]
         /\ \E n \in ConfigObject \cup {None} : Cur(cfg'[me]) = n /\ WriteCounts(n)
<1>b. /\ ctl \in Busy /\ me \in Configs /\ ctl.obj \in ConfigObject /\ ctl.pc # "idle"
  BY BusyHere DEF StepWrite, AddFinalizer, StatusUpdate,
       MarkFullDiskInstallCompleted, BumpOnRemoveRetries, Finalize, At
<1>u. UNCHANGED <<inst, dec, cron, mach, born, runs, reruns, ran, saw, rmTries, rmFails,
                  edits, blips, faults, set>>
  BY Zenon DEF StepWrite, AddFinalizer, StatusUpdate, MarkFullDiskInstallCompleted,
       BumpOnRemoveRetries, Finalize, kids, history, budgets
<1>s. Seen(cfg[me]) \in ConfigObject \cup {None}
      /\ Cur(cfg[me]) \in ConfigObject \cup {None}
      /\ (InSync(cfg[me]) => Seen(cfg[me]) = Cur(cfg[me]))
  BY <1>b, Versions, LogVersions DEF TypeOK
<1>n. None \notin ConfigObject
  BY NoneIsNoObject
<1>w. ASSUME NEW n \in ConfigObject \cup {None}, WriteConfig(n), WriteCounts(n)
      PROVE  /\ \A c \in Configs : c # me => cfg'[c] = cfg[c]
             /\ \E x \in ConfigObject \cup {None} : Cur(cfg'[me]) = x /\ WriteCounts(x)
  BY <1>b, <1>w, Written
<1>1. CASE AddFinalizer
  <2> DEFINE n == [ctl.obj EXCEPT !.fin = TRUE]
  <2>1. n \in ConfigObject /\ WriteConfig(n)
    BY <1>1, <1>b DEF AddFinalizer, ConfigObject
  <2>2. /\ ctl.pc = "addFinalizer" /\ ctl.fresh /\ ctl'.pc = "gates" /\ ctl'.c = ctl.c
        /\ ctl'.obj = n /\ ctl'.fresh
    BY <1>1, <1>b DEF AddFinalizer, Busy, ConfigObject, At
  <2>3. /\ n.done = ctl.obj.done /\ n.del = ctl.obj.del
        /\ n.retries = ctl.obj.retries /\ n.rmRetries = ctl.obj.rmRetries
    BY <1>b DEF ConfigObject
  <2> HIDE DEF n
  <2>4. WriteCounts(n)
    BY <1>1, <1>n, <2>1, <2>2, <2>3 DEF WriteCounts
  <2> QED BY <1>b, <1>u, <1>w, <2>1, <2>4
<1>2. CASE StatusUpdate
  <2> DEFINE n == WithStatus(Cur(cfg[me]), ctl.obj)
  <2>1. Cur(cfg[me]) \in ConfigObject /\ ctl.obj.done = Cur(cfg[me]).done
    BY <1>2, <1>b, <1>s DEF StatusUpdate, CopyIsCurrent
  <2>2. n \in ConfigObject
    BY <1>b, <2>1, WithStatusTyped
  <2>3. WriteConfig(n) /\ ctl.pc \in {"status", "rmStatus"} /\ ctl.fresh /\ ctl' = Idle
    BY <1>2 DEF StatusUpdate
  <2>4. /\ n.done = Cur(cfg[me]).done /\ n.del = Cur(cfg[me]).del
        /\ n.retries = ctl.obj.retries /\ n.rmRetries = ctl.obj.rmRetries
    BY <2>1 DEF WithStatus, ConfigObject
  <2> HIDE DEF n
  <2>5. WriteCounts(n)
    BY <1>2, <1>n, <2>1, <2>2, <2>3, <2>4 DEF WriteCounts
  <2> QED BY <1>b, <1>u, <1>w, <2>2, <2>3, <2>5
<1>c. ASSUME NEW n, NEW q, ctl' = [ctl EXCEPT !.pc = q, !.obj = WithStatus(@, n), !.fresh = TRUE]
      PROVE  /\ ctl'.pc = q /\ ctl'.c = ctl.c /\ ctl'.fresh
             /\ ctl'.mine = ctl.mine /\ ctl'.mfresh = ctl.mfresh
             /\ ctl'.obj.retries = n.retries /\ ctl'.obj.rmRetries = n.rmRetries
  <2>1. /\ ctl'.pc = q /\ ctl'.c = ctl.c /\ ctl'.fresh /\ ctl'.obj = WithStatus(ctl.obj, n)
        /\ ctl'.mine = ctl.mine /\ ctl'.mfresh = ctl.mfresh
    BY <1>b, <1>c DEF Busy
  <2>2. WithStatus(ctl.obj, n).retries = n.retries
        /\ WithStatus(ctl.obj, n).rmRetries = n.rmRetries
    BY <1>b DEF WithStatus, ConfigObject
  <2> QED BY <2>1, <2>2
<1>3. CASE MarkFullDiskInstallCompleted
  <2> DEFINE n == Completed
  <2>1. Seen(cfg[me]) = Cur(cfg[me]) /\ Cur(cfg[me]) \in ConfigObject
    BY <1>3, <1>s DEF MarkFullDiskInstallCompleted, Rewrite
  <2>2. n \in ConfigObject
    BY <2>1 DEF Completed, ConfigObject
  <2>3. /\ ctl.pc = "mark" /\ WriteConfig(n)
        /\ ctl' = [ctl EXCEPT !.pc = "delDone", !.obj = WithStatus(@, n), !.fresh = TRUE]
    BY <1>3 DEF MarkFullDiskInstallCompleted, Rewrite, Rewritten, At
  <2>4. /\ n.done /\ n.del = Cur(cfg[me]).del
        /\ n.retries = Cur(cfg[me]).retries /\ n.rmRetries = Cur(cfg[me]).rmRetries
    BY <2>1 DEF Completed, ConfigObject
  <2> HIDE DEF n
  <2>5. /\ ctl'.pc = "delDone" /\ ctl'.c = ctl.c /\ ctl'.fresh
        /\ ctl'.obj.retries = n.retries /\ ctl'.obj.rmRetries = n.rmRetries
    BY <1>c, <2>3
  <2>6. WriteCounts(n)
    BY <1>3, <1>n, <2>1, <2>2, <2>3, <2>4, <2>5 DEF WriteCounts
  <2> QED BY <1>b, <1>u, <1>w, <2>2, <2>3, <2>6
<1>4. CASE BumpOnRemoveRetries
  <2> DEFINE n == Bumped
  <2>1. Seen(cfg[me]) = Cur(cfg[me]) /\ Cur(cfg[me]) \in ConfigObject
    BY <1>4, <1>s DEF BumpOnRemoveRetries, Rewrite
  <2>2. Seen(cfg[me]).rmRetries + 1 \in Nat
    BY <2>1 DEF ConfigObject
  <2>3. n \in ConfigObject
    BY <2>1, <2>2 DEF Bumped, ConfigObject, Phases
  <2>4. /\ ctl.pc = "bump" /\ WriteConfig(n)
        /\ ctl' = [ctl EXCEPT !.pc = "delFailed", !.obj = WithStatus(@, n), !.fresh = TRUE]
    BY <1>4 DEF BumpOnRemoveRetries, Rewrite, Rewritten, At
  <2>6. /\ n.del = Cur(cfg[me]).del
        /\ n.retries = Cur(cfg[me]).retries /\ n.rmRetries = Cur(cfg[me]).rmRetries + 1
    BY <2>1, <2>2 DEF Bumped, ConfigObject
  <2> HIDE DEF n
  <2>5. /\ ctl'.pc = "delFailed" /\ ctl'.c = ctl.c /\ ctl'.fresh
        /\ ctl'.mine = ctl.mine /\ ctl'.mfresh = ctl.mfresh
        /\ ctl'.obj.retries = n.retries /\ ctl'.obj.rmRetries = n.rmRetries
    BY <1>c, <2>4
  <2>7. WriteCounts(n)
    BY <1>4, <1>n, <2>1, <2>3, <2>4, <2>5, <2>6 DEF WriteCounts
  <2> QED BY <1>b, <1>u, <1>w, <2>3, <2>4, <2>7
<1>5. CASE Finalize
  <2>1. WriteConfig(None) /\ WriteCounts(None)
    BY <1>5 DEF Finalize, WriteCounts, At
  <2> QED BY <1>b, <1>u, <1>w, <2>1
<1> QED BY <1>1, <1>2, <1>3, <1>4, <1>5 DEF StepWrite

\* A call whose answer is lost ends a pass early, with the working copy it has: none of
\* them stores a count, and the only one that writes the configuration completes its
\* install.
LEMMA LostAnswers ==
  ASSUME TypeOK, CopyIsCurrent, AnswerLost
  PROVE  /\ ctl \in Busy /\ me \in Configs
         /\ UNCHANGED <<mach, born, edits, blips, set, rmFails>> /\ faults' = faults + 1
         /\ \A c \in Configs : c # me => cfg'[c] = cfg[c]
         /\ ctl'.c = ctl.c /\ ctl'.obj = ctl.obj
         /\ \/ ctl'.pc = "status" /\ ctl.pc \in {"install", "delRetry", "mark", "daytwo"}
               /\ UNCHANGED <<dec, rmTries>>
            \/ ctl'.pc = "finalize" /\ ctl.pc = "createDec" /\ DecommissionAnswerLost
         /\ \/ cfg' = cfg /\ ctl'.fresh = ctl.fresh
            \/ /\ ctl.pc = "mark" /\ ~ctl'.fresh
               /\ Cur(cfg[me]) # None /\ Cur(cfg'[me]) # None /\ Cur(cfg'[me]).done
               /\ Cur(cfg'[me]).del = Cur(cfg[me]).del
               /\ Cur(cfg'[me]).retries = Cur(cfg[me]).retries
               /\ Cur(cfg'[me]).rmRetries = Cur(cfg[me]).rmRetries
<1>b. ctl \in Busy /\ me \in Configs /\ ctl.obj \in ConfigObject /\ ctl.pc # "idle"
  BY StepIsBusy, BusyHere DEF Pass, At
<1>u. UNCHANGED <<mach, born, edits, blips, set, rmFails>> /\ faults' = faults + 1
  BY Zenon DEF AnswerLost, InstallAnswerLost, MarkAnswerLost, DayTwoAnswerLost,
       DecommissionAnswerLost, kids, history
<1>1. CASE InstallAnswerLost \/ DayTwoAnswerLost
  <2>1. ctl.pc \in {"install", "delRetry", "daytwo"} /\ ctl' = AfterError
        /\ UNCHANGED <<cfg, dec, rmTries>>
    BY <1>1 DEF InstallAnswerLost, DayTwoAnswerLost, InstallCreated, InstallChild,
         DayTwoCreated, DayTwoResumed, At, history
  <2>2. ctl' = [ctl EXCEPT !.pc = "status"]
    BY <2>1 DEF AfterError
  <2> QED BY <1>b, <1>u, <2>1, <2>2 DEF Busy
<1>2. CASE MarkAnswerLost
  <2> DEFINE n == Completed
  <2>1. /\ Seen(cfg[me]) = Cur(cfg[me]) /\ Cur(cfg[me]) \in ConfigObject
        /\ cfg[me] \in Logs(ConfigObject \cup {None})
    BY <1>2, <1>b, Versions, LogVersions DEF MarkAnswerLost, Rewrite, TypeOK
  <2>2. n \in ConfigObject
    BY <2>1 DEF Completed, ConfigObject
  <2>3. /\ n.done /\ n.del = Cur(cfg[me]).del
        /\ n.retries = Cur(cfg[me]).retries /\ n.rmRetries = Cur(cfg[me]).rmRetries
    BY <2>1 DEF Completed, ConfigObject
  <2>4. ctl.pc = "mark" /\ WriteConfig(n) /\ UNCHANGED <<dec, rmTries>>
    BY <1>2 DEF MarkAnswerLost, Rewrite, At, kids, history
  <2>5. ctl' = [[ctl EXCEPT !.pc = "status"] EXCEPT !.fresh = @ /\ cfg' = cfg]
    BY <1>2 DEF MarkAnswerLost, AfterError, At
  <2>6. /\ ctl'.c = ctl.c /\ ctl'.pc = "status" /\ ctl'.obj = ctl.obj
        /\ ctl'.fresh = (ctl.fresh /\ cfg' = cfg)
    BY <1>b, <2>5 DEF Busy
  <2>7. ctl.fresh \in BOOLEAN /\ n # None
    BY <1>b, <2>2, NoneIsNoObject DEF Busy
  <2> HIDE DEF n
  <2>8. Cur(cfg'[me]) = n /\ \A c \in Configs : c # me => cfg'[c] = cfg[c]
    BY <1>b, <2>2, <2>4, Written
  <2>9. CASE cfg' = cfg
    BY <1>b, <1>u, <2>4, <2>6, <2>7, <2>9
  <2>10. CASE cfg' # cfg
    BY <1>b, <1>u, <2>1, <2>3, <2>4, <2>6, <2>7, <2>8, <2>10, NoneIsNoObject
  <2> QED BY <2>9, <2>10
<1>3. CASE DecommissionAnswerLost
  <2>1. ctl.pc = "createDec" /\ UNCHANGED cfg
        /\ ctl' = [[ctl EXCEPT !.pc = "finalize"] EXCEPT !.lost = TRUE]
    BY <1>3 DEF DecommissionAnswerLost, DecommissionCreated, AfterError, At
  <2> QED BY <1>3, <1>b, <1>u, <2>1 DEF Busy
<1> QED BY <1>1, <1>2, <1>3 DEF AnswerLost

\* What the user's writes store: a creation, an edit or a deletion.
UserCounts(c, n) ==
  \/ /\ born[c] = 0 /\ born'[c] # 0 /\ edits' = edits
     /\ n # None /\ ~n.done /\ ~n.del /\ n.retries = 0 /\ n.rmRetries = 0 /\ n.flake = 0
  \/ /\ born' = born /\ edits' = edits + 1
     /\ Cur(cfg[c]) # None /\ n # None
     /\ n.done = Cur(cfg[c]).done /\ n.del = Cur(cfg[c]).del
     /\ n.retries = Cur(cfg[c]).retries /\ n.rmRetries = Cur(cfg[c]).rmRetries
     /\ n.flake = Cur(cfg[c]).flake \/ n.flake = Cur(cfg[c]).flake + 1
  \/ /\ born' = born /\ edits' = edits
     /\ Cur(cfg[c]) # None /\ ~Cur(cfg[c]).del
     /\ \/ n = None
        \/ /\ n # None /\ n.del /\ n.done = Cur(cfg[c]).done /\ n.flake = Cur(cfg[c]).flake
           /\ n.retries = Cur(cfg[c]).retries /\ n.rmRetries = Cur(cfg[c]).rmRetries

\* What each write of a user stores of the counters.
LEMMA UsersCount ==
  ASSUME TypeOK, NEW c \in Configs, User(c)
  PROVE  /\ UNCHANGED <<inst, dec, cron, mach, runs, reruns, ran, saw, rmTries, rmFails,
                         blips, faults, set>>
         /\ \A d \in Configs : d # c => cfg'[d] = cfg[d] /\ born'[d] = born[d]
         /\ ctl' = IF ctl.c = c THEN [ctl EXCEPT !.fresh = FALSE] ELSE ctl
         /\ \E n \in ConfigObject \cup {None} : Cur(cfg'[c]) = n /\ UserCounts(c, n)
<1>n. None \notin ConfigObject
  BY NoneIsNoObject
<1>u. UNCHANGED <<inst, dec, cron, mach, runs, reruns, ran, saw, rmTries, rmFails, blips,
                  faults, set>>
  BY Zenon DEF User, CreateConfig, EditConfig, DeleteConfig, kids, history, budgets
<1>w. ASSUME NEW n \in ConfigObject \cup {None}, UserWrites(c, n), UserCounts(c, n)
      PROVE  /\ \A d \in Configs : d # c => cfg'[d] = cfg[d]
             /\ ctl' = IF ctl.c = c THEN [ctl EXCEPT !.fresh = FALSE] ELSE ctl
             /\ \E x \in ConfigObject \cup {None} : Cur(cfg'[c]) = x /\ UserCounts(c, x)
  BY <1>w, UserWritten DEF UserWrites
<1>1. CASE CreateConfig(c)
  <2>1. PICK s \in Specs, t \in Nat :
          /\ t # 0 /\ born[c] = 0 /\ born' = [born EXCEPT ![c] = t]
          /\ UserWrites(c, [ctime |-> t, del |-> FALSE, fin |-> FALSE, full |-> s.full,
                            onrm |-> s.onrm, flake |-> 0, done |-> FALSE, retries |-> 0,
                            rmRetries |-> 0, phase |-> "Pending", applied |-> FALSE])
    <3>1. \A d \in Configs : born[d] \in Nat /\ born[d] + 1 \in Nat
      BY DEF TypeOK
    <3> QED BY <1>1, <3>1 DEF CreateConfig
  <2> DEFINE n == [ctime |-> t, del |-> FALSE, fin |-> FALSE, full |-> s.full, onrm |-> s.onrm,
                   flake |-> 0, done |-> FALSE, retries |-> 0, rmRetries |-> 0, phase |-> "Pending",
                   applied |-> FALSE]
  <2>2. n \in ConfigObject
    <3>1. s \in [full : BOOLEAN, onrm : BOOLEAN]
      BY SpecsAreSpecs
    <3> QED BY <3>1 DEF ConfigObject, Phases
  <2>3. /\ ~n.done /\ ~n.del /\ n.retries = 0 /\ n.rmRetries = 0 /\ n.flake = 0
        /\ UserWrites(c, n)
    BY <2>1
  <2> HIDE DEF n
  <2>4. born'[c] # 0 /\ edits' = edits /\ \A d \in Configs : d # c => born'[d] = born[d]
    BY <1>1, <2>1 DEF CreateConfig, budgets, TypeOK
  <2>5. UserCounts(c, n)
    BY <1>n, <2>1, <2>2, <2>3, <2>4 DEF UserCounts
  <2> QED BY <1>u, <1>w, <2>2, <2>3, <2>4, <2>5
<1>2. CASE EditConfig(c)
  <2>1. Cur(cfg[c]) \in ConfigObject
    BY <1>2, Versions DEF EditConfig
  <2>2. PICK s \in Specs, k \in {0, 1} :
          UserWrites(c, [Cur(cfg[c]) EXCEPT !.full = s.full, !.onrm = s.onrm,
                                            !.flake = @ + k])
    BY <1>2 DEF EditConfig
  <2> DEFINE n == [Cur(cfg[c]) EXCEPT !.full = s.full, !.onrm = s.onrm,
                                      !.flake = @ + k]
  <2>k. Cur(cfg[c]).flake \in Nat /\ Cur(cfg[c]).flake + k \in Nat
    BY <2>1 DEF ConfigObject
  <2>3. n \in ConfigObject
    BY <2>1, <2>k, SpecsAreSpecs DEF ConfigObject
  <2>4. /\ n.done = Cur(cfg[c]).done /\ n.del = Cur(cfg[c]).del
        /\ n.retries = Cur(cfg[c]).retries /\ n.rmRetries = Cur(cfg[c]).rmRetries
        /\ n.flake = Cur(cfg[c]).flake + k
        /\ UserWrites(c, n)
    BY <2>1, <2>2, <2>k DEF ConfigObject
  <2>l. n.flake = Cur(cfg[c]).flake \/ n.flake = Cur(cfg[c]).flake + 1
    BY <2>4, <2>k
  <2> HIDE DEF n
  <2>5. born' = born /\ edits' = edits + 1
    BY <1>2 DEF EditConfig, history
  <2>6. UserCounts(c, n)
    BY <1>n, <2>1, <2>3, <2>4, <2>5, <2>l DEF UserCounts
  <2> QED BY <1>u, <1>w, <2>3, <2>4, <2>5, <2>6
<1>3. CASE DeleteConfig(c)
  <2>1. Cur(cfg[c]) \in ConfigObject /\ ~Cur(cfg[c]).del
    BY <1>3, Versions DEF DeleteConfig
  <2>2. born' = born /\ edits' = edits
    BY <1>3 DEF DeleteConfig, history, budgets
  <2> DEFINE n == [Cur(cfg[c]) EXCEPT !.del = TRUE]
  <2>3. /\ n \in ConfigObject /\ n.done = Cur(cfg[c]).done /\ n.del
        /\ n.retries = Cur(cfg[c]).retries /\ n.rmRetries = Cur(cfg[c]).rmRetries
        /\ n.flake = Cur(cfg[c]).flake
    BY <2>1 DEF ConfigObject
  <2>4. UserWrites(c, n) \/ UserWrites(c, None)
    BY <1>3 DEF DeleteConfig
  <2> HIDE DEF n
  <2>5. UserCounts(c, n) /\ UserCounts(c, None)
    BY <1>n, <2>1, <2>2, <2>3 DEF UserCounts
  <2> QED BY <1>u, <1>w, <2>2, <2>3, <2>4, <2>5
<1> QED BY <1>1, <1>2, <1>3 DEF User

-----------------------------------------------------------------------------
(***************************************************************************)
(* How often nixos-anywhere runs, where reads of the configuration are     *)
(* current.                                                                *)
(***************************************************************************)

N(b) == IF b THEN 1 ELSE 0

\* Before a pass looks at its install child.
Early == {"addFinalizer", "gates", "install"}

\* The retries that are counted for c: those in hand while they can still be stored.
Level(c) == IF ctl.c = c /\ ctl.fresh THEN ctl.obj.retries ELSE Cur(cfg[c]).retries

\* An install of c may still be started.
CanInstall(c) ==
  /\ Cur(cfg[c]) # None /\ ~Cur(cfg[c]).done
  /\ Cur(cfg[c]).del => ctl.c = c /\ ctl.pc \in Early

Vacant(c) == Cur(inst[c]) = None \/ Cur(inst[c]).del

\* There is no child that keeps a new one from being created, or soon is none.
Open(c) == Vacant(c) \/ (ctl.c = c /\ ctl.pc = "delRetry")

\* An edit made the pass's copy useless before it counted anything.
Outdated(c) ==
  ctl.c = c /\ ctl.pc \in {"gates", "install"} /\ ~ctl.fresh /\ ~Cur(cfg[c]).del

\* Each run is the first, or follows a counted retry, or an edit or a fault that lost
\* the count.
Paid(c) ==
  CanInstall(c) => runs[c] + N(Open(c)) + N(Outdated(c)) <= 1 + Level(c) + faults + edits

\* A copy is at most one retry ahead of the store, and none before the child was read.
CopyCounts ==
  ctl.pc # "idle" =>
    /\ ctl.obj.retries <= MaxInstallRetries
    /\ ctl.fresh => /\ ctl.obj.retries <= Cur(cfg[me]).retries + 1
                    /\ ctl.pc \in Early => ctl.obj.retries = Cur(cfg[me]).retries

StoredCounts ==
  \A c \in Configs : Cur(cfg[c]) # None => Cur(cfg[c]).retries <= MaxInstallRetries

NotStarted ==
  \A c \in Configs :
    born[c] = 0 => /\ runs[c] = 0 /\ reruns[c] = 0 /\ ran[c] = [flake |-> 0, host |-> 0]
                   /\ Cur(inst[c]) = None

\* The first half of the bound.
RunsBounded == \A c \in Configs : runs[c] <= 1 + MaxInstallRetries + faults + edits

\* Every step of somebody else: a fault, a write of the user, or one that leaves the pass
\* and the stored configurations alone.
LEMMA OthersCount ==
  ASSUME TypeOK, CopyIsCurrent, ExistsWasBorn, Next, ~Pass, ~\E c \in Configs : Reconcile(c)
  PROVE  \/ \E c \in Configs : User(c)
         \/ /\ \A c \in Configs : Cur(cfg'[c]) = Cur(cfg[c])
            /\ born' = born
            /\ \/ /\ ApiError \/ Crash
                  /\ ctl' = Idle \/ (ctl.pc # "idle" /\ ctl' = AfterError)
                  /\ faults' = faults + 1 /\ edits' = edits /\ blips' = blips
               \/ /\ ctl' = ctl \/ (MachineChanges /\ ctl' = [ctl EXCEPT !.mfresh = FALSE])
                  /\ faults' = faults /\ edits' = edits
                  /\ \/ blips' = blips + 1
                     \/ blips' = blips /\ ~MachineChanges
<1>s. ASSUME UNCHANGED cfg PROVE \A c \in Configs : Cur(cfg'[c]) = Cur(cfg[c])
  BY <1>s
<1>1. CASE ApiError
  BY <1>1, <1>s DEF ApiError, history, At
<1>2. CASE Crash
  <2>1. \A c \in Configs : Cur(cfg'[c]) = Cur(cfg[c])
    BY <1>2, LogRelisted DEF Crash, TypeOK
  <2> QED BY <1>2, <2>1 DEF Crash, history
<1>3. CASE MachineChanges
  <2>1. ctl' = [ctl EXCEPT !.mfresh = FALSE]
    BY <1>3 DEF MachineChanges
  <2>2. UNCHANGED <<cfg, born, edits, faults>> /\ blips' = blips + 1
    BY <1>3 DEF MachineChanges, history
  <2> QED BY <1>3, <1>s, <2>1, <2>2
<1>4. blips \in Nat /\ blips # blips + 1
  BY DEF TypeOK
<1>5. ASSUME blips' = blips PROVE ~MachineChanges
  BY <1>4, <1>5 DEF MachineChanges
<1>6. CASE DeliverMachine
  <2>1. UNCHANGED <<cfg, ctl, born, edits, faults, blips>>
    BY <1>6 DEF DeliverMachine, history, budgets
  <2> QED BY <1>5, <1>s, <2>1
<1>7. ASSUME NEW c \in Configs, Workloads(c) \/ Watch(c)
      PROVE  /\ \A d \in Configs : Cur(cfg'[d]) = Cur(cfg[d])
             /\ born' = born /\ ctl' = ctl /\ faults' = faults /\ edits' = edits
             /\ blips' = blips + 1 \/ blips' = blips
  <2>1. CASE DeliverConfig(c)
    <3>1. cfg[c] \in Logs(ConfigObject \cup {None}) /\ ~InSync(cfg[c])
      BY <2>1 DEF DeliverConfig, TypeOK
    <3>2. Cur(Delivered(cfg[c])) = Cur(cfg[c])
      BY <3>1, LogDelivered
    <3>3. \A d \in Configs : Cur(cfg'[d]) = Cur(cfg[d])
      BY <2>1, <3>2 DEF DeliverConfig, TypeOK
    <3> QED BY <2>1, <3>3 DEF DeliverConfig, history, budgets
  <2>2. CASE ~DeliverConfig(c)
    <3>1. UNCHANGED <<cfg, born, ctl, faults, edits>> /\ (blips' = blips + 1 \/ blips' = blips)
      BY <1>7, <2>2, Zenon DEF Workloads, Watch, InstallEnds, InstallSucceedsLate,
            InstallReruns, DecommissionEnds, DecommissionSucceedsLate,
           DecommissionReruns, DayTwoOutcome, ReleaseChild, GarbageCollect, DeliverInstall,
           DeliverDecommission, DeliverDayTwo, history, budgets
    <3> QED BY <1>s, <3>1
  <2> QED BY <2>1, <2>2
<1> QED BY <1>1, <1>2, <1>3, <1>5, <1>6, <1>7 DEF Next, Pass

\* Who can make room for a new child.
LEMMA VacantOnly ==
  ASSUME TypeOK, ExistsWasBorn, Next, NEW c \in Configs, Cur(cfg'[c]) # None
  PROVE  \/ runs'[c] = runs[c] /\ (Vacant(c)' => Vacant(c))
         \/ /\ Pass /\ c = me /\ ctl.pc = "install"
            /\ runs'[c] <= runs[c] + 1 /\ runs'[c] \in Nat /\ Vacant(c) /\ ~Vacant(c)'
         \/ Pass /\ c = me /\ ctl.pc \in {"delRetry", "delDone"} /\ runs'[c] = runs[c]
<1> DEFINE o == Cur(inst[c])
           n == Cur(inst'[c])
<1>1. InstallMoves(c, o, n)
  BY InstallSteps
<1>2. o \in InstallObject \cup {None}
  BY Versions
<1>3. Vacant(c) = (o = None \/ o.del) /\ Vacant(c)' = (n = None \/ n.del)
  BY DEF Vacant
<1>4. CASE n = NewInstall /\ runs'[c] = Counted(runs[c]) /\ o = None /\ Pass /\ c = me
           /\ ctl.pc = "install"
  <2>1. ctl \in Busy /\ ctl.obj \in ConfigObject
    BY <1>4, StepIsBusy, BusyHere
  <2>2. NewInstall \in InstallObject /\ ~NewInstall.del
    BY <2>1 DEF NewInstall, InstallObject, Reports, ConfigObject, Busy
  <2>3. runs'[c] <= runs[c] + 1 /\ runs'[c] \in Nat
    BY <1>4, CountBounds DEF Counted, TypeOK
  <2> QED BY <1>3, <1>4, <2>2, <2>3, NoneIsNoObject
<1> HIDE DEF o, n
<1>5. CASE Alive(o) /\ n # None /\ runs'[c] = runs[c]
           /\ n = [o EXCEPT !.flake = ctl.obj.flake, !.host = ctl.host]
  BY <1>2, <1>3, <1>5 DEF Alive, InstallObject
<1>6. CASE Alive(o) /\ n # None /\ runs'[c] = runs[c] /\ \E r : n = [o EXCEPT !.st = r]
  BY <1>2, <1>3, <1>6 DEF Alive, InstallObject
<1> QED BY <1>1, <1>3, <1>4, <1>5, <1>6 DEF InstallMoves, SameRuns, Alive

\* The two deletions are the only steps at their points.
LEMMA StepAt ==
  ASSUME Step
  PROVE  /\ ctl.pc = "delRetry" => DeleteFailedInstall
         /\ ctl.pc = "delDone" => DeleteDoneInstall
         /\ ~CreateInstall => UNCHANGED runs
<1>1. ~CreateInstall => UNCHANGED runs
  BY Zenon DEF Step, AddFinalizer, DropOnConflict, StatusUpdate, Blocked,
       SuspendDayTwo, PassGates, InstallConflict, InstallSucceeded,
       InstallWait, InstallExhausted, InstallRetry, DeleteFailedInstall,
       MarkFullDiskInstallCompleted, RewriteFails, DeleteDoneInstall, CreateDayTwo,
       DayTwoConflict, ObserveDayTwo, WriteBackMachineStatus, DeleteDayTwo, Decommission,
       CreateDecommission, ClearMachineStatus, BumpOnRemoveRetries,
       DeleteFailedDecommission, DeleteDecommissionJob, Finalize, history
<1>2. /\ ctl.pc = "delRetry" => DeleteFailedInstall
      /\ ctl.pc = "delDone" => DeleteDoneInstall
  BY DEF Step, At, AddFinalizer, DropOnConflict, StatusUpdate, Blocked,
       SuspendDayTwo, PassGates, CreateInstall, InstallConflict, InstallChild,
       InstallSucceeded, InstallWait, InstallExhausted, InstallRetry, DeleteFailedInstall,
       DeleteDoneInstall, MarkFullDiskInstallCompleted, RewriteFails,
       CreateDayTwo, DayTwoConflict, ObserveDayTwo, DayTwoResumed,
       WriteBackMachineStatus, DeleteDayTwo, Decommission, CreateDecommission,
       ClearMachineStatus, BumpOnRemoveRetries, DeleteFailedDecommission,
       DeleteDecommissionJob, Finalize
<1> QED BY <1>1, <1>2

\* A pass that has not read its install child yet came straight from its start.
LEMMA EarlySteps ==
  ASSUME TypeOK, Pass, ctl'.pc \in Early
  PROVE  ctl.pc \in Early /\ ctl'.pc # "addFinalizer"
BY Arrives DEF Early, AddFinalizer, PassGates, At

\* The counts of a pass and of the store stay within the cap.
LEMMA CountsKept ==
  ASSUME TypeOK, TypeOK', CopyIsCurrent, ExistsWasBorn, CacheIsCurrent, StoredCounts,
         CopyCounts, Next
  PROVE  StoredCounts' /\ CopyCounts'
<1>r. /\ \A c \in Configs : Cur(cfg[c]) # None => Cur(cfg[c]).retries \in Nat
      /\ MaxInstallRetries \in Nat
  BY Versions, RetryCaps DEF ConfigObject
<1>o. ctl.pc # "idle" => me \in Configs /\ ctl.obj.retries \in Nat
  BY BusyHere DEF At, ConfigObject
<1>i. ctl' = Idle => CopyCounts'
  BY DEF CopyCounts, Idle
<1>s. (\A c \in Configs : Cur(cfg'[c]) = Cur(cfg[c])) => StoredCounts'
  BY DEF StoredCounts
<1>1. CASE Step
  <2>b. ctl \in Busy /\ me \in Configs /\ ctl.pc # "idle"
    BY <1>1, StepIsBusy, BusyHere DEF At, Pass
  <2>1. CASE Uncounted
    <3>1. UNCHANGED cfg
      BY <2>1 DEF Uncounted
    <3>2. CASE /\ ctl'.c = ctl.c /\ ctl'.fresh = ctl.fresh
               /\ ctl'.obj.retries = ctl.obj.retries
      BY <1>1, <1>s, <2>b, <3>1, <3>2, EarlySteps DEF CopyCounts, me, Pass
    <3> QED BY <1>i, <1>s, <2>1, <3>1, <3>2 DEF Uncounted
  <2>2. CASE StepWrite
    <3>1. PICK n \in ConfigObject \cup {None} : Cur(cfg'[me]) = n /\ WriteCounts(n)
      BY <2>2, WritesCount
    <3>2. \A c \in Configs : c # me => cfg'[c] = cfg[c]
      BY <2>2, WritesCount
    <3>3. n # None => n.retries <= MaxInstallRetries /\ n.retries \in Nat
      BY <1>o, <1>r, <2>b, <3>1 DEF WriteCounts, CopyCounts, StoredCounts, ConfigObject
    <3>4. StoredCounts'
      BY <3>1, <3>2, <3>3 DEF StoredCounts
    <3>5. CASE ctl' = Idle
      BY <1>i, <3>4, <3>5
    <3>6. CASE ctl' # Idle
      <4>1. ctl'.c = ctl.c /\ ctl'.obj.retries = n.retries /\ n # None
        BY <3>1, <3>6 DEF WriteCounts
      <4> QED BY <3>1, <3>3, <3>4, <4>1 DEF CopyCounts, me
    <3> QED BY <3>5, <3>6
  <2>3. CASE InstallRetry
    <3>1. /\ ctl'.c = ctl.c /\ ctl'.fresh = ctl.fresh /\ ctl'.pc = "delRetry"
          /\ ctl'.obj.retries = ctl.obj.retries + 1 /\ ctl.pc = "install"
          /\ ctl.obj.retries < MaxInstallRetries /\ UNCHANGED cfg
      BY <2>3, <2>b DEF InstallRetry, InstallChild, At, Busy, ConfigObject
    <3>2. ctl.fresh => ctl.obj.retries = Cur(cfg[me]).retries
      BY <2>b, <3>1 DEF CopyCounts, Early
    <3>3. ctl'.pc \notin Early
      BY <3>1 DEF Early
    <3>4. CopyCounts'
      BY <1>o, <1>r, <2>b, <3>1, <3>2, <3>3 DEF CopyCounts, me
    <3> QED BY <1>s, <3>1, <3>4
  <2> QED BY <1>1, <2>1, <2>2, <2>3, UncountedSteps
<1>2. ASSUME NEW c \in Configs, Reconcile(c) PROVE StoredCounts' /\ CopyCounts'
  <2>1. Seen(cfg[c]) = Cur(cfg[c])
    BY LogVersions DEF TypeOK, CacheIsCurrent
  <2>2. cfg' = cfg /\ Seen(cfg[c]) # None /\ ctl'.c = c /\ ctl'.obj = Seen(cfg[c])
    BY <1>2 DEF Reconcile
  <2>3. Cur(cfg[c]).retries \in Nat /\ Cur(cfg[c]).retries <= MaxInstallRetries
    BY <1>r, <2>1, <2>2 DEF StoredCounts
  <2>4. CopyCounts'
    BY <2>1, <2>2, <2>3 DEF CopyCounts, me
  <2> QED BY <1>s, <2>2, <2>4
<1>3. ASSUME NEW c \in Configs, User(c) PROVE StoredCounts' /\ CopyCounts'
  <2>1. PICK n \in ConfigObject \cup {None} : Cur(cfg'[c]) = n /\ UserCounts(c, n)
    BY <1>3, UsersCount
  <2>2. \A d \in Configs : d # c => cfg'[d] = cfg[d]
    BY <1>3, UsersCount
  <2>3. n # None => n.retries <= MaxInstallRetries
    BY <1>r, <2>1 DEF UserCounts, StoredCounts
  <2>4. StoredCounts'
    BY <2>1, <2>2, <2>3 DEF StoredCounts
  <2>5. ctl' = IF ctl.c = c THEN [ctl EXCEPT !.fresh = FALSE] ELSE ctl
    BY <1>3, UsersCount
  <2>6. CASE ctl.c = c
    <3>1. /\ ctl'.pc = ctl.pc /\ ctl'.obj = ctl.obj /\ ~ctl'.fresh
      BY <2>5, <2>6 DEF TypeOK, Busy, Idle
    <3> QED BY <2>4, <3>1 DEF CopyCounts
  <2>7. CASE ctl.c # c
    <3>1. ctl' = ctl /\ (ctl.pc # "idle" => Cur(cfg'[me]) = Cur(cfg[me]))
      BY <1>o, <2>2, <2>5, <2>7 DEF me
    <3> QED BY <2>4, <3>1 DEF CopyCounts, me
  <2> QED BY <2>6, <2>7
<1>4. CASE ~Pass /\ ~(\E c \in Configs : Reconcile(c)) /\ ~(\E c \in Configs : User(c))
  <2>1. \A c \in Configs : Cur(cfg'[c]) = Cur(cfg[c])
    BY <1>4, OthersCount
  <2>2. CASE ctl'.pc = "idle"
    BY <1>s, <2>1, <2>2 DEF CopyCounts
  <2>3. CASE ctl'.pc # "idle"
    <3>1. OthersLeave
      BY <1>4, OthersMovePass
    <3>2. /\ ctl \in Busy /\ ctl'.c = ctl.c /\ ctl'.obj = ctl.obj /\ (ctl'.fresh => ctl.fresh)
          /\ ctl'.pc = ctl.pc \/ ctl'.pc \in {"status", "decommission", "finalize"}
      BY <2>3, <3>1, OthersKeepPass
    <3>3. ctl.pc # "idle" /\ me \in Configs /\ (ctl'.pc \in Early => ctl.pc \in Early)
      BY <3>2 DEF Early, Busy, me
    <3>4. CopyCounts'
      BY <2>1, <3>2, <3>3 DEF CopyCounts, me
    <3> QED BY <1>s, <2>1, <3>4
  <2> QED BY <2>2, <2>3
<1>5. CASE AnswerLost
  <2>1. /\ ctl \in Busy /\ me \in Configs /\ ctl.pc # "idle"
        /\ \A c \in Configs : c # me => cfg'[c] = cfg[c]
        /\ ctl'.c = ctl.c /\ ctl'.obj = ctl.obj /\ ctl'.pc \notin Early
    BY <1>5, LostAnswers DEF Early
  <2>2. CASE cfg' = cfg /\ ctl'.fresh = ctl.fresh
    BY <1>s, <2>1, <2>2 DEF CopyCounts, me
  <2>3. CASE /\ ~ctl'.fresh /\ Cur(cfg[me]) # None
             /\ Cur(cfg'[me]).retries = Cur(cfg[me]).retries
    BY <2>1, <2>3 DEF CopyCounts, StoredCounts, me
  <2> QED BY <1>5, <2>2, <2>3, LostAnswers
<1> QED BY <1>1, <1>2, <1>3, <1>4, <1>5 DEF Pass

\* Nothing ran before the configuration was created.
LEMMA NotStartedKept ==
  ASSUME TypeOK, ExistsWasBorn, KnowsCompletion, CopyIsCurrent, NotStarted, Next
  PROVE  NotStarted'
<1> SUFFICES ASSUME NEW c \in Configs, born'[c] = 0
             PROVE  /\ runs'[c] = 0 /\ reruns'[c] = 0
                    /\ ran'[c] = [flake |-> 0, host |-> 0] /\ Cur(inst'[c]) = None
  BY DEF NotStarted
<1>1. born[c] = 0
  <2>1. CASE Step
    <3>1. ASSUME InstallRetry PROVE UNCHANGED born
      BY <3>1 DEF InstallRetry, InstallChild, history
    <3> QED BY <2>1, <3>1, UncountedSteps, WritesCount DEF Uncounted
  <2>2. ASSUME NEW d \in Configs, User(d) PROVE born[c] = 0
    <3>1. CASE d = c
      BY <2>2, <3>1, UsersCount DEF UserCounts
    <3>2. CASE d # c
      BY <2>2, <3>2, UsersCount
    <3> QED BY <3>1, <3>2
  <2>3. ASSUME NEW d \in Configs, Reconcile(d) PROVE born[c] = 0
    BY <2>3 DEF Reconcile, history
  <2>4. CASE AnswerLost
    BY <2>4, LostAnswers
  <2> QED BY <2>1, <2>2, <2>3, <2>4, OthersCount DEF Pass
<1>2. /\ runs[c] = 0 /\ reruns[c] = 0 /\ ran[c] = [flake |-> 0, host |-> 0]
      /\ Cur(inst[c]) = None /\ Cur(cfg[c]) = None
  BY <1>1 DEF NotStarted, ExistsWasBorn
<1>3. ~(ctl.pc = "install" /\ c = me)
  BY <1>2 DEF KnowsCompletion
<1> QED BY <1>2, <1>3, InstallSteps DEF InstallMoves, SameRuns, Alive

\* A step of a pass on another configuration.
LEMMA PaidByOther ==
  ASSUME TypeOK, TypeOK', CopyIsCurrent, ExistsWasBorn, Next, Step, NEW c \in Configs, c # me, Paid(c)
  PROVE  Paid(c)'
<1>b. ctl \in Busy /\ me \in Configs
  BY StepIsBusy, BusyHere DEF Pass
<1>1. ctl'.c # c
  <2>1. CASE ctl' = Idle
    BY <2>1, ConfigsAreNames DEF Idle
  <2>2. CASE ctl'.c = ctl.c
    BY <2>2 DEF me
  <2>3. InstallRetry => ctl'.c = ctl.c
    BY <1>b DEF InstallRetry, InstallChild, Busy
  <2>4. StepWrite => ctl' = Idle \/ ctl'.c = ctl.c
    BY WritesCount DEF WriteCounts
  <2> QED BY <2>1, <2>2, <2>3, <2>4, UncountedSteps DEF Uncounted
<1>2. cfg'[c] = cfg[c] /\ faults' = faults /\ edits' = edits
  <2>1. ASSUME InstallRetry PROVE UNCHANGED <<cfg, faults, edits>>
    BY <2>1 DEF InstallRetry, InstallChild, budgets
  <2> QED BY <2>1, UncountedSteps, WritesCount DEF Uncounted
<1>3. SUFFICES ASSUME CanInstall(c)'
               PROVE  runs'[c] + N(Open(c)') + N(Outdated(c)')
                        <= 1 + Level(c)' + faults' + edits'
  BY DEF Paid
<1>4. CanInstall(c) /\ Cur(cfg'[c]) # None
  BY <1>1, <1>2, <1>3 DEF CanInstall
<1>5. runs'[c] = runs[c] /\ (Vacant(c)' => Vacant(c))
  BY <1>4, VacantOnly
<1>6. Level(c)' = Level(c) /\ ~Outdated(c)' /\ (Open(c)' => Open(c))
  BY <1>1, <1>2, <1>5 DEF Level, Outdated, Open, me
<1>7. Level(c) \in Nat /\ runs[c] \in Nat /\ faults \in Nat /\ edits \in Nat
  <2>1. Cur(cfg[c]) \in ConfigObject
    BY <1>4, Versions DEF CanInstall
  <2> QED BY <2>1 DEF Level, ConfigObject, TypeOK, me
<1>8. runs[c] + N(Open(c)) + N(Outdated(c)) <= 1 + Level(c) + faults + edits
  BY <1>4 DEF Paid
<1> QED BY <1>2, <1>5, <1>6, <1>7, <1>8 DEF N

\* A step of the pass on the configuration itself.
LEMMA PaidByPass ==
  ASSUME TypeOK, TypeOK', CopyIsCurrent, ExistsWasBorn, DeletesSafely,
         RemovalKnows, Next, Step, NEW c \in Configs, c = me, Paid(c)
  PROVE  Paid(c)'
<1>b. ctl \in Busy /\ ctl.c = c /\ ctl.pc # "idle" /\ ctl.obj \in ConfigObject
  BY StepIsBusy, BusyHere DEF me, At, Pass
<1>f. /\ ctl.fresh => Cur(cfg[c]) # None
      /\ ctl.fresh /\ ctl.pc = "addFinalizer" => ctl.obj = Cur(cfg[c])
  BY <1>b DEF CopyIsCurrent, me
<1>3. SUFFICES ASSUME CanInstall(c)'
               PROVE  runs'[c] + N(Open(c)') + N(Outdated(c)')
                        <= 1 + Level(c)' + faults' + edits'
  BY DEF Paid
<1>e. Cur(cfg'[c]) # None /\ ~Cur(cfg'[c]).done
      /\ (Cur(cfg'[c]).del => ctl'.c = c /\ ctl'.pc \in Early)
  BY <1>3 DEF CanInstall
<1>t. runs[c] \in Nat /\ faults \in Nat /\ edits \in Nat /\ ctl.obj.retries \in Nat
  BY <1>b DEF TypeOK, ConfigObject
<1>k. Cur(cfg[c]) # None => Cur(cfg[c]) \in ConfigObject /\ Cur(cfg[c]).retries \in Nat
  BY Versions DEF ConfigObject
<1>h. CanInstall(c) => /\ runs[c] + N(Open(c)) + N(Outdated(c)) <= 1 + Level(c) + faults + edits
                       /\ Level(c) \in Nat
  BY <1>t, <1>k DEF Paid, Level, CanInstall
<1>v. \/ runs'[c] = runs[c] /\ (Vacant(c)' => Vacant(c))
      \/ /\ ctl.pc = "install" /\ runs'[c] <= runs[c] + 1 /\ runs'[c] \in Nat
         /\ Vacant(c) /\ ~Vacant(c)'
      \/ ctl.pc \in {"delRetry", "delDone"} /\ runs'[c] = runs[c]
  BY <1>e, VacantOnly
\* The steps that keep the copy, its count and the stored object.
<1> DEFINE Same == /\ cfg'[c] = cfg[c] /\ faults' = faults /\ edits' = edits
                   /\ ctl'.c = ctl.c /\ ctl'.fresh = ctl.fresh
                   /\ ctl'.obj.retries = ctl.obj.retries
<1>l. ASSUME Same PROVE Level(c)' = Level(c)
  BY <1>l DEF Level
<1>g. ASSUME NEW p, NEW x, NEW y, UNCHANGED <<cfg, faults, edits>>, Goto(p) \/ Report(x, y)
      PROVE  Same
  <2>1. CASE Goto(p)
    BY <1>b, <1>g, <2>1 DEF Goto, Busy
  <2>2. CASE Report(x, y)
    BY <1>b, <1>g, <2>2 DEF Report, Busy, ConfigObject
  <2> QED BY <1>g, <2>1, <2>2
<1> HIDE DEF Same
<1>4. CASE CreateInstall
  <2>1. ctl.pc = "install" /\ UNCHANGED <<cfg, faults, edits>>
        /\ (Goto("status") \/ Report("Installing", FALSE))
    BY <1>4 DEF CreateInstall, InstallCreated, At, budgets
  <2>2. ctl'.pc = "status"
    BY <1>b, <2>1 DEF Goto, Report, Busy
  <2>3. CanInstall(c)
    BY <1>b, <1>e, <2>1 DEF CanInstall, Early
  <2>4. Same
    BY <1>g, <2>1
  <2>5. Level(c)' = Level(c) /\ faults' = faults /\ edits' = edits
    BY <1>l, <2>4 DEF Same
  <2>6. ~Outdated(c)' /\ (Open(c)' => Vacant(c)') /\ (Vacant(c) => Open(c))
    BY <2>2 DEF Outdated, Open
  <2> QED BY <1>h, <1>t, <1>v, <2>1, <2>3, <2>5, <2>6 DEF N
<1>5. CASE DeleteFailedInstall
  <2>1. ctl.pc = "delRetry" /\ UNCHANGED <<cfg, faults, edits>> /\ Report("Installing", FALSE)
    BY <1>5 DEF DeleteFailedInstall, At, budgets
  <2>2. ctl'.pc = "status"
    BY <1>b, <2>1 DEF Report, Busy
  <2>3. CanInstall(c)
    BY <1>e, <2>1, <2>2 DEF CanInstall, Early
  <2>4. Same
    BY <1>g, <2>1
  <2>5. Level(c)' = Level(c) /\ faults' = faults /\ edits' = edits
    BY <1>l, <2>4 DEF Same
  <2>6. ~Outdated(c)' /\ Open(c)
    BY <1>b, <2>1, <2>2 DEF Outdated, Open
  <2>7. runs'[c] = runs[c]
    BY <1>5 DEF DeleteFailedInstall, history
  <2> QED BY <1>h, <1>t, <2>3, <2>5, <2>6, <2>7 DEF N
<1>6. CASE DeleteDoneInstall
  <2>1. ctl.pc = "delDone" /\ UNCHANGED cfg
    BY <1>6 DEF DeleteDoneInstall, At
  <2> QED BY <1>e, <2>1 DEF DeletesSafely
<1>7. CASE ~CreateInstall /\ ~DeleteFailedInstall /\ ~DeleteDoneInstall
  <2>v. runs'[c] = runs[c] /\ (Vacant(c)' => Vacant(c))
    BY <1>7, <1>v, StepAt
  <2>1. CASE InstallRetry
    <3>1. /\ ctl'.c = c /\ ctl'.fresh = ctl.fresh /\ ctl'.pc = "delRetry"
          /\ ctl'.obj.retries = ctl.obj.retries + 1 /\ ctl.pc = "install"
          /\ UNCHANGED <<cfg, faults, edits>>
      BY <1>b, <2>1 DEF InstallRetry, InstallChild, At, Busy, ConfigObject, budgets
    <3>2. ~Vacant(c)
      <4>1. Seen(inst[c]) # None /\ NewFailure(Seen(inst[c])) /\ InSync(inst[c])
        BY <2>1, <1>b DEF InstallRetry, InstallChild, NewFailure, me
      <4>2. Seen(inst[c]) = Cur(inst[c])
        BY <4>1, LogVersions DEF TypeOK
      <4> QED BY <4>1, <4>2 DEF NewFailure, Vacant
    <3>3. CanInstall(c) /\ ~Cur(cfg[c]).del
      BY <1>e, <3>1 DEF CanInstall, Early
    <3>4. ~Outdated(c)' /\ ~Open(c)
      BY <3>1, <3>2 DEF Outdated, Open
    <3>5. CASE ctl.fresh
      <4>1. Level(c)' = Level(c) + 1
        BY <1>b, <3>1, <3>5 DEF Level
      <4> QED BY <1>h, <1>t, <2>v, <3>1, <3>3, <3>4, <4>1 DEF N
    <3>6. CASE ~ctl.fresh
      <4>1. Level(c)' = Level(c) /\ Outdated(c)
        BY <1>b, <3>1, <3>3, <3>6 DEF Level, Outdated
      <4> QED BY <1>h, <1>t, <2>v, <3>1, <3>3, <3>4, <4>1 DEF N
    <3> QED BY <3>5, <3>6
  <2>2. CASE Uncounted /\ ~InstallRetry /\ ctl' = Idle
    <3>1. ctl'.c # c /\ UNCHANGED <<cfg, faults, edits>>
      BY <2>2, ConfigsAreNames DEF Idle, Uncounted
    <3>2. ~Cur(cfg[c]).del /\ Cur(cfg[c]) # None /\ CanInstall(c)
      BY <1>e, <3>1 DEF CanInstall
    <3>3. ctl.fresh => FALSE
      <4>1. ctl.fresh => ctl.pc \in RemovalPCs
        BY <2>2, <1>b DEF Uncounted, Idle, Busy
      <4> QED BY <3>2, <4>1 DEF RemovalKnows, Gone
    <3>4. Level(c)' = Level(c) /\ ~Outdated(c)' /\ (Open(c)' => Open(c))
      BY <2>v, <3>1, <3>3 DEF Level, Outdated, Open
    <3> QED BY <1>h, <1>t, <2>v, <3>1, <3>2, <3>4 DEF N
  <2>3. CASE Uncounted /\ ~InstallRetry /\ ctl' # Idle /\ ~StepWrite
    <3>1. Same
      BY <2>3 DEF Uncounted, Same
    <3>2. /\ Level(c)' = Level(c) /\ faults' = faults /\ edits' = edits /\ cfg'[c] = cfg[c]
          /\ ctl'.c = c /\ ctl'.fresh = ctl.fresh
      BY <1>b, <1>l, <3>1 DEF Same
    <3>3. CanInstall(c)
      BY <1>b, <1>e, <3>2, EarlySteps DEF CanInstall, Pass
    <3>4. Open(c)' => Open(c)
      BY <2>3, <2>v, Arrives DEF Open, Pass
    <3>5. Outdated(c)' => Outdated(c)
      <4>1. ctl'.pc # "gates" /\ (ctl'.pc = "install" => ctl.pc = "gates")
        BY <2>3, Arrives DEF StepWrite, PassGates, At, Pass
      <4> QED BY <1>b, <3>2, <4>1 DEF Outdated
    <3> QED BY <1>h, <1>t, <2>v, <3>2, <3>3, <3>4, <3>5 DEF N
  <2>4. CASE StepWrite /\ ~InstallRetry
    <3>1. PICK n \in ConfigObject \cup {None} : Cur(cfg'[c]) = n /\ WriteCounts(n)
      BY <2>4, WritesCount
    <3>2. faults' = faults /\ edits' = edits
      BY <2>4, WritesCount
    <3>3. CASE AddFinalizer
      <4>1. /\ ctl.pc = "addFinalizer" /\ ctl.fresh /\ n.done = ctl.obj.done
            /\ n.retries = ctl.obj.retries
            /\ ctl'.pc = "gates" /\ ctl'.c = ctl.c /\ ctl'.obj.retries = n.retries
            /\ ctl'.fresh
        BY <3>1, <3>3 DEF WriteCounts, AddFinalizer, StatusUpdate, WithStatus,
         MarkFullDiskInstallCompleted, BumpOnRemoveRetries, Finalize, At
      <4>2. CanInstall(c)
        BY <1>b, <1>e, <1>f, <3>1, <4>1 DEF CanInstall, Early
      <4>3. Level(c)' = Level(c) /\ ~Outdated(c)' /\ (Open(c)' => Open(c))
        BY <1>b, <2>v, <4>1 DEF Level, Outdated, Open
      <4> QED BY <1>h, <1>t, <2>v, <3>2, <4>2, <4>3 DEF N
    <3>4. CASE StatusUpdate
      <4>1. /\ ctl.fresh /\ n.done = Cur(cfg[c]).done /\ n.del = Cur(cfg[c]).del
            /\ Cur(cfg[c]) # None /\ n.retries = ctl.obj.retries /\ ctl' = Idle
        BY <3>1, <3>4 DEF WriteCounts, AddFinalizer, StatusUpdate, WithStatus,
         MarkFullDiskInstallCompleted, BumpOnRemoveRetries, Finalize, At
      <4>2. ctl'.c # c
        BY <4>1, ConfigsAreNames DEF Idle
      <4>3. CanInstall(c)
        BY <1>e, <3>1, <4>1, <4>2 DEF CanInstall
      <4>4. Level(c)' = Level(c) /\ ~Outdated(c)' /\ (Open(c)' => Open(c))
        BY <1>b, <2>v, <3>1, <4>1, <4>2 DEF Level, Outdated, Open
      <4> QED BY <1>h, <1>t, <2>v, <3>2, <4>3, <4>4 DEF N
    <3>5. CASE BumpOnRemoveRetries
      <4>1. ctl.pc = "bump" /\ n.del = Cur(cfg[c]).del /\ ctl'.pc = "delFailed"
            /\ Cur(cfg[c]) # None
        BY <3>1, <3>5 DEF WriteCounts, AddFinalizer, StatusUpdate, WithStatus,
         MarkFullDiskInstallCompleted, BumpOnRemoveRetries, Finalize, At
      <4>2. Cur(cfg[c]).del
        BY <4>1 DEF RemovalKnows, RemovalPCs, Gone
      <4> QED BY <1>e, <3>1, <4>1, <4>2 DEF Early
    <3>6. CASE MarkFullDiskInstallCompleted \/ Finalize
      <4>1. n = None \/ n.done
        BY <3>1, <3>6 DEF WriteCounts, AddFinalizer, StatusUpdate, WithStatus,
         MarkFullDiskInstallCompleted, BumpOnRemoveRetries, Finalize, At
      <4> QED BY <1>e, <3>1, <4>1
    <3> QED BY <2>4, <3>3, <3>4, <3>5, <3>6 DEF StepWrite
  <2> QED BY <2>1, <2>2, <2>3, <2>4, UncountedSteps
<1> QED BY <1>4, <1>5, <1>6, <1>7

\* A call without an answer starts at most one run, or makes room for one.
LEMMA PaidByAnswer ==
  ASSUME TypeOK, TypeOK', CopyIsCurrent, ExistsWasBorn, Next, AnswerLost, NEW c \in Configs,
         Paid(c)
  PROVE  Paid(c)'
<1>3. SUFFICES ASSUME CanInstall(c)'
               PROVE  runs'[c] + N(Open(c)') + N(Outdated(c)')
                        <= 1 + Level(c)' + faults' + edits'
  BY DEF Paid
<1>l. /\ ctl \in Busy /\ faults' = faults + 1 /\ edits' = edits
      /\ ctl'.c = ctl.c /\ ctl'.obj = ctl.obj
      /\ ctl'.pc \in {"status", "finalize"} /\ me \in Configs
      /\ \A d \in Configs : d # me => cfg'[d] = cfg[d]
  BY LostAnswers
<1>1. /\ Cur(cfg'[c]) # None /\ ~Cur(cfg'[c]).done /\ ~Cur(cfg'[c]).del
      /\ ~Outdated(c)' /\ (Open(c)' => Vacant(c)') /\ (Vacant(c) => Open(c))
  BY <1>3, <1>l DEF CanInstall, Early, Outdated, Open
<1>2. cfg'[c] = cfg[c] /\ (ctl.c = c => ctl'.fresh = ctl.fresh)
  <2>1. CASE c # me
    BY <1>l, <2>1 DEF me
  <2>2. CASE c = me
    BY <1>1, <2>2, LostAnswers
  <2> QED BY <2>1, <2>2
<1>4. CanInstall(c) /\ Level(c)' = Level(c)
  BY <1>1, <1>2, <1>l DEF CanInstall, Level
<1>5. Level(c) \in Nat /\ runs[c] \in Nat /\ faults \in Nat /\ edits \in Nat
  <2>1. Cur(cfg[c]) \in ConfigObject
    BY <1>1, <1>2, Versions
  <2> QED BY <2>1, <1>l DEF Level, ConfigObject, TypeOK, Busy
<1>6. runs[c] + N(Open(c)) + N(Outdated(c)) <= 1 + Level(c) + faults + edits
  BY <1>4 DEF Paid
<1>7. \/ runs'[c] = runs[c]
      \/ runs'[c] <= runs[c] + 1 /\ runs'[c] \in Nat /\ Vacant(c) /\ ~Vacant(c)'
  BY <1>1, VacantOnly
<1> QED BY <1>1, <1>4, <1>5, <1>6, <1>7, <1>l DEF N

\* The start of a pass: its copy is current, so nothing is lost or gained.
LEMMA PaidByReconcile ==
  ASSUME TypeOK, TypeOK', CacheIsCurrent, NEW d \in Configs, Reconcile(d), NEW c \in Configs, Paid(c)
  PROVE  Paid(c)'
<1>1. /\ Seen(cfg[d]) = Cur(cfg[d]) /\ ctl.pc = "idle" /\ ctl' # Idle
      /\ ctl'.c = d /\ ctl'.obj = Seen(cfg[d]) /\ ctl'.fresh
      /\ ctl'.pc \in {"removing", "gates", "addFinalizer"}
      /\ Seen(cfg[d]).del => ctl'.pc = "removing"
      /\ UNCHANGED <<cfg, inst, runs, faults, edits>>
  BY LogVersions DEF TypeOK, CacheIsCurrent, Reconcile, At, kids, history, budgets, Idle
<1>2. ctl = Idle /\ ctl.c # c
  BY <1>1, ConfigsAreNames DEF TypeOK, Busy, Idle
<1>3. CanInstall(c)' => CanInstall(c)
  BY <1>1 DEF CanInstall, Early
<1>4. /\ Level(c)' = Level(c) /\ ~Outdated(c)' /\ (Open(c)' <=> Open(c)) /\ ~Outdated(c)
  BY <1>1, <1>2 DEF Level, Outdated, Open, Vacant
<1> QED BY <1>1, <1>3, <1>4 DEF Paid, N

\* A creation finds no runs, an edit pays for the count it makes the pass lose, and a
\* deletion ends the installs but of a pass that read before it and counted nothing yet.
LEMMA PaidByUser ==
  ASSUME TypeOK, TypeOK', ExistsWasBorn, KnowsCompletion, CopyCounts, NotStarted,
         NEW d \in Configs, User(d), NEW c \in Configs, Paid(c)
  PROVE  Paid(c)'
<1>u. /\ UNCHANGED <<inst, runs, faults>>
      /\ ctl' = IF ctl.c = d THEN [ctl EXCEPT !.fresh = FALSE] ELSE ctl
      /\ \A e \in Configs : e # d => cfg'[e] = cfg[e]
  BY UsersCount
<1>p. /\ ctl'.pc = ctl.pc /\ ctl'.c = ctl.c /\ ctl'.obj = ctl.obj
      /\ IF ctl.c = d THEN ~ctl'.fresh ELSE ctl'.fresh = ctl.fresh
  BY <1>u DEF TypeOK, Busy, Idle
<1>n. PICK n \in ConfigObject \cup {None} : Cur(cfg'[d]) = n /\ UserCounts(d, n)
  BY UsersCount
<1>t. runs[c] \in Nat /\ faults \in Nat /\ edits \in Nat /\ (edits' = edits \/ edits' = edits + 1)
  BY <1>n DEF TypeOK, UserCounts
<1>o. Open(c)' <=> Open(c)
  BY <1>u, <1>p DEF Open, Vacant
<1>3. SUFFICES ASSUME CanInstall(c)'
               PROVE  runs'[c] + N(Open(c)') + N(Outdated(c)')
                        <= 1 + Level(c)' + faults' + edits'
  BY DEF Paid
<1>1. CASE c # d
  <2>1. CanInstall(c) /\ (Outdated(c)' <=> Outdated(c)) /\ Level(c)' = Level(c)
    BY <1>1, <1>3, <1>p, <1>u DEF CanInstall, Outdated, Level
  <2>2. Level(c) \in Nat
    <3>1. Cur(cfg[c]) \in ConfigObject
      BY <2>1, Versions DEF CanInstall
    <3> QED BY <3>1, BusyHere DEF Level, ConfigObject, At, TypeOK, Idle, Busy
  <2>3. runs[c] + N(Open(c)) + N(Outdated(c)) <= 1 + Level(c) + faults + edits
    BY <2>1 DEF Paid
  <2> QED BY <1>o, <1>t, <1>u, <2>1, <2>2, <2>3 DEF N
<1>2. CASE c = d
  <2>l. Level(c)' = n.retries /\ n # None /\ ~n.done /\ n.retries \in Nat
        /\ (n.del => ctl.c = c /\ ctl.pc \in Early)
    BY <1>2, <1>3, <1>n, <1>p DEF Level, CanInstall, ConfigObject
  <2>q. ctl.c = c => ctl.pc # "idle" /\ ctl \in Busy /\ ctl.obj.retries \in Nat
    BY ConfigsAreNames DEF TypeOK, Busy, Idle, ConfigObject
  <2>1. CASE born[c] = 0
    <3>1. runs[c] = 0 /\ Cur(cfg[c]) = None
      BY <2>1 DEF NotStarted, ExistsWasBorn
    <3>2. ~Outdated(c)'
      BY <1>p, <3>1 DEF Outdated, KnowsCompletion, me
    <3> QED BY <1>t, <1>u, <2>l, <3>1, <3>2 DEF N
  <2>2. CASE /\ edits' = edits + 1 /\ Cur(cfg[c]) # None
             /\ n.done = Cur(cfg[c]).done /\ n.del = Cur(cfg[c]).del
             /\ n.retries = Cur(cfg[c]).retries
    <3>1. CanInstall(c)
      BY <2>2, <2>l DEF CanInstall
    <3>2. runs[c] + N(Open(c)) + N(Outdated(c)) <= 1 + Level(c) + faults + edits
      BY <3>1 DEF Paid
    <3>3. CASE ctl.c = c /\ ctl.fresh
      <4>1. Level(c) = ctl.obj.retries /\ ctl.obj.retries <= n.retries + 1
            /\ (ctl.pc \in Early => ctl.obj.retries = n.retries)
        BY <2>2, <2>q, <3>3 DEF Level, CopyCounts, me
      <4>2. Outdated(c)' => ctl.pc \in Early
        BY <1>p DEF Outdated, Early
      <4> QED BY <1>o, <1>t, <1>u, <2>2, <2>l, <2>q, <3>2, <3>3, <4>1, <4>2 DEF N
    <3>4. CASE ~(ctl.c = c /\ ctl.fresh)
      <4>1. Level(c) = n.retries /\ (Outdated(c)' => Outdated(c))
        BY <1>2, <1>n, <1>p, <2>2, <3>4 DEF Level, Outdated
      <4> QED BY <1>o, <1>t, <1>u, <2>2, <2>l, <3>2, <4>1 DEF N
    <3> QED BY <3>3, <3>4
  <2>3. CASE /\ Cur(cfg[c]) # None /\ ~Cur(cfg[c]).del
             /\ n.del /\ n.done = Cur(cfg[c]).done /\ n.retries = Cur(cfg[c]).retries
    <3>1. CanInstall(c)
      BY <2>3, <2>l DEF CanInstall
    <3>2. runs[c] + N(Open(c)) + N(Outdated(c)) <= 1 + Level(c) + faults + edits
      BY <3>1 DEF Paid
    <3>3. Level(c) = n.retries
      BY <2>3, <2>l, <2>q DEF Level, CopyCounts, me
    <3>4. ~Outdated(c)'
      BY <1>2, <1>n, <2>3 DEF Outdated
    <3> QED BY <1>o, <1>t, <1>u, <2>l, <3>2, <3>3, <3>4 DEF N
  <2> QED BY <1>2, <1>n, <2>1, <2>2, <2>3, <2>l DEF UserCounts
<1> QED BY <1>1, <1>2

\* A fault loses at most the one retry that was not stored yet.
LEMMA PaidByOthers ==
  ASSUME TypeOK, TypeOK', CopyIsCurrent, ExistsWasBorn, CopyCounts, Next, ~Pass,
         ~\E d \in Configs : Reconcile(d), ~\E d \in Configs : User(d),
         NEW c \in Configs, Paid(c)
  PROVE  Paid(c)'
<1>3. SUFFICES ASSUME CanInstall(c)'
               PROVE  runs'[c] + N(Open(c)') + N(Outdated(c)')
                        <= 1 + Level(c)' + faults' + edits'
  BY DEF Paid
<1>0. Cur(cfg'[c]) = Cur(cfg[c])
  BY OthersCount
<1>e. /\ Cur(cfg[c]) # None /\ ~Cur(cfg[c]).done
      /\ Cur(cfg[c]).del => ctl'.c = c /\ ctl'.pc \in Early
  BY <1>0, <1>3 DEF CanInstall
<1>v. runs'[c] = runs[c] /\ (Vacant(c)' => Vacant(c))
  BY <1>0, <1>e, VacantOnly
<1>q. ctl.c = c => ctl.pc # "idle" /\ ctl \in Busy /\ ctl.obj.retries \in Nat
  BY ConfigsAreNames DEF TypeOK, Busy, Idle, ConfigObject
<1>t. /\ runs[c] \in Nat /\ faults \in Nat /\ edits \in Nat /\ Cur(cfg[c]).retries \in Nat
      /\ Level(c) \in Nat
  BY <1>e, <1>q, Versions DEF TypeOK, ConfigObject, Level
<1>1. CASE /\ ctl' = Idle \/ (ctl.pc # "idle" /\ ctl' = AfterError)
           /\ faults' = faults + 1 /\ edits' = edits
  <2>1. /\ ctl'.pc \in {"idle", "status", "decommission", "finalize"}
        /\ ctl'.c = c => /\ ctl.c = c /\ ctl'.fresh = ctl.fresh /\ ctl'.obj = ctl.obj
    <3>1. CASE ctl' = Idle
      BY <3>1, ConfigsAreNames DEF Idle
    <3>2. CASE ctl.pc # "idle" /\ ctl' = AfterError /\ ctl' # Idle
      BY <3>2, BusyHere DEF AfterError, Busy, At
    <3> QED BY <1>1, <3>1, <3>2
  <2>2. CanInstall(c) /\ ~Outdated(c)' /\ (Open(c)' => Open(c))
    BY <1>e, <1>v, <2>1 DEF CanInstall, Early, Outdated, Open
  <2>3. Level(c) <= Level(c)' + 1 /\ Level(c)' \in Nat
    <3>1. CASE ctl'.c = c
      BY <1>0, <1>t, <2>1, <3>1 DEF Level
    <3>2. CASE ctl'.c # c
      BY <1>0, <1>q, <1>t, <3>2 DEF Level, CopyCounts, me
    <3> QED BY <3>1, <3>2
  <2>4. runs[c] + N(Open(c)) + N(Outdated(c)) <= 1 + Level(c) + faults + edits
    BY <2>2 DEF Paid
  <2> QED BY <1>1, <1>t, <1>v, <2>2, <2>3, <2>4 DEF N
<1>2. CASE /\ ctl' = ctl \/ ctl' = [ctl EXCEPT !.mfresh = FALSE]
           /\ faults' = faults /\ edits' = edits
  <2>1. ctl'.pc = ctl.pc /\ ctl'.c = ctl.c /\ ctl'.obj = ctl.obj /\ ctl'.fresh = ctl.fresh
    BY <1>2 DEF TypeOK, Busy, Idle
  <2>2. CanInstall(c) /\ (Outdated(c)' => Outdated(c)) /\ (Open(c)' => Open(c))
        /\ Level(c)' = Level(c)
    BY <1>0, <1>e, <1>v, <2>1 DEF CanInstall, Outdated, Open, Level
  <2>3. runs[c] + N(Open(c)) + N(Outdated(c)) <= 1 + Level(c) + faults + edits
    BY <2>2 DEF Paid
  <2> QED BY <1>2, <1>t, <1>v, <2>2, <2>3 DEF N
<1> QED BY <1>1, <1>2, OthersCount

\* No step takes back a disturbance.
LEMMA UpsetsGrow ==
  ASSUME TypeOK, CopyIsCurrent, ExistsWasBorn, Next
  PROVE  faults' >= faults /\ edits' >= edits /\ blips' >= blips
<1>t. faults \in Nat /\ edits \in Nat /\ blips \in Nat
  BY DEF TypeOK
<1>1. CASE Step
  <2>1. ASSUME InstallRetry PROVE UNCHANGED <<faults, edits, blips>>
    BY <2>1 DEF InstallRetry, budgets
  <2> QED BY <1>t, <1>1, <2>1, UncountedSteps, WritesCount DEF Uncounted
<1>2. ASSUME NEW d \in Configs, User(d)
      PROVE  faults' = faults /\ blips' = blips /\ edits' >= edits
  <2>1. UNCHANGED <<blips, faults>>
    BY <1>2, UsersCount
  <2>2. edits' = edits \/ edits' = edits + 1
    BY <1>2, UsersCount DEF UserCounts
  <2> QED BY <1>t, <2>1, <2>2
<1>3. ASSUME NEW d \in Configs, Reconcile(d)
      PROVE  faults' = faults /\ edits' = edits /\ blips' = blips
  BY <1>3 DEF Reconcile, budgets
<1>4. CASE AnswerLost
  BY <1>t, <1>4, LostAnswers
<1>5. CASE ~Pass /\ ~(\E d \in Configs : Reconcile(d)) /\ ~(\E d \in Configs : User(d))
  BY <1>t, <1>5, OthersCount
<1> QED BY <1>t, <1>1, <1>2, <1>3, <1>4, <1>5 DEF Pass

\* The bound follows from the last start: what is paid for and fits the cap.
LEMMA BoundKept ==
  ASSUME TypeOK, TypeOK', CopyIsCurrent, ExistsWasBorn, KnowsCompletion, Next,
         StoredCounts, CopyCounts, \A c \in Configs : Paid(c), RunsBounded
  PROVE  RunsBounded'
<1> SUFFICES ASSUME NEW c \in Configs
             PROVE  runs'[c] <= 1 + MaxInstallRetries + faults' + edits'
  BY DEF RunsBounded
<1>t. /\ runs[c] \in Nat /\ faults \in Nat /\ edits \in Nat /\ faults' \in Nat /\ edits' \in Nat
      /\ MaxInstallRetries \in Nat
  BY RetryCaps DEF TypeOK
<1>1. faults' >= faults /\ edits' >= edits
  BY UpsetsGrow
<1>2. CASE runs'[c] = runs[c]
  BY <1>1, <1>2, <1>t DEF RunsBounded
<1>3. CASE c = me /\ ctl.pc = "install" /\ Cur(inst[c]) = None /\ runs'[c] = Counted(runs[c])
  <2>1. ctl.pc = "install" /\ ctl.c = c
    BY <1>3 DEF me
  <2>2. Cur(cfg[c]) # None /\ ~Cur(cfg[c]).done
    BY <2>1 DEF KnowsCompletion, me
  <2>3. CanInstall(c) /\ Open(c)
    BY <1>3, <2>1, <2>2 DEF CanInstall, Early, Open, Vacant
  <2>4. Level(c) <= MaxInstallRetries /\ Level(c) \in Nat
    BY <2>1, <2>2, BusyHere, Versions DEF Level, CopyCounts, StoredCounts, At, ConfigObject
  <2>5. runs[c] + N(Open(c)) + N(Outdated(c)) <= 1 + Level(c) + faults + edits
    BY <2>3 DEF Paid
  <2>6. runs'[c] <= runs[c] + 1 /\ runs'[c] \in Nat
    BY <1>3, <1>t, CountBounds DEF Counted
  <2> QED BY <1>1, <1>t, <2>3, <2>4, <2>5, <2>6 DEF N
<1> QED BY <1>2, <1>3, InstallSteps DEF InstallMoves, SameRuns

-----------------------------------------------------------------------------
(***************************************************************************)
(* How often a child starts a further run, where reads of the Machine are  *)
(* current, too.                                                           *)
(***************************************************************************)

\* What the last run was started with or, while there is a child, what the next would be.
Latest(c) == IF Cur(inst[c]) # None THEN Args(Cur(inst[c])) ELSE ran[c]

\* Versions only grow on their way from the user, through the stored objects and the
\* copies of a pass, to the child and its runs, and each of them is an edit of the
\* configuration or a change of the Machine.
VersionsKnown(c) ==
  /\ ran[c].flake <= Latest(c).flake /\ ran[c].host <= Latest(c).host
  /\ Latest(c).flake <= edits /\ Latest(c).host <= blips
  /\ Cur(cfg[c]) # None
       => Latest(c).flake <= Cur(cfg[c]).flake /\ Cur(cfg[c]).flake <= edits
  /\ Cur(mach) # None => Latest(c).host <= Cur(mach).host /\ Cur(mach).host <= blips
  /\ ctl.c = c => born[c] # 0
  /\ ctl.c = c /\ ctl.pc \in Early
       => /\ Latest(c).flake <= ctl.obj.flake /\ ctl.obj.flake <= edits
          /\ Cur(cfg[c]) # None => ctl.obj.flake <= Cur(cfg[c]).flake
  /\ ctl.c = c /\ ctl.pc = "install"
       => /\ Latest(c).host <= ctl.host /\ ctl.host <= blips
          /\ Cur(mach) # None => ctl.host <= Cur(mach).host
  /\ ~MovingRef => reruns[c] <= ran[c].flake + ran[c].host

\* A behaviour stays in its setting.
LEMMA SettingStays == ASSUME Next PROVE set' = set
<1>1. CASE Step
  BY <1>1, Zenon DEF Step, AddFinalizer, DropOnConflict, StatusUpdate, Blocked,
       SuspendDayTwo, PassGates, CreateInstall, InstallConflict, InstallSucceeded,
       InstallWait, InstallExhausted, InstallRetry, DeleteFailedInstall,
       MarkFullDiskInstallCompleted, RewriteFails, DeleteDoneInstall, CreateDayTwo,
       DayTwoConflict, ObserveDayTwo, WriteBackMachineStatus, DeleteDayTwo, Decommission,
       CreateDecommission, ClearMachineStatus, BumpOnRemoveRetries,
       DeleteFailedDecommission, DeleteDecommissionJob, Finalize, budgets
<1>2. CASE ApiError \/ AnswerLost \/ Crash \/ MachineChanges \/ DeliverMachine
  BY <1>2 DEF ApiError, AnswerLost, Crash, MachineChanges, DeliverMachine, budgets
<1>3. ASSUME NEW c \in Configs, Reconcile(c) \/ User(c) \/ Workloads(c) \/ Watch(c)
      PROVE  set' = set
  BY <1>3, Zenon DEF Reconcile, User, CreateConfig, EditConfig, DeleteConfig, Workloads, Watch,
       InstallEnds, InstallSucceedsLate, InstallReruns, DecommissionEnds,
       DecommissionSucceedsLate, DecommissionReruns, DayTwoOutcome,
       ReleaseChild, GarbageCollect, DeliverConfig, DeliverInstall, DeliverDecommission,
       DeliverDayTwo, budgets
<1> QED BY <1>1, <1>2, <1>3 DEF Next

\* A configuration is stored with the version it had, unless the user creates or edits it.
LEMMA StoredGrows ==
  ASSUME TypeOK, CopyIsCurrent, ExistsWasBorn, Next, NEW c \in Configs
  PROVE  /\ born[c] # 0 => born'[c] # 0
         /\ Cur(cfg'[c]) # None
              => \/ born[c] = 0 /\ Cur(cfg'[c]).flake = 0
                 \/ /\ Cur(cfg[c]) # None
                    /\ \/ Cur(cfg'[c]).flake = Cur(cfg[c]).flake
                       \/ Cur(cfg'[c]).flake = Cur(cfg[c]).flake + 1 /\ edits' = edits + 1
<1>1. CASE Pass
  <2>1. CASE Quiet
    BY <2>1 DEF Quiet
  <2>2. CASE ConfigWrite
    <3>1. me \in Configs /\ UNCHANGED born /\ Cur(cfg[me]) \in ConfigObject
      BY <2>2, WritesStartFromStored
    <3>2. PICK n \in ConfigObject \cup {None} :
                 WriteConfig(n) /\ (n # None => n.flake = Cur(cfg[me]).flake)
      BY <2>2, WritesStartFromStored
    <3>3. Cur(cfg'[me]) = n /\ \A d \in Configs : d # me => cfg'[d] = cfg[d]
      BY <3>1, <3>2, Written
    <3> QED BY <3>1, <3>2, <3>3, NoneIsNoObject
  <2> QED BY <1>1, <2>1, <2>2, QuietSteps
<1>2. ASSUME NEW d \in Configs, Reconcile(d) PROVE cfg' = cfg /\ born' = born
  BY <1>2 DEF Reconcile, history
<1>3. ASSUME NEW d \in Configs, User(d), d # c PROVE cfg'[c] = cfg[c] /\ born'[c] = born[c]
  BY <1>3, UsersCount
<1>4. CASE User(c)
  <2>1. PICK n \in ConfigObject \cup {None} : Cur(cfg'[c]) = n /\ UserCounts(c, n)
    BY <1>4, UsersCount
  <2> QED BY <2>1 DEF UserCounts
<1>5. CASE ~Pass /\ ~(\E d \in Configs : Reconcile(d)) /\ ~(\E d \in Configs : User(d))
  BY <1>5, OthersCount
<1> QED BY <1>1, <1>2, <1>3, <1>4, <1>5

\* The Machine is stored with the version it had, unless the user changes it.
LEMMA MachineGrows ==
  ASSUME TypeOK, MachineCopy, Next, Cur(mach') # None
  PROVE  /\ Cur(mach) # None
         /\ \/ Cur(mach').host = Cur(mach).host
            \/ Cur(mach').host = Cur(mach).host + 1 /\ blips' = blips + 1
BY MachineSteps DEF MachineMoves, MachineChanges

\* A pass has the version of the configuration it started from, and that of the Machine
\* it read at the gates.
LEMMA PassReads ==
  ASSUME TypeOK, TypeOK', CopyIsCurrent, ExistsWasBorn, CacheIsCurrent, InSync(mach), Next,
         NEW c \in Configs, ctl'.c = c
  PROVE  \/ /\ ctl.c = c
            /\ ctl'.pc \in Early => /\ ctl.pc \in Early /\ ctl'.obj.flake = ctl.obj.flake
                                    /\ Pass => ctl.pc # "install"
            /\ ctl'.pc = "install"
                 => \/ ctl.pc = "install" /\ ctl'.host = ctl.host
                    \/ /\ Cur(mach) # None /\ ctl'.host = Cur(mach).host
                       /\ UNCHANGED <<mach, blips>>
         \/ /\ Cur(cfg[c]) # None /\ ctl'.obj.flake = Cur(cfg[c]).flake
            /\ ctl'.pc # "install" /\ ctl.c # c /\ UNCHANGED <<cfg, edits>>
<1>i. ctl'.pc # "idle" /\ ctl' # Idle
  BY ConfigsAreNames DEF TypeOK, Busy, Idle
<1>1. CASE Pass
  <2>b. ctl \in Busy /\ me \in Configs /\ ctl.obj \in ConfigObject
    BY <1>1, StepIsBusy, BusyHere
  <2>1. ctl'.c = ctl.c
    BY <1>1, <1>i, QuietSteps, WritesStartFromStored DEF Quiet
  <2>2. CASE AddFinalizer
    <3>1. ctl.pc = "addFinalizer" /\ ctl'.pc = "gates" /\ ctl'.obj = [ctl.obj EXCEPT !.fin = TRUE]
      BY <2>b, <2>2 DEF AddFinalizer, At, Busy
    <3>2. ctl'.obj.flake = ctl.obj.flake
      BY <2>b, <3>1 DEF ConfigObject
    <3> QED BY <2>1, <3>1, <3>2 DEF Early
  <2>3. CASE PassGates
    <3>1. /\ ctl.pc = "gates" /\ ctl'.obj = ctl.obj /\ ctl'.host = Seen(mach).host
          /\ UNCHANGED <<mach, blips>> /\ Seen(mach) # None
      BY <2>b, <2>3 DEF PassGates, At, Busy, MachineReady, budgets
    <3>2. Seen(mach) = Cur(mach)
      BY LogVersions DEF TypeOK
    <3> QED BY <2>1, <3>1, <3>2 DEF Early
  <2>4. CASE ctl'.pc \notin Early
    BY <2>1, <2>4 DEF Early
  <2> QED BY <1>1, <2>2, <2>3, <2>4, Arrives DEF Early
<1>2. ASSUME NEW d \in Configs, Reconcile(d)
      PROVE  /\ Cur(cfg[c]) # None /\ ctl'.obj.flake = Cur(cfg[c]).flake
             /\ ctl'.pc # "install" /\ ctl.c # c /\ UNCHANGED <<cfg, edits>>
  <2>1. Seen(cfg[d]) = Cur(cfg[d])
    BY LogVersions DEF TypeOK, CacheIsCurrent
  <2>2. /\ ctl'.c = d /\ ctl'.obj = Seen(cfg[d]) /\ Seen(cfg[d]) # None /\ ctl.pc = "idle"
        /\ ctl'.pc # "install" /\ UNCHANGED <<cfg, edits>>
    BY <1>2 DEF Reconcile, At, budgets
  <2>3. ctl = Idle /\ ctl.c # c
    BY <2>2, ConfigsAreNames DEF TypeOK, Busy, Idle
  <2> QED BY <2>1, <2>2, <2>3
<1>3. CASE ~Pass /\ ~(\E d \in Configs : Reconcile(d))
  <2>1. OthersLeave
    BY <1>3, OthersMovePass
  <2>2. /\ ctl'.c = ctl.c /\ ctl'.obj = ctl.obj /\ ctl'.host = ctl.host
        /\ ctl'.pc = ctl.pc \/ ctl'.pc \in {"status", "decommission", "finalize"}
    BY <1>i, <2>1, OthersKeepPass
  <2> QED BY <1>3, <2>2 DEF Early
<1> QED BY <1>1, <1>2, <1>3

\* The latest arguments are arguments.
LEMMA LatestTyped ==
  ASSUME TypeOK, NEW c \in Configs
  PROVE  /\ Latest(c) \in [flake : Nat, host : Nat] /\ ran[c] \in [flake : Nat, host : Nat]
         /\ reruns[c] \in Nat
<1>1. ran[c] \in [flake : Nat, host : Nat] /\ reruns[c] \in Nat
  BY DEF TypeOK
<1>2. Cur(inst[c]) \in InstallObject \cup {None}
  BY Versions
<1>3. CASE Cur(inst[c]) # None
  BY <1>1, <1>2, <1>3 DEF Args, InstallObject, Latest
<1> QED BY <1>1, <1>3 DEF Latest

\* How a step may change the latest arguments, and those of the last run.
LEMMA LatestMoves ==
  ASSUME TypeOK, ExistsWasBorn, Next, NEW c \in Configs
  PROVE  /\ Latest(c) \in [flake : Nat, host : Nat] /\ ran[c] \in [flake : Nat, host : Nat]
         /\ reruns[c] \in Nat
         /\ \/ Latest(c)' = Latest(c) /\ ran'[c] = ran[c] /\ reruns'[c] = reruns[c]
            \/ /\ Pass /\ ctl.c = c /\ ctl.pc = "install" /\ reruns'[c] = reruns[c]
               /\ ctl.obj.flake \in Nat /\ ctl.host \in Nat
               /\ Latest(c)' = [flake |-> ctl.obj.flake, host |-> ctl.host]
               /\ ran'[c] = ran[c] \/ ran'[c] = Latest(c)'
            \/ /\ Cur(inst[c]) # None /\ reruns'[c] = reruns[c]
               /\ Latest(c)' = ran[c] /\ ran'[c] = ran[c]
            \/ /\ Cur(inst[c]) # None /\ Latest(c)' = Latest(c) /\ ran'[c] = Latest(c)
               /\ ran[c] # Latest(c) \/ MovingRef
               /\ reruns'[c] <= reruns[c] + 1 /\ reruns'[c] \in Nat
<1> DEFINE o == Cur(inst[c])
           n == Cur(inst'[c])
<1>1. InstallMoves(c, o, n)
  BY InstallSteps
<1>2. o \in InstallObject \cup {None}
  BY Versions
<1>t. ran[c] \in [flake : Nat, host : Nat] /\ reruns[c] \in Nat
  BY DEF TypeOK
<1>n. None \notin InstallObject
  BY NoneIsNoObject
<1>3. /\ Latest(c) = IF o # None THEN Args(o) ELSE ran[c]
      /\ Latest(c)' = IF n # None THEN Args(n) ELSE ran'[c]
  BY DEF Latest, Args
<1>4. Latest(c) \in [flake : Nat, host : Nat]
  BY LatestTyped
<1>p. Pass => ctl \in Busy /\ ctl.obj.flake \in Nat /\ ctl.host \in Nat
  BY StepIsBusy, BusyHere DEF Busy, ConfigObject
<1> HIDE DEF o, n
<1>5. CASE SameRuns(c) /\ n = o
  BY <1>3, <1>4, <1>5, <1>t DEF SameRuns
<1>6. CASE Pass /\ c = me /\ ctl.pc = "install" /\ n = NewInstall
           /\ ran'[c] = Args(NewInstall) /\ reruns'[c] = reruns[c]
  <2>1. NewInstall \in InstallObject /\ NewInstall.flake = ctl.obj.flake
        /\ NewInstall.host = ctl.host
    BY <1>6, <1>p DEF NewInstall, InstallObject, Reports
  <2>2. Latest(c)' = Args(NewInstall)
    BY <1>3, <1>6, <1>n, <2>1
  <2>3. Args(NewInstall) = [flake |-> ctl.obj.flake, host |-> ctl.host]
    BY <2>1 DEF Args
  <2> QED BY <1>4, <1>6, <1>p, <1>t, <2>2, <2>3 DEF me
<1>7. CASE Pass /\ c = me /\ ctl.pc = "install" /\ SameRuns(c) /\ Alive(o) /\ n # None
           /\ n = [o EXCEPT !.flake = ctl.obj.flake, !.host = ctl.host]
  <2>1. n.flake = ctl.obj.flake /\ n.host = ctl.host
    BY <1>2, <1>7 DEF InstallObject, Alive
  <2>2. Latest(c)' = [flake |-> ctl.obj.flake, host |-> ctl.host]
    BY <1>3, <1>7, <2>1 DEF Args
  <2> QED BY <1>4, <1>7, <1>p, <1>t, <2>2 DEF me, SameRuns
<1>8. CASE SameRuns(c) /\ o # None /\ n # None
           /\ (n = [o EXCEPT !.del = TRUE] \/ \E r \in Reports : n = [o EXCEPT !.st = r])
  <2>1. n.flake = o.flake /\ n.host = o.host
    BY <1>2, <1>8 DEF InstallObject
  <2>2. Latest(c)' = Latest(c)
    BY <1>3, <1>8, <2>1 DEF Args
  <2> QED BY <1>4, <1>8, <1>t, <2>2 DEF SameRuns
<1>9. CASE SameRuns(c) /\ o # None /\ n = None
  BY <1>3, <1>4, <1>9, <1>t DEF SameRuns, o
<1>10. CASE /\ Alive(o) /\ n # None /\ n = [o EXCEPT !.st = "active"]
            /\ Args(o) # ran[c] \/ MovingRef
            /\ reruns'[c] = Counted(reruns[c]) /\ ran'[c] = Args(o)
  <2>1. n.flake = o.flake /\ n.host = o.host
    BY <1>2, <1>10 DEF InstallObject, Alive
  <2>2. Latest(c)' = Latest(c) /\ Latest(c) = Args(o) /\ o # None
    BY <1>3, <1>10, <2>1 DEF Args, Alive
  <2>3. reruns'[c] <= reruns[c] + 1 /\ reruns'[c] \in Nat
    BY <1>10, <1>t, CountBounds DEF Counted
  <2> QED BY <1>4, <1>10, <1>t, <2>2, <2>3 DEF o
<1> QED BY <1>1, <1>5, <1>6, <1>7, <1>8, <1>9, <1>10 DEF InstallMoves, Alive

\* Every step keeps the order of the versions.
LEMMA VersionsKept ==
  ASSUME TypeOK, TypeOK', MachineCopy, CopyIsCurrent, ExistsWasBorn, CacheIsCurrent,
         InSync(mach), NotStarted, Next, NEW c \in Configs, VersionsKnown(c)
  PROVE  VersionsKnown(c)'
<1> DEFINE l == Latest(c)
           m == Latest(c)'
<1>g. edits' >= edits /\ blips' >= blips /\ edits \in Nat /\ blips \in Nat
      /\ edits' \in Nat /\ blips' \in Nat
  BY UpsetsGrow DEF TypeOK
<1>c. /\ Cur(cfg[c]) # None => Cur(cfg[c]).flake \in Nat
      /\ Cur(mach) # None => Cur(mach).host \in Nat
      /\ ctl.c = c => ctl.obj.flake \in Nat /\ ctl.host \in Nat
  <2>1. ctl.c = c => ctl \in Busy
    BY ConfigsAreNames DEF TypeOK, Idle
  <2> QED BY <2>1, Versions, MachineVersion DEF ConfigObject, MachineObject, Busy
<1>s. /\ born[c] # 0 => born'[c] # 0
      /\ Cur(cfg'[c]) # None
           => \/ born[c] = 0 /\ Cur(cfg'[c]).flake = 0
              \/ /\ Cur(cfg[c]) # None
                 /\ \/ Cur(cfg'[c]).flake = Cur(cfg[c]).flake
                    \/ Cur(cfg'[c]).flake = Cur(cfg[c]).flake + 1 /\ edits' = edits + 1
  BY StoredGrows
<1>m. Cur(mach') # None
        => /\ Cur(mach) # None
           /\ \/ Cur(mach').host = Cur(mach).host
              \/ Cur(mach').host = Cur(mach).host + 1 /\ blips' = blips + 1
  BY MachineGrows
<1>l. /\ l.flake \in Nat /\ l.host \in Nat /\ ran[c].flake \in Nat /\ ran[c].host \in Nat
      /\ reruns[c] \in Nat
      /\ born[c] = 0 => l = ran[c] /\ l.flake = 0 /\ l.host = 0 /\ Cur(inst[c]) = None
                        /\ reruns[c] = 0 /\ ctl.c # c
  <2>1. l \in [flake : Nat, host : Nat] /\ ran[c] \in [flake : Nat, host : Nat]
        /\ reruns[c] \in Nat
    BY LatestMoves
  <2>2. born[c] = 0 => l = ran[c] /\ l.flake = 0 /\ l.host = 0 /\ Cur(inst[c]) = None
                       /\ reruns[c] = 0 /\ ctl.c # c
    BY DEF NotStarted, Latest, VersionsKnown
  <2> HIDE DEF l
  <2> QED BY <2>1, <2>2
<1>k. VersionsKnown(c)
  OBVIOUS
<1>v. MovingRef' = MovingRef
  BY SettingStays DEF MovingRef
\* The latest arguments: no smaller than the last run's, no larger than what is stored.
<1>1. /\ ran'[c].flake <= m.flake /\ ran'[c].host <= m.host
      /\ m.flake \in Nat /\ m.host \in Nat /\ ran'[c].flake \in Nat /\ ran'[c].host \in Nat
      /\ m.flake <= edits /\ m.host <= blips
      /\ Cur(cfg[c]) # None => m.flake <= Cur(cfg[c]).flake
      /\ Cur(mach) # None => m.host <= Cur(mach).host
      /\ ~MovingRef => reruns'[c] <= ran'[c].flake + ran'[c].host
      /\ \/ m.flake <= l.flake /\ m.host <= l.host
         \/ Pass /\ ctl.c = c /\ ctl.pc = "install"
      /\ born[c] = 0 => m.flake = 0 /\ m.host = 0
  <2>1. CASE m = l /\ ran'[c] = ran[c] /\ reruns'[c] = reruns[c]
    BY <1>l, <1>k, <2>1 DEF VersionsKnown
  <2>2. CASE /\ Pass /\ ctl.c = c /\ ctl.pc = "install" /\ reruns'[c] = reruns[c]
             /\ m = [flake |-> ctl.obj.flake, host |-> ctl.host]
             /\ ran'[c] = ran[c] \/ ran'[c] = m
    <3>1. m.flake = ctl.obj.flake /\ m.host = ctl.host
      BY <2>2
    <3>2. /\ l.flake <= m.flake /\ l.host <= m.host /\ m.flake \in Nat /\ m.host \in Nat
          /\ m.flake <= edits /\ m.host <= blips
          /\ Cur(cfg[c]) # None => m.flake <= Cur(cfg[c]).flake
          /\ Cur(mach) # None => m.host <= Cur(mach).host
          /\ born[c] # 0
      BY <1>c, <1>k, <2>2, <3>1 DEF VersionsKnown, Early
    <3>3. ran[c].flake <= l.flake /\ ran[c].host <= l.host
          /\ (~MovingRef => reruns[c] <= ran[c].flake + ran[c].host)
      BY <1>k DEF VersionsKnown
    <3> HIDE DEF l, m
    <3> QED BY <1>l, <2>2, <3>2, <3>3
  <2>3. CASE Cur(inst[c]) # None /\ reruns'[c] = reruns[c] /\ m = ran[c] /\ ran'[c] = ran[c]
    BY <1>c, <1>g, <1>l, <1>k, <2>3 DEF VersionsKnown
  <2>4. CASE /\ Cur(inst[c]) # None /\ m = l /\ ran'[c] = l /\ (ran[c] # l \/ MovingRef)
             /\ reruns'[c] <= reruns[c] + 1 /\ reruns'[c] \in Nat
    <3>1. l \in [flake : Nat, host : Nat] /\ ran[c] \in [flake : Nat, host : Nat]
      BY LatestMoves
    <3>2. ran[c].flake <= l.flake /\ ran[c].host <= l.host
          /\ (~MovingRef => reruns[c] <= ran[c].flake + ran[c].host)
      BY <1>k DEF VersionsKnown
    <3>4. ~MovingRef => ran[c].flake # l.flake \/ ran[c].host # l.host
      BY <2>4, <3>1
    <3>5. ~MovingRef => reruns'[c] <= l.flake + l.host
      <4> HIDE DEF l
      <4> QED BY <1>l, <2>4, <3>2, <3>4
    <3> QED BY <1>l, <1>k, <2>4, <3>5 DEF VersionsKnown
  <2> QED BY <2>1, <2>2, <2>3, <2>4, LatestMoves
<1> HIDE DEF m
<1>2. /\ m.flake <= edits' /\ m.host <= blips'
      /\ Cur(cfg'[c]) # None => m.flake <= Cur(cfg'[c]).flake /\ Cur(cfg'[c]).flake <= edits'
      /\ Cur(mach') # None => m.host <= Cur(mach').host /\ Cur(mach').host <= blips'
  BY <1>1, <1>c, <1>g, <1>k, <1>m, <1>s DEF VersionsKnown
<1>3. ctl'.c = c => born'[c] # 0
  BY <1>k, <1>s, PassReads DEF VersionsKnown, ExistsWasBorn
<1>4. ASSUME ctl'.c = c, ctl'.pc \in Early
      PROVE  /\ m.flake <= ctl'.obj.flake /\ ctl'.obj.flake <= edits'
             /\ Cur(cfg'[c]) # None => ctl'.obj.flake <= Cur(cfg'[c]).flake
  <2>1. CASE /\ ctl.c = c /\ ctl.pc \in Early /\ ctl'.obj.flake = ctl.obj.flake
             /\ Pass => ctl.pc # "install"
    <3>1. m.flake <= l.flake
      BY <1>1, <2>1
    <3>2. /\ l.flake <= ctl.obj.flake /\ ctl.obj.flake <= edits /\ born[c] # 0
          /\ Cur(cfg[c]) # None => ctl.obj.flake <= Cur(cfg[c]).flake
      BY <1>k, <2>1 DEF VersionsKnown
    <3> HIDE DEF l
    <3> QED BY <1>1, <1>c, <1>g, <1>l, <1>s, <2>1, <3>1, <3>2
  <2>2. CASE /\ Cur(cfg[c]) # None /\ ctl'.obj.flake = Cur(cfg[c]).flake
             /\ UNCHANGED <<cfg, edits>>
    BY <1>1, <1>c, <1>k, <2>2 DEF VersionsKnown
  <2> QED BY <1>4, <2>1, <2>2, PassReads
<1>5. ASSUME ctl'.c = c, ctl'.pc = "install"
      PROVE  /\ m.host <= ctl'.host /\ ctl'.host <= blips'
             /\ Cur(mach') # None => ctl'.host <= Cur(mach').host
  <2>0. ctl.c = c /\ (Pass => ctl.pc # "install")
    BY <1>5, PassReads DEF Early
  <2>1. CASE ctl.pc = "install" /\ ctl'.host = ctl.host
    <3>1. m.host <= l.host
      BY <1>1, <2>0, <2>1
    <3>2. /\ l.host <= ctl.host /\ ctl.host <= blips
          /\ Cur(mach) # None => ctl.host <= Cur(mach).host
      BY <1>k, <2>0, <2>1 DEF VersionsKnown
    <3> HIDE DEF l
    <3> QED BY <1>1, <1>c, <1>g, <1>l, <1>m, <2>0, <2>1, <3>1, <3>2
  <2>2. CASE Cur(mach) # None /\ ctl'.host = Cur(mach).host /\ UNCHANGED <<mach, blips>>
    BY <1>1, <1>c, <1>k, <2>2 DEF VersionsKnown
  <2> QED BY <1>5, <2>0, <2>1, <2>2, PassReads
<1> QED BY <1>1, <1>2, <1>3, <1>4, <1>5, <1>v DEF VersionsKnown, m

CountsInv ==
  /\ StoredCounts /\ CopyCounts /\ NotStarted
  /\ \A c \in Configs : Paid(c)
  /\ RunsBounded
  /\ InSync(mach) /\ MachineStaysGone
  /\ \A c \in Configs : VersionsKnown(c)

\* An install child is created once, and again for each of MaxInstallRetries retries, and
\* once more only for a failed or unanswered call, a restart or an edit.  With a commit as
\* ref, the children start further runs of nixos-anywhere only for an edit of the
\* configuration or a change of the Machine, and at most one for each.  This is so however
\* these, the runs and the caches of the children interleave.
THEOREM InstallRunsAreBounded ==
  SettledReads /\ MachineReadsSettled => (Spec => []InstallRunsBounded)
<1> SUFFICES ASSUME SettledReads, MachineReadsSettled PROVE Spec => []InstallRunsBounded
  OBVIOUS
<1>1. Init => CountsInv
  <2> SUFFICES ASSUME Init PROVE CountsInv
    OBVIOUS
  <2>m. mach = <<[disc |-> TRUE, key |-> TRUE, host |-> 0, ac |-> None]>>
    BY DEF Init
  <2>1. Cur(mach).host = 0 /\ InSync(mach)
    BY <2>m DEF Cur, InSync
  <2>n. MachineStaysGone
    <3>1. [disc |-> TRUE, key |-> TRUE, host |-> 0, ac |-> None] \in MachineObject
      BY DEF MachineObject
    <3> QED BY <2>m, <3>1, LogOfOne DEF MachineStaysGone
  <2>2. \A c \in Configs : Cur(cfg[c]) = None /\ Cur(inst[c]) = None
    BY DEF Init, Cur
  <2>3. ctl.pc = "idle" /\ ctl.c = None
    BY DEF Init, Idle
  <2>4. /\ edits = 0 /\ blips = 0 /\ faults = 0
        /\ \A c \in Configs : /\ runs[c] = 0 /\ reruns[c] = 0
                              /\ ran[c] = [flake |-> 0, host |-> 0]
    BY DEF Init
  <2>5. \A c \in Configs : Latest(c) = [flake |-> 0, host |-> 0]
    BY <2>2, <2>4 DEF Latest
  <2>6. \A c \in Configs : VersionsKnown(c)
    BY <2>1, <2>2, <2>3, <2>4, <2>5, ConfigsAreNames DEF VersionsKnown
  <2>7. StoredCounts /\ CopyCounts /\ NotStarted /\ RunsBounded
    BY <2>2, <2>3, <2>4, RetryCaps DEF StoredCounts, CopyCounts, NotStarted, RunsBounded
  <2>8. \A c \in Configs : Paid(c)
    BY <2>2 DEF Paid, CanInstall
  <2> QED BY <2>1, <2>n, <2>6, <2>7, <2>8 DEF CountsInv
<1>2. ASSUME TypeOK, TypeOK', MachineCopy, CopyIsCurrent, ExistsWasBorn, InstallInv,
             RemovalKnows, CountsInv, [Next]_vars
      PROVE  CountsInv'
  <2>1. CASE Next
    <3>1. InSync(mach)' /\ MachineStaysGone'
      <4>1. Lag.machine = 0
        BY <1>2 DEF MachineReadsSettled, TypeOK, Lag
      <4>2. InSync(mach') /\ MachineStaysGone'
        BY <1>2, <2>1, <4>1, MachineStaysGoneKept DEF CountsInv
      <4> QED BY <4>2
    <3>2. StoredCounts' /\ CopyCounts'
      BY <1>2, <2>1, CountsKept DEF CountsInv, InstallInv
    <3>3. NotStarted'
      BY <1>2, <2>1, NotStartedKept DEF CountsInv, InstallInv
    <3>4. RunsBounded'
      BY <1>2, <2>1, BoundKept DEF CountsInv, InstallInv
    <3>5. ASSUME NEW c \in Configs PROVE Paid(c)'
      <4>1. CASE Step /\ c # me
        BY <1>2, <2>1, <4>1, PaidByOther DEF CountsInv
      <4>2. CASE Step /\ c = me
        BY <1>2, <2>1, <4>2, PaidByPass DEF CountsInv, InstallInv
      <4>3. CASE \E d \in Configs : Reconcile(d)
        BY <1>2, <4>3, PaidByReconcile DEF CountsInv, InstallInv
      <4>4. CASE \E d \in Configs : User(d)
        BY <1>2, <4>4, PaidByUser DEF CountsInv, InstallInv
      <4>5. CASE AnswerLost
        BY <1>2, <2>1, <4>5, PaidByAnswer DEF CountsInv
      <4>6. CASE /\ ~Pass /\ ~(\E d \in Configs : Reconcile(d))
                 /\ ~(\E d \in Configs : User(d))
        BY <1>2, <2>1, <4>6, PaidByOthers DEF CountsInv
      <4> QED BY <4>1, <4>2, <4>3, <4>4, <4>5, <4>6 DEF Pass
    <3>6. ASSUME NEW c \in Configs PROVE VersionsKnown(c)'
      BY <1>2, <2>1, VersionsKept DEF CountsInv, InstallInv
    <3> QED BY <3>1, <3>2, <3>3, <3>4, <3>5, <3>6 DEF CountsInv
  <2>2. CASE UNCHANGED vars
    BY <1>2, <2>2 DEF vars, CountsInv, StoredCounts, CopyCounts, NotStarted, Paid, CanInstall,
         Open, Vacant, Outdated, Level, RunsBounded, VersionsKnown, Latest, MovingRef,
         MachineStaysGone, me
  <2> QED BY <1>2, <2>1, <2>2
<1>3. TypeOK /\ CountsInv => InstallRunsBounded
  <2> SUFFICES ASSUME TypeOK, CountsInv, NEW c \in Configs
               PROVE  /\ runs[c] <= 1 + MaxInstallRetries + faults + edits
                      /\ ~MovingRef => reruns[c] <= edits + blips
    BY DEF InstallRunsBounded
  <2>1. runs[c] <= 1 + MaxInstallRetries + faults + edits
    BY DEF CountsInv, RunsBounded
  <2>2. VersionsKnown(c)
    BY DEF CountsInv
  <2>3. Latest(c) \in [flake : Nat, host : Nat] /\ ran[c] \in [flake : Nat, host : Nat]
        /\ reruns[c] \in Nat /\ edits \in Nat /\ blips \in Nat
    BY LatestTyped DEF TypeOK
  <2>4. ran[c].flake <= edits /\ ran[c].host <= blips /\ ran[c].flake \in Nat
        /\ ran[c].host \in Nat
    BY <2>2, <2>3 DEF VersionsKnown
  <2> QED BY <2>1, <2>2, <2>3, <2>4 DEF VersionsKnown
<1> QED BY <1>1, <1>2, <1>3, StoredInvariant, InstallInvariant, RemovalInvariant, PTL DEF Spec

-----------------------------------------------------------------------------
(***************************************************************************)
(* The retries of a removal, where the informer of the NixJobs is not      *)
(* behind.                                                                 *)
(***************************************************************************)

\* A failed decommission job that nobody deleted.
Failing(c) == Cur(dec[c]) # None /\ NewFailure(Cur(dec[c]))

\* What a step may do to the counts of decommission jobs created and failed.
TryMoves(c) ==
  \/ rmTries'[c] = rmTries[c]
  \/ /\ CreateDecommission \/ (AnswerLost /\ DecommissionAnswerLost)
     /\ c = me /\ Cur(dec[c]) = None
     /\ Cur(dec'[c]) = NewDecommission /\ rmTries'[c] = Counted(rmTries[c])

FailMoves(c) ==
  \/ rmFails'[c] = rmFails[c] /\ (Failing(c)' => Failing(c))
  \/ DecommissionEnds(c) /\ rmFails'[c] = rmFails[c] + 1 /\ ~Failing(c)

\* The two deletions of the decommission job mark it, or find it gone.
LEMMA DecommissionDeleted ==
  ASSUME TypeOK, DeleteFailedDecommission \/ DeleteDecommissionJob
  PROVE  Cur(dec'[me]) = None \/ Cur(dec'[me]).del
<1>1. me \in Configs /\ dec' = [dec EXCEPT ![me] = Deleted(Lag.job, dec[me])]
  BY BusyHere DEF DeleteFailedDecommission, DeleteDecommissionJob, At
<1>2. dec'[me] = Deleted(Lag.job, dec[me])
  BY <1>1 DEF TypeOK
<1>3. CASE Cur(dec[me]) = None
  BY <1>2, <1>3 DEF Deleted
<1>4. CASE Cur(dec[me]) # None
  <2> DEFINE v == [Cur(dec[me]) EXCEPT !.del = TRUE]
  <2>1. Cur(dec[me]) \in NixJobObject
    BY <1>1, <1>4, Versions
  <2>2. v \in NixJobObject /\ v.del
    BY <2>1 DEF NixJobObject
  <2>3. dec' = [dec EXCEPT ![me] = Put(Lag.job, dec[me], v)]
    BY <1>1, <1>4 DEF Deleted
  <2> HIDE DEF v
  <2>4. Cur(dec'[me]) = v
    BY <1>1, <2>2, <2>3, DecommissionPut
  <2> QED BY <2>2, <2>4
<1> QED BY <1>3, <1>4

\* A try is a job created, a failure an active job that failed.
LEMMA TrySteps ==
  ASSUME TypeOK, Next, NEW c \in Configs
  PROVE  TryMoves(c) /\ FailMoves(c)
<1>n. None \notin NixJobObject /\ NewDecommission \in NixJobObject
  BY NoneIsNoObject DEF NewDecommission, NixJobObject, Reports
<1>1. ASSUME UNCHANGED <<rmTries, rmFails>>, Cur(dec'[c]) = Cur(dec[c])
      PROVE  TryMoves(c) /\ FailMoves(c)
  BY <1>1 DEF TryMoves, FailMoves, Failing
<1>2. CASE CreateDecommission \/ (AnswerLost /\ DecommissionAnswerLost)
  <2>1. me \in Configs /\ UNCHANGED rmFails
    BY <1>2, BusyHere DEF CreateDecommission, DecommissionAnswerLost, DecommissionCreated, At
  <2>2. CASE UNCHANGED <<dec, rmTries>>
    BY <1>1, <2>1, <2>2
  <2>3. CASE /\ Cur(dec[me]) = None
             /\ dec' = [dec EXCEPT ![me] = Put(Lag.job, dec[me], NewDecommission)]
             /\ rmTries' = [rmTries EXCEPT ![me] = Counted(rmTries[me])]
    <3>1. /\ Cur(dec'[me]) = NewDecommission
          /\ \A d \in Configs : d # me => dec'[d] = dec[d] /\ rmTries'[d] = rmTries[d]
          /\ rmTries'[me] = Counted(rmTries[me])
      BY <1>n, <2>1, <2>3, DecommissionPut DEF TypeOK
    <3>2. CASE c = me
      BY <1>2, <2>1, <2>3, <3>1, <3>2 DEF TryMoves, FailMoves, Failing, NewFailure, NewDecommission
    <3>3. CASE c # me
      BY <2>1, <3>1, <3>3 DEF TryMoves, FailMoves, Failing
    <3> QED BY <3>2, <3>3
  <2> QED BY <1>2, <2>2, <2>3 DEF CreateDecommission, DecommissionAnswerLost, DecommissionCreated
<1>l. ASSUME NEW d \in Configs, DecommissionSucceedsLate(d) PROVE TryMoves(c) /\ FailMoves(c)
  <2>1. /\ Cur(dec[d]) \in NixJobObject /\ UNCHANGED <<rmTries, rmFails>>
        /\ dec' = [dec EXCEPT ![d] = Put(Lag.job, dec[d], [Cur(dec[d]) EXCEPT !.st = "succeeded"])]
    BY <1>l, Versions DEF DecommissionSucceedsLate, history
  <2> DEFINE v == [Cur(dec[d]) EXCEPT !.st = "succeeded"]
  <2>2. v \in NixJobObject /\ v.st = "succeeded"
        /\ dec' = [dec EXCEPT ![d] = Put(Lag.job, dec[d], v)]
    BY <2>1 DEF NixJobObject, Reports
  <2> HIDE DEF v
  <2>3. Cur(dec'[d]) = v /\ \A e \in Configs : e # d => dec'[e] = dec[e]
    BY <2>2, DecommissionPut
  <2> QED BY <2>1, <2>2, <2>3 DEF TryMoves, FailMoves, Failing, NewFailure
<1>3. ASSUME NEW d \in Configs, DecommissionEnds(d) PROVE TryMoves(c) /\ FailMoves(c)
  <2>1. /\ Cur(dec[d]) \in NixJobObject /\ Cur(dec[d]) # None /\ ~Cur(dec[d]).del
        /\ UNCHANGED rmTries
    BY <1>3, Versions DEF DecommissionEnds
  <2>2. PICK s \in {"failed", "succeeded"} :
          /\ Cur(dec[d]).st = "active"
          /\ dec' = [dec EXCEPT ![d] = Put(Lag.job, dec[d], [Cur(dec[d]) EXCEPT !.st = s])]
          /\ rmFails' = [rmFails EXCEPT ![d] = IF s = "failed" THEN rmFails[d] + 1 ELSE rmFails[d]]
    BY <1>3 DEF DecommissionEnds
  <2> DEFINE v == [Cur(dec[d]) EXCEPT !.st = s]
  <2>3. v \in NixJobObject /\ v.st = s
    BY <2>1, <2>2 DEF NixJobObject, Reports
  <2>4. dec' = [dec EXCEPT ![d] = Put(Lag.job, dec[d], v)]
    BY <2>2
  <2> HIDE DEF v
  <2>5. Cur(dec'[d]) = v /\ \A e \in Configs : e # d => dec'[e] = dec[e]
    BY <2>3, <2>4, DecommissionPut
  <2>6. /\ rmFails'[d] = IF s = "failed" THEN rmFails[d] + 1 ELSE rmFails[d]
        /\ \A e \in Configs : e # d => rmFails'[e] = rmFails[e]
    BY <2>2 DEF TypeOK
  <2>7. CASE c = d
    BY <1>3, <2>1, <2>2, <2>3, <2>5, <2>6, <2>7 DEF TryMoves, FailMoves, Failing, NewFailure
  <2>8. CASE c # d
    BY <2>1, <2>5, <2>6, <2>8 DEF TryMoves, FailMoves, Failing
  <2> QED BY <2>7, <2>8
<1>4. ASSUME NEW d \in Configs, DecommissionReruns(d) PROVE TryMoves(c) /\ FailMoves(c)
  <2>1. /\ Cur(dec[d]) \in NixJobObject /\ UNCHANGED <<rmTries, rmFails>>
        /\ dec' = [dec EXCEPT ![d] = Put(Lag.job, dec[d], [Cur(dec[d]) EXCEPT !.st = "active"])]
    BY <1>4, Versions DEF DecommissionReruns, history
  <2> DEFINE v == [Cur(dec[d]) EXCEPT !.st = "active"]
  <2>2. v \in NixJobObject /\ v.st = "active" /\ dec' = [dec EXCEPT ![d] = Put(Lag.job, dec[d], v)]
    BY <2>1 DEF NixJobObject, Reports
  <2> HIDE DEF v
  <2>3. Cur(dec'[d]) = v /\ \A e \in Configs : e # d => dec'[e] = dec[e]
    BY <2>2, DecommissionPut
  <2> QED BY <2>1, <2>2, <2>3 DEF TryMoves, FailMoves, Failing, NewFailure
<1>5. ASSUME ~CreateDecommission, ~(AnswerLost /\ DecommissionAnswerLost),
             ~\E d \in Configs : DecommissionEnds(d)
      PROVE  UNCHANGED <<rmTries, rmFails>>
  <2>1. CASE Step
    BY <1>5, <2>1, Zenon DEF Step, AddFinalizer, DropOnConflict, StatusUpdate,
          WithStatus, Blocked,
         SuspendDayTwo, PassGates, CreateInstall, InstallCreated, InstallConflict,
               InstallSucceeded, InstallChild,
         InstallWait, InstallExhausted, InstallRetry, DeleteFailedInstall,
         MarkFullDiskInstallCompleted, RewriteFails, DeleteDoneInstall, CreateDayTwo,
               DayTwoCreated,
         DayTwoConflict, ObserveDayTwo, DayTwoResumed, WriteBackMachineStatus,
               DeleteDayTwo, Decommission,
         ClearMachineStatus, BumpOnRemoveRetries, DeleteFailedDecommission,
         DeleteDecommissionJob, Finalize, history
  <2>2. CASE ApiError \/ Crash \/ MachineChanges \/ DeliverMachine
    BY <2>2 DEF ApiError, Crash, MachineChanges, DeliverMachine, history
  <2>3. ASSUME NEW d \in Configs, User(d) PROVE UNCHANGED <<rmTries, rmFails>>
    BY <2>3, UsersCount
  <2>4. ASSUME NEW d \in Configs, Reconcile(d) \/ Workloads(d) \/ Watch(d)
        PROVE  UNCHANGED <<rmTries, rmFails>>
    BY <1>5, <2>4, Zenon DEF Reconcile, Workloads, Watch, InstallEnds,
          InstallSucceedsLate, InstallReruns, DecommissionSucceedsLate,
         DecommissionReruns, DayTwoOutcome, ReleaseChild, GarbageCollect, DeliverConfig,
         DeliverInstall, DeliverDecommission, DeliverDayTwo, history
  <2>5. CASE AnswerLost
    BY <1>5, <2>5, Zenon DEF AnswerLost, InstallAnswerLost, MarkAnswerLost, DayTwoAnswerLost,
         history
  <2> QED BY <2>1, <2>2, <2>3, <2>4, <2>5 DEF Next
<1>6. CASE /\ ~CreateDecommission /\ ~(AnswerLost /\ DecommissionAnswerLost)
           /\ ~(\E d \in Configs : DecommissionEnds(d))
           /\ ~(\E d \in Configs : DecommissionSucceedsLate(d))
           /\ ~(\E d \in Configs : DecommissionReruns(d))
  <2>1. UNCHANGED <<rmTries, rmFails>>
    BY <1>5, <1>6
  <2>2. Failing(c)' => Failing(c)
    <3>1. CASE Cur(dec'[c]) = Cur(dec[c])
      BY <3>1 DEF Failing
    <3>2. CASE Cur(dec'[c]) = None
      BY <3>2 DEF Failing
    <3>3. CASE (DeleteFailedDecommission \/ DeleteDecommissionJob) /\ c = me
      BY <3>3, DecommissionDeleted DEF Failing, NewFailure
    <3> QED BY <1>6, <3>1, <3>2, <3>3, DecommissionSteps DEF DecommissionMoves
  <2> QED BY <2>1, <2>2 DEF TryMoves, FailMoves
<1> QED BY <1>2, <1>l, <1>3, <1>4, <1>6

\* The retries stored for c; none once it is gone.
Rm(c) == IF Cur(cfg[c]) = None THEN 0 ELSE Cur(cfg[c]).rmRetries

\* A failure that is not counted yet, or that a pass is about to count.
Pending(c) ==
  \/ ctl.c = c /\ ctl.pc = "bump"
  \/ Failing(c) /\ ~(ctl.c = c /\ ctl.pc = "delFailed")

Due(c) == Rm(c) + N(Pending(c)) <= rmFails[c] + faults

\* A copy that can be written back carries the stored count.
CopyRetries == ctl.pc # "idle" /\ ctl.fresh => ctl.obj.rmRetries = Cur(cfg[me]).rmRetries

\* No write puts back an older count of retries.
LEMMA CopyRetriesKept ==
  ASSUME TypeOK, TypeOK', CopyIsCurrent, ExistsWasBorn, CopyRetries, Next
  PROVE  CopyRetries'
<1>o. ctl.pc # "idle" => me \in Configs
  BY BusyHere DEF At
<1>i. ctl' = Idle => CopyRetries'
  BY DEF CopyRetries, Idle
<1>1. CASE Step
  <2>b. ctl \in Busy /\ me \in Configs /\ ctl.pc # "idle"
    BY <1>1, StepIsBusy, BusyHere DEF At, Pass
  <2>1. CASE /\ cfg' = cfg /\ ctl'.c = ctl.c /\ ctl'.fresh = ctl.fresh
             /\ ctl'.obj.rmRetries = ctl.obj.rmRetries
    BY <2>1, <2>b DEF CopyRetries, me
  <2>2. CASE StepWrite
    <3>1. PICK n \in ConfigObject \cup {None} : Cur(cfg'[me]) = n /\ WriteCounts(n)
      BY <2>2, WritesCount
    <3>2. CASE ctl' # Idle
      <4>1. ctl'.c = ctl.c /\ ctl'.obj.rmRetries = n.rmRetries
        BY <3>1, <3>2 DEF WriteCounts
      <4> QED BY <3>1, <4>1 DEF CopyRetries, me
    <3> QED BY <1>i, <3>2
  <2>3. CASE InstallRetry
    <3>1. /\ ctl'.c = ctl.c /\ ctl'.fresh = ctl.fresh /\ cfg' = cfg
          /\ ctl'.obj.rmRetries = ctl.obj.rmRetries
      BY <2>3, <2>b DEF InstallRetry, InstallChild, Busy, ConfigObject
    <3> QED BY <2>1, <3>1
  <2> QED BY <1>1, <1>i, <2>1, <2>2, <2>3, UncountedSteps DEF Uncounted
<1>a. CASE AnswerLost
  BY <1>a, LostAnswers DEF CopyRetries, me, Busy
<1>2. ASSUME NEW c \in Configs, Reconcile(c) PROVE CopyRetries'
  <2>1. InSync(cfg[c]) => Seen(cfg[c]) = Cur(cfg[c])
    BY LogVersions DEF TypeOK
  <2>2. cfg' = cfg /\ ctl'.c = c /\ ctl'.obj = Seen(cfg[c]) /\ ctl'.fresh = InSync(cfg[c])
    BY <1>2 DEF Reconcile
  <2> QED BY <2>1, <2>2 DEF CopyRetries, me
<1>3. ASSUME NEW c \in Configs, User(c) PROVE CopyRetries'
  <2>1. \A d \in Configs : d # c => cfg'[d] = cfg[d]
    BY <1>3, UsersCount
  <2>2. ctl' = IF ctl.c = c THEN [ctl EXCEPT !.fresh = FALSE] ELSE ctl
    BY <1>3, UsersCount
  <2>3. CASE ctl.c = c
    <3>1. ~ctl'.fresh
      BY <2>2, <2>3 DEF TypeOK, Busy, Idle
    <3> QED BY <3>1 DEF CopyRetries
  <2>4. CASE ctl.c # c
    <3>1. ctl' = ctl /\ (ctl.pc # "idle" => Cur(cfg'[me]) = Cur(cfg[me]))
      BY <1>o, <2>1, <2>2, <2>4 DEF me
    <3> QED BY <3>1 DEF CopyRetries, me
  <2> QED BY <2>3, <2>4
<1>4. CASE ~Pass /\ ~(\E c \in Configs : Reconcile(c)) /\ ~(\E c \in Configs : User(c))
  <2>1. \A c \in Configs : Cur(cfg'[c]) = Cur(cfg[c])
    BY <1>4, OthersCount
  <2>2. CASE ctl'.pc = "idle"
    BY <2>2 DEF CopyRetries
  <2>3. CASE ctl'.pc # "idle"
    <3>1. OthersLeave
      BY <1>4, OthersMovePass
    <3>2. ctl \in Busy /\ ctl'.c = ctl.c /\ ctl'.obj = ctl.obj /\ (ctl'.fresh => ctl.fresh)
      BY <2>3, <3>1, OthersKeepPass
    <3>3. ctl.pc # "idle" /\ me \in Configs
      BY <3>2 DEF Busy, me
    <3> QED BY <2>1, <3>2, <3>3 DEF CopyRetries, me
  <2> QED BY <2>2, <2>3
<1> QED BY <1>1, <1>a, <1>2, <1>3, <1>4 DEF Pass

\* Whoever is about to count a failure has read one.
LEMMA BumpReadsFailure ==
  ASSUME TypeOK, JobReadsCurrent, Step, ctl'.pc = "bump"
  PROVE  ctl.pc = "decommission" /\ ctl'.c = ctl.c /\ Failing(me) /\ UNCHANGED dec
<1>b. ctl \in Busy /\ me \in Configs /\ ctl.obj \in ConfigObject
  BY StepIsBusy, BusyHere DEF Pass
<1>a. ~DecommissionAnswerLost
  <2>1. DecommissionAnswerLost => ctl' = [[ctl EXCEPT !.pc = "finalize"] EXCEPT !.lost = TRUE]
    BY DEF DecommissionAnswerLost, DecommissionCreated, AfterError, At
  <2> QED BY <1>b, <2>1 DEF Busy
<1>1. /\ ctl'.c = ctl.c
      /\ \/ DeleteDayTwo \/ Decommission \/ CreateDecommission \/ ClearMachineStatus
         \/ BumpOnRemoveRetries \/ DeleteFailedDecommission \/ DeleteDecommissionJob
  BY <1>a, RemovalSteps DEF RemovalPCs, Pass
<1>2. CASE DeleteDayTwo \/ ClearMachineStatus \/ DeleteFailedDecommission \/ DeleteDecommissionJob
  <2>1. ctl' = Idle \/ \E p \in PCs \ {"bump"} : Goto(p)
    BY <1>2 DEF DeleteDayTwo, ClearMachineStatus, DeleteFailedDecommission,
         DeleteDecommissionJob, AfterStamp, PCs
  <2> QED BY <1>b, <2>1 DEF Goto, Busy, Idle
<1>3. CASE CreateDecommission
  <2>1. \/ Goto("finalize")
        \/ ctl' = [ctl EXCEPT !.pc = "rmStatus", !.obj.phase = "Removing"]
    BY <1>3 DEF CreateDecommission, DecommissionCreated
  <2> QED BY <1>b, <2>1 DEF Goto, Busy
<1>4. CASE BumpOnRemoveRetries
  BY <1>b, <1>4 DEF BumpOnRemoveRetries, Rewrite, Rewritten, Completed, Bumped,
        WithStatus, Busy
<1>5. CASE Decommission
  <2>1. ctl.pc = "decommission" /\ UNCHANGED dec /\ Seen(dec[me]) # None /\ NewFailure(Seen(dec[me]))
    BY <1>5, DecommissionDecides DEF AfterStamp
  <2>2. Seen(dec[me]) = Cur(dec[me])
    BY <1>b, LogVersions DEF TypeOK, JobReadsCurrent
  <2> QED BY <1>1, <2>1, <2>2 DEF Failing
<1> QED BY <1>1, <1>2, <1>3, <1>4, <1>5

\* Every step but a fault keeps what is counted and pending within the failures.
LEMMA DueKept ==
  ASSUME TypeOK, TypeOK', CopyIsCurrent, ExistsWasBorn, JobReadsCurrent, CopyRetries, Next,
         NEW c \in Configs, Due(c)
  PROVE  Due(c)'
<1>t. /\ rmFails[c] \in Nat /\ faults \in Nat /\ Rm(c) \in Nat
  BY Versions DEF TypeOK, Rm, ConfigObject
<1>m. FailMoves(c)
  BY TrySteps
<1>f. rmFails'[c] \in Nat /\ rmFails'[c] >= rmFails[c]
  BY <1>m, <1>t DEF FailMoves
<1>d. Rm(c) + N(Pending(c)) <= rmFails[c] + faults
  BY DEF Due
<1>q. ASSUME Rm(c)' <= Rm(c), Rm(c)' \in Nat, Pending(c)' => Pending(c), faults' = faults
      PROVE  Due(c)'
  BY <1>q, <1>t, <1>f, <1>d DEF Due, N
<1>0. CASE DecommissionEnds(c) /\ rmFails'[c] = rmFails[c] + 1
  <2>1. UNCHANGED <<cfg, faults>>
    BY <1>0 DEF DecommissionEnds, budgets
  <2>2. Rm(c)' = Rm(c)
    BY <2>1 DEF Rm
  <2> QED BY <1>0, <1>d, <1>t, <2>1, <2>2 DEF Due, N
<1>x. CASE rmFails'[c] = rmFails[c] /\ (Failing(c)' => Failing(c))
  <2>1. CASE Step
    <3>b. ctl \in Busy /\ me \in Configs /\ ctl.pc # "idle" /\ ctl.obj \in ConfigObject
      BY <2>1, StepIsBusy, BusyHere DEF At, Pass
    <3>u. ASSUME InstallRetry
          PROVE  UNCHANGED <<cfg, faults>> /\ ctl'.c = ctl.c
      BY <3>b, <3>u DEF InstallRetry, InstallChild, budgets, Busy
    <3>c. ctl' = Idle \/ ctl'.c = ctl.c
      <4>1. StepWrite => ctl' = Idle \/ ctl'.c = ctl.c
        BY WritesCount DEF WriteCounts
      <4> QED BY <2>1, <3>u, <4>1, UncountedSteps DEF Uncounted
    <3>f. faults' = faults /\ (c # me => cfg'[c] = cfg[c])
      BY <2>1, <3>u, UncountedSteps, WritesCount DEF Uncounted
    <3>i. ctl'.c = c => ctl' # Idle
      BY ConfigsAreNames DEF Idle
    <3>1. CASE c # me
      <4>1. ctl'.c # c /\ ctl.c # c
        BY <3>1, <3>c, <3>i DEF me
      <4>2. Pending(c)' => Pending(c)
        BY <1>x, <4>1 DEF Pending
      <4>3. Rm(c)' = Rm(c)
        BY <3>1, <3>f DEF Rm
      <4> QED BY <1>q, <1>t, <3>f, <4>2, <4>3
    <3>2. CASE c = me
      <4>1. CASE BumpOnRemoveRetries
        <5>1. PICK n \in ConfigObject \cup {None} : Cur(cfg'[me]) = n /\ WriteCounts(n)
          BY <4>1, WritesCount DEF StepWrite
        <5>2. /\ ctl.pc = "bump" /\ n # None /\ Cur(cfg[me]) # None
              /\ n.rmRetries = Cur(cfg[me]).rmRetries + 1
              /\ ctl'.pc = "delFailed" /\ ctl'.c = ctl.c
          BY <4>1, <5>1 DEF WriteCounts, AddFinalizer, StatusUpdate, WithStatus,
         MarkFullDiskInstallCompleted, BumpOnRemoveRetries, Finalize, At
        <5>3. Rm(c)' = Rm(c) + 1
          BY <3>2, <5>1, <5>2 DEF Rm
        <5>4. Pending(c) /\ ~Pending(c)'
          BY <3>2, <5>2 DEF Pending, me
        <5> QED BY <1>d, <1>t, <1>x, <3>f, <5>3, <5>4 DEF Due, N
      <4>2. CASE ~BumpOnRemoveRetries
        <5>1. Rm(c)' <= Rm(c) /\ Rm(c)' \in Nat
          <6>1. CASE StepWrite
            <7>1. PICK n \in ConfigObject \cup {None} : Cur(cfg'[me]) = n /\ WriteCounts(n)
              BY <6>1, WritesCount
            <7>2. ctl.fresh => Cur(cfg[me]) # None /\ ctl.obj.rmRetries = Cur(cfg[me]).rmRetries
              BY <3>b DEF CopyRetries, CopyIsCurrent
            <7>3. n = None \/ (n.rmRetries = Cur(cfg[me]).rmRetries /\ Cur(cfg[me]) # None)
              BY <4>2, <7>1, <7>2 DEF WriteCounts
            <7> QED BY <1>t, <3>2, <7>1, <7>3 DEF Rm
          <6>2. CASE UNCHANGED cfg
            BY <1>t, <6>2 DEF Rm
          <6> QED BY <2>1, <3>u, <6>1, <6>2, UncountedSteps DEF Uncounted
        <5>2. Pending(c)' => Pending(c)
          <6>1. CASE ctl'.c = c /\ ctl'.pc = "bump"
            BY <2>1, <3>2, <6>1, BumpReadsFailure DEF Pending, me
          <6>2. CASE ctl.pc = "delFailed"
            <7>1. DeleteFailedDecommission
              BY <2>1, <6>2, Zenon DEF Step, AddFinalizer, DropOnConflict, StatusUpdate,
                    WithStatus, Blocked,
                   SuspendDayTwo, PassGates, CreateInstall, InstallCreated,
                         InstallConflict, InstallSucceeded,
                   InstallWait, InstallExhausted, InstallRetry, InstallChild, DeleteFailedInstall,
                   MarkFullDiskInstallCompleted, RewriteFails, DeleteDoneInstall,
                         CreateDayTwo, DayTwoCreated,
                   DayTwoConflict, ObserveDayTwo, DayTwoResumed, WriteBackMachineStatus,
                         DeleteDayTwo, Decommission,
                   CreateDecommission, DecommissionCreated, ClearMachineStatus,
                         BumpOnRemoveRetries,
                   DeleteDecommissionJob, Finalize, At
            <7>2. ~Failing(c)'
              BY <3>2, <7>1, DecommissionDeleted DEF Failing, NewFailure
            <7>3. ctl'.pc # "bump"
              BY <2>1, <6>2, BumpReadsFailure
            <7> QED BY <7>2, <7>3 DEF Pending
          <6>3. CASE ctl.pc # "delFailed" /\ ~(ctl'.c = c /\ ctl'.pc = "bump")
            BY <1>x, <6>3 DEF Pending
          <6> QED BY <6>1, <6>2, <6>3
        <5> QED BY <1>q, <3>f, <5>1, <5>2
      <4> QED BY <4>1, <4>2
    <3> QED BY <3>1, <3>2
  <2>a. CASE AnswerLost
    <3>1. Rm(c)' = Rm(c) /\ faults' = faults + 1
      BY <2>a, LostAnswers DEF Rm
    <3> QED BY <1>d, <1>t, <1>x, <3>1 DEF Due, N
  <2>2. ASSUME NEW d \in Configs, Reconcile(d) PROVE Due(c)'
    <3>1. /\ UNCHANGED <<cfg, faults>> /\ ctl.pc = "idle"
          /\ ctl'.pc \in {"removing", "gates", "addFinalizer"}
      BY <2>2 DEF Reconcile, At, budgets
    <3>2. Rm(c)' = Rm(c) /\ (Pending(c)' => Pending(c))
      BY <1>x, <3>1 DEF Rm, Pending
    <3> QED BY <1>q, <1>t, <3>1, <3>2
  <2>3. ASSUME NEW d \in Configs, User(d) PROVE Due(c)'
    <3>1. /\ faults' = faults
          /\ ctl' = IF ctl.c = d THEN [ctl EXCEPT !.fresh = FALSE] ELSE ctl
          /\ \A e \in Configs : e # d => cfg'[e] = cfg[e]
      BY <2>3, UsersCount
    <3>2. ctl'.pc = ctl.pc /\ ctl'.c = ctl.c
      BY <3>1 DEF TypeOK, Busy, Idle
    <3>3. Pending(c)' => Pending(c)
      BY <1>x, <3>2 DEF Pending
    <3>4. PICK n \in ConfigObject \cup {None} : Cur(cfg'[d]) = n /\ UserCounts(d, n)
      BY <2>3, UsersCount
    <3>5. Rm(c)' <= Rm(c) /\ Rm(c)' \in Nat
      <4>1. CASE c # d
        BY <1>t, <3>1, <4>1 DEF Rm
      <4>2. CASE c = d
        BY <1>t, <3>4, <4>2 DEF Rm, UserCounts
      <4> QED BY <4>1, <4>2
    <3> QED BY <1>q, <3>1, <3>3, <3>5
  <2>4. CASE ~Pass /\ ~(\E d \in Configs : Reconcile(d)) /\ ~(\E d \in Configs : User(d))
    <3>1. Cur(cfg'[c]) = Cur(cfg[c])
      BY <2>4, OthersCount
    <3>2. Rm(c)' = Rm(c)
      BY <3>1 DEF Rm
    <3>3. CASE faults' = faults + 1
      BY <1>d, <1>t, <1>x, <3>2, <3>3 DEF Due, N
    <3>4. CASE /\ ctl' = ctl \/ ctl' = [ctl EXCEPT !.mfresh = FALSE]
               /\ faults' = faults
      <4>1. ctl'.pc = ctl.pc /\ ctl'.c = ctl.c
        BY <3>4 DEF TypeOK, Busy, Idle
      <4>2. Pending(c)' => Pending(c)
        BY <1>x, <4>1 DEF Pending
      <4> QED BY <1>q, <1>t, <3>2, <3>4, <4>2
    <3> QED BY <2>4, <3>3, <3>4, OthersCount
  <2> QED BY <2>1, <2>a, <2>2, <2>3, <2>4 DEF Pass
<1> QED BY <1>0, <1>m, <1>x DEF FailMoves

RetriesInv == CopyRetries /\ \A c \in Configs : Due(c)

\* Every retry that a removal counted stands for a decommission job that failed, but for one
\* that a fault between the count and the deletion made it count twice.
THEOREM RetriesFailed == JobReadsSettled => (Spec => []RetriesAreFailures)
<1> SUFFICES ASSUME JobReadsSettled PROVE Spec => []RetriesAreFailures
  OBVIOUS
<1>1. Init => RetriesInv
  BY DEF Init, RetriesInv, CopyRetries, Due, Rm, Pending, Failing, N, Idle, Cur
<1>2. ASSUME TypeOK, TypeOK', CopyIsCurrent, ExistsWasBorn, JobReadsCurrent, RetriesInv,
             [Next]_vars
      PROVE  RetriesInv'
  <2>1. CASE Next
    <3>1. CopyRetries'
      BY <1>2, <2>1, CopyRetriesKept DEF RetriesInv
    <3>2. ASSUME NEW c \in Configs PROVE Due(c)'
      BY <1>2, <2>1, DueKept DEF RetriesInv
    <3> QED BY <3>1, <3>2 DEF RetriesInv
  <2>2. CASE UNCHANGED vars
    BY <1>2, <2>2 DEF vars, RetriesInv, CopyRetries, Due, Rm, Pending, Failing, me
  <2> QED BY <1>2, <2>1, <2>2
<1>3. ASSUME TypeOK, RetriesInv PROVE RetriesAreFailures
  <2> SUFFICES ASSUME NEW c \in Configs, Exists(c)
               PROVE  Cur(cfg[c]).rmRetries <= rmFails[c] + faults
    BY DEF RetriesAreFailures
  <2>1. Rm(c) + N(Pending(c)) <= rmFails[c] + faults
    BY <1>3 DEF RetriesInv, Due
  <2>2. Rm(c) = Cur(cfg[c]).rmRetries /\ Rm(c) \in Nat /\ rmFails[c] \in Nat /\ faults \in Nat
    BY <1>3, Versions DEF Rm, Exists, TypeOK, ConfigObject
  <2> QED BY <2>1, <2>2 DEF N
<1> QED BY <1>1, <1>2, <1>3, StoredInvariant, NoOrphanInvariant, PTL DEF Spec

-----------------------------------------------------------------------------
(***************************************************************************)
(* How often the decommission job is created, where reads are current.     *)
(***************************************************************************)

\* The premise.  A removal that misses its own count, or whose write to the Machine is
\* refused because its copy is old, tries once more than it counted.
ReadsSettled ==
  \A s \in Settings : s.lag.config = 0 /\ s.lag.job = 0 /\ s.lag.machine = 0

\* A removal works on a configuration that exists, since its own finalizer keeps it, and
\* holds the count it stored last.
RemovalHolds ==
  /\ ctl.pc \in RemovalPCs => Cur(cfg[me]) # None /\ Cur(cfg[me]).del
  /\ ctl.pc = "delFailed" => ctl.obj.rmRetries = Cur(cfg[me]).rmRetries

\* The step that leads to the deletion of a failed job has just counted it.
LEMMA DeletesAfterBump ==
  ASSUME TypeOK, Step, ctl'.pc = "delFailed"
  PROVE  BumpOnRemoveRetries
<1>b. ctl \in Busy /\ me \in Configs /\ ctl.obj \in ConfigObject
  BY StepIsBusy, BusyHere DEF Pass
<1>a. ~DecommissionAnswerLost
  <2>1. DecommissionAnswerLost => ctl' = [[ctl EXCEPT !.pc = "finalize"] EXCEPT !.lost = TRUE]
    BY DEF DecommissionAnswerLost, DecommissionCreated, AfterError, At
  <2> QED BY <1>b, <2>1 DEF Busy
<1>1. \/ DeleteDayTwo \/ Decommission \/ CreateDecommission \/ ClearMachineStatus
      \/ BumpOnRemoveRetries \/ DeleteFailedDecommission \/ DeleteDecommissionJob
  BY <1>a, RemovalSteps DEF RemovalPCs, Pass
<1>2. CASE DeleteDayTwo \/ ClearMachineStatus \/ DeleteFailedDecommission \/ DeleteDecommissionJob
  <2>1. ctl' = Idle \/ \E p \in PCs \ {"delFailed"} : Goto(p)
    BY <1>2 DEF DeleteDayTwo, ClearMachineStatus, DeleteFailedDecommission,
         DeleteDecommissionJob, AfterStamp, PCs
  <2> QED BY <1>b, <2>1 DEF Goto, Busy, Idle
<1>3. CASE CreateDecommission
  <2>1. \/ Goto("finalize")
        \/ ctl' = [ctl EXCEPT !.pc = "rmStatus", !.obj.phase = "Removing"]
    BY <1>3 DEF CreateDecommission, DecommissionCreated
  <2> QED BY <1>b, <2>1 DEF Goto, Busy
<1>4. CASE Decommission
  BY <1>4, DecommissionDecides DEF AfterStamp
<1> QED BY <1>1, <1>2, <1>3, <1>4

\* The finalizer holds until the pass lets go.
LEMMA RemovalHoldsKept ==
  ASSUME TypeOK, TypeOK', CopyIsCurrent, ExistsWasBorn, CacheIsCurrent, RemovalHolds, Next
  PROVE  RemovalHolds'
<1> SUFFICES ASSUME ctl'.pc \in RemovalPCs
             PROVE  /\ Cur(cfg'[ctl'.c]) # None /\ Cur(cfg'[ctl'.c]).del
                    /\ ctl'.pc = "delFailed" => ctl'.obj.rmRetries = Cur(cfg'[ctl'.c]).rmRetries
  BY DEF RemovalHolds, RemovalPCs, me
<1>i. ctl'.pc # "idle" /\ ctl' # Idle
  BY DEF RemovalPCs, Idle
<1>1. CASE Step
  <2>1. ctl.pc \in RemovalPCs /\ ctl'.c = ctl.c
    BY <1>1, RemovalSteps DEF Pass
  <2>2. Cur(cfg[me]) # None /\ Cur(cfg[me]).del
    BY <2>1 DEF RemovalHolds
  <2>3. CASE BumpOnRemoveRetries
    <3>1. PICK n \in ConfigObject \cup {None} : Cur(cfg'[me]) = n /\ WriteCounts(n)
      BY <2>3, WritesCount DEF StepWrite
    <3>2. n # None /\ n.del = Cur(cfg[me]).del /\ ctl'.obj.rmRetries = n.rmRetries
      BY <2>3, <3>1 DEF WriteCounts, AddFinalizer, StatusUpdate, WithStatus,
         MarkFullDiskInstallCompleted, BumpOnRemoveRetries, Finalize, At
    <3> QED BY <2>1, <2>2, <3>1, <3>2 DEF me
  <2>4. CASE ~BumpOnRemoveRetries
    <3>1. UNCHANGED cfg
      BY <1>1, <2>4, RemovalSteps DEF Pass, DecommissionAnswerLost, DeleteDayTwo, Decommission, CreateDecommission,
            DecommissionCreated,
           ClearMachineStatus, DeleteFailedDecommission, DeleteDecommissionJob
    <3> QED BY <1>1, <2>1, <2>2, <2>4, <3>1, DeletesAfterBump DEF me
  <2> QED BY <2>3, <2>4
<1>a. CASE AnswerLost
  <2>1. /\ ctl.pc = "createDec" /\ ctl'.pc = "finalize" /\ cfg' = cfg /\ ctl'.c = ctl.c
        /\ ctl.c \in Configs
    BY <1>a, LostAnswers DEF RemovalPCs, me
  <2>2. ctl.pc \in RemovalPCs
    BY <2>1 DEF RemovalPCs
  <2> QED BY <2>1, <2>2 DEF RemovalHolds, me
<1>2. ASSUME NEW c \in Configs, Reconcile(c)
      PROVE  /\ Cur(cfg'[ctl'.c]) # None /\ Cur(cfg'[ctl'.c]).del
             /\ ctl'.pc # "delFailed"
  <2>1. Seen(cfg[c]) = Cur(cfg[c])
    BY LogVersions DEF TypeOK, CacheIsCurrent
  <2> QED BY <1>2, <2>1 DEF Reconcile, RemovalPCs
<1>3. ASSUME NEW c \in Configs, User(c)
      PROVE  /\ Cur(cfg'[ctl'.c]) # None /\ Cur(cfg'[ctl'.c]).del
             /\ ctl'.pc = "delFailed" => ctl'.obj.rmRetries = Cur(cfg'[ctl'.c]).rmRetries
  <2>1. /\ ctl' = IF ctl.c = c THEN [ctl EXCEPT !.fresh = FALSE] ELSE ctl
        /\ \A d \in Configs : d # c => cfg'[d] = cfg[d]
    BY <1>3, UsersCount
  <2>2. ctl'.pc = ctl.pc /\ ctl'.c = ctl.c /\ ctl'.obj = ctl.obj
    BY <2>1 DEF TypeOK, Busy, Idle
  <2>3. Cur(cfg[me]) # None /\ Cur(cfg[me]).del /\ me \in Configs
    BY <1>i, <2>2, BusyHere DEF RemovalHolds, At
  <2>4. CASE me = c
    <3>1. PICK n \in ConfigObject \cup {None} : Cur(cfg'[c]) = n /\ UserCounts(c, n)
      BY <1>3, UsersCount
    <3>2. born[c] # 0
      BY <2>3, <2>4 DEF ExistsWasBorn
    <3>3. n # None /\ n.del /\ n.rmRetries = Cur(cfg[c]).rmRetries
      BY <2>3, <2>4, <3>1, <3>2 DEF UserCounts
    <3> QED BY <2>2, <2>4, <3>1, <3>3 DEF RemovalHolds, me
  <2>5. CASE me # c
    BY <2>1, <2>2, <2>3, <2>5 DEF RemovalHolds, me
  <2> QED BY <2>4, <2>5
<1>4. CASE ~Pass /\ ~(\E c \in Configs : Reconcile(c)) /\ ~(\E c \in Configs : User(c))
  <2>1. \A c \in Configs : Cur(cfg'[c]) = Cur(cfg[c])
    BY <1>4, OthersCount
  <2>2. OthersLeave
    BY <1>4, OthersMovePass
  <2>3. /\ ctl \in Busy /\ ctl'.c = ctl.c /\ ctl'.obj = ctl.obj
        /\ ctl.pc \in RemovalPCs /\ (ctl'.pc = "delFailed" => ctl.pc = "delFailed")
    <3>1. /\ ctl \in Busy /\ ctl'.c = ctl.c /\ ctl'.obj = ctl.obj
          /\ \/ ctl'.pc = ctl.pc
             \/ ctl'.pc = "status" /\ ctl.pc \notin RemovalPCs
             \/ ctl'.pc = "decommission" /\ ctl.pc = "removing"
             \/ ctl'.pc = "finalize" /\ ctl.pc = "createDec"
      BY <1>i, <2>2, OthersKeepPass
    <3> QED BY <3>1 DEF RemovalPCs
  <2>4. me \in Configs
    BY <2>3 DEF Busy, me
  <2> QED BY <2>1, <2>3, <2>4 DEF RemovalHolds, me
<1> QED BY <1>1, <1>a, <1>2, <1>3, <1>4 DEF Pass

\* A job that would keep a new one from being created is not there.
DecVacant(c) == Cur(dec[c]) = None \/ Cur(dec[c]).del

\* A pass at these points is about to let go of the configuration.
Ending == {"clear", "clearOnly", "dropJob", "finalize"}

\* There is room for one more job, or soon is.
Room(c) ==
  \/ ctl.c = c /\ ctl.pc = "delFailed" /\ Rm(c) < MaxOnRemoveRetries
  \/ DecVacant(c) /\ ~(ctl.c = c /\ ctl.pc \in Ending \cup {"delFailed"})

\* The pass will be refused for one of its copies.
Spoiled(c) ==
  /\ ctl.c = c
  /\ \/ ctl.pc \in RemovalPCs /\ ~ctl.fresh
     \/ ctl.pc \in Ending \cup {"createDec", "bump", "delFailed"} /\ ~ctl.mfresh

\* The counted retries that were followed by another job.
Capped(c) == IF Rm(c) < MaxOnRemoveRetries THEN Rm(c) ELSE MaxOnRemoveRetries - 1

\* Each job is the first, or follows a counted retry, or a disturbance that kept a pass
\* from finalizing.
Tried(c) ==
  Cur(cfg[c]) # None
    => rmTries[c] + N(Room(c)) + N(Spoiled(c)) <= 1 + Capped(c) + faults + edits + blips

NotTried == \A c \in Configs : born[c] = 0 => rmTries[c] = 0

\* Only the two deletions make room.
LEMMA RoomOnly ==
  ASSUME TypeOK, Next, NEW c \in Configs, DecVacant(c)'
  PROVE  DecVacant(c) \/ ((DeleteFailedDecommission \/ DeleteDecommissionJob) /\ c = me)
<1>1. NewDecommission \in NixJobObject /\ ~NewDecommission.del
  BY DEF NewDecommission, NixJobObject, Reports
<1>2. NewDecommission # None
  BY <1>1, NoneIsNoObject
<1> QED BY <1>1, <1>2, DecommissionSteps DEF DecommissionMoves, DecVacant

\* Only the count changes the count.
LEMMA RetriesStay ==
  ASSUME TypeOK, CopyIsCurrent, CopyRetries, Step, ~BumpOnRemoveRetries, NEW c \in Configs,
         Cur(cfg'[c]) # None
  PROVE  Cur(cfg[c]) # None /\ Rm(c)' = Rm(c)
<1>b. ctl.pc # "idle" /\ me \in Configs
  BY StepIsBusy, BusyHere DEF At, Pass
<1>1. CASE StepWrite
  <2>1. PICK n \in ConfigObject \cup {None} : Cur(cfg'[me]) = n /\ WriteCounts(n)
    BY <1>1, WritesCount
  <2>2. c # me => cfg'[c] = cfg[c]
    BY <1>1, WritesCount
  <2>3. ctl.fresh => Cur(cfg[me]) # None /\ ctl.obj.rmRetries = Cur(cfg[me]).rmRetries
    BY <1>b DEF CopyRetries, CopyIsCurrent
  <2>4. n = None \/ (n.rmRetries = Cur(cfg[me]).rmRetries /\ Cur(cfg[me]) # None)
    BY <2>1, <2>3 DEF WriteCounts
  <2> QED BY <2>1, <2>2, <2>4 DEF Rm
<1>2. CASE UNCHANGED cfg
  BY <1>2 DEF Rm
<1>3. InstallRetry => UNCHANGED cfg
  BY DEF InstallRetry, InstallChild
<1> QED BY <1>1, <1>2, <1>3, UncountedSteps DEF Uncounted

\* The steps of a pass disturb nothing, and keep to their configuration.
LEMMA StepsKeep ==
  ASSUME TypeOK, CopyIsCurrent, Step
  PROVE  /\ faults' = faults /\ edits' = edits /\ blips' = blips
         /\ ctl' = Idle \/ ctl'.c = ctl.c
         /\ \A c \in Configs : c # me => cfg'[c] = cfg[c]
<1>b. ctl \in Busy
  BY StepIsBusy, BusyHere DEF Pass
<1>1. ASSUME InstallRetry PROVE UNCHANGED <<cfg, faults, edits, blips>> /\ ctl'.c = ctl.c
  BY <1>1, <1>b DEF InstallRetry, InstallChild, budgets, Busy
<1>2. ASSUME StepWrite PROVE ctl' = Idle \/ ctl'.c = ctl.c
  BY <1>2, WritesCount DEF WriteCounts
<1> QED BY <1>1, <1>2, UncountedSteps, WritesCount DEF Uncounted

\* The steps of a removal.
LEMMA StepsOfRemoval ==
  ASSUME Step, ctl.pc \in RemovalPCs
  PROVE  \/ DeleteDayTwo \/ Decommission \/ CreateDecommission \/ ClearMachineStatus
         \/ BumpOnRemoveRetries \/ DeleteFailedDecommission \/ DeleteDecommissionJob
         \/ DropOnConflict \/ StatusUpdate \/ RewriteFails \/ Finalize
BY DEF Step, AddFinalizer, Blocked, SuspendDayTwo, PassGates, CreateInstall,
      InstallCreated, InstallConflict,
     InstallSucceeded, InstallWait, InstallExhausted, InstallRetry, InstallChild,
     DeleteFailedInstall, MarkFullDiskInstallCompleted, DeleteDoneInstall, CreateDayTwo,
           DayTwoCreated,
     DayTwoConflict, ObserveDayTwo, DayTwoResumed, WriteBackMachineStatus, At, RemovalPCs

\* The numbers of the bound.
LEMMA TriedTyped ==
  ASSUME TypeOK, MaxOnRemoveRetries # 0, NEW c \in Configs
  PROVE  /\ rmTries[c] \in Nat /\ faults \in Nat /\ edits \in Nat /\ blips \in Nat
         /\ Rm(c) \in Nat /\ Capped(c) \in Nat /\ Capped(c) < MaxOnRemoveRetries
<1>1. /\ rmTries[c] \in Nat /\ faults \in Nat /\ edits \in Nat /\ blips \in Nat
      /\ Rm(c) \in Nat
  BY Versions DEF TypeOK, Rm, ConfigObject
<1> QED BY <1>1, RetryCaps DEF Capped

\* A step of a pass on another configuration.
LEMMA TriedByOther ==
  ASSUME TypeOK, TypeOK', MaxOnRemoveRetries # 0, CopyIsCurrent, Next, Step,
         NEW c \in Configs, c # me, Tried(c)
  PROVE  Tried(c)'
<1>1. ctl'.c # c /\ ctl.c # c
  BY StepsKeep, ConfigsAreNames DEF Idle, me
<1>2. cfg'[c] = cfg[c] /\ faults' = faults /\ edits' = edits /\ blips' = blips
  BY StepsKeep
<1>3. rmTries'[c] = rmTries[c]
  BY TrySteps DEF TryMoves
<1>4. Capped(c)' = Capped(c) /\ ~Spoiled(c)'
  BY <1>1, <1>2 DEF Capped, Rm, Spoiled
<1>5. Room(c)' => Room(c)
  BY <1>1, RoomOnly DEF Room
<1>t. rmTries[c] \in Nat /\ faults \in Nat /\ edits \in Nat /\ blips \in Nat /\ Capped(c) \in Nat
  BY TriedTyped
<1> QED BY <1>2, <1>3, <1>4, <1>5, <1>t DEF Tried, N

\* A step of the pass on the configuration itself.
LEMMA TriedByPass ==
  ASSUME TypeOK, TypeOK', MaxOnRemoveRetries # 0, CopyIsCurrent, CopyRetries, CacheIsCurrent,
         InSync(mach), RemovalHolds, Next, Step, NEW c \in Configs, c = me, Tried(c)
  PROVE  Tried(c)'
<1>b. ctl \in Busy /\ ctl.c = c /\ ctl.obj \in ConfigObject
  BY StepIsBusy, BusyHere DEF me, Pass
<1>a. ~(AnswerLost /\ DecommissionAnswerLost)
  <2>1. AnswerLost => faults' = faults + 1 /\ faults \in Nat
    BY DEF AnswerLost, TypeOK
  <2> QED BY <2>1, StepsKeep
<1>k. /\ faults' = faults /\ edits' = edits /\ blips' = blips
      /\ ctl' = Idle \/ ctl'.c = c
  BY <1>b, StepsKeep
<1>t. /\ rmTries[c] \in Nat /\ faults \in Nat /\ edits \in Nat /\ blips \in Nat
      /\ Rm(c) \in Nat /\ Capped(c) \in Nat /\ MaxOnRemoveRetries \in Nat
  BY TriedTyped, RetryCaps
<1> SUFFICES ASSUME Cur(cfg'[c]) # None
             PROVE  rmTries'[c] + N(Room(c)') + N(Spoiled(c)')
                      <= 1 + Capped(c)' + faults' + edits' + blips'
  BY DEF Tried
<1>h. Cur(cfg[c]) # None
        => rmTries[c] + N(Room(c)) + N(Spoiled(c)) <= 1 + Capped(c) + faults + edits + blips
  BY DEF Tried
<1>r. ~BumpOnRemoveRetries => Cur(cfg[c]) # None /\ Rm(c)' = Rm(c)
  BY RetriesStay
<1>c. ~BumpOnRemoveRetries => Capped(c)' = Capped(c)
  BY <1>r DEF Capped
<1>y. ~CreateDecommission => rmTries'[c] = rmTries[c]
  BY <1>a, TrySteps DEF TryMoves
<1>q. ASSUME ~BumpOnRemoveRetries, ~CreateDecommission,
             N(Room(c)') + N(Spoiled(c)') <= N(Room(c)) + N(Spoiled(c))
      PROVE  rmTries'[c] + N(Room(c)') + N(Spoiled(c)')
               <= 1 + Capped(c)' + faults' + edits' + blips'
  BY <1>q, <1>h, <1>r, <1>c, <1>y, <1>k, <1>t DEF N
<1>s. ASSUME ~BumpOnRemoveRetries, ~CreateDecommission, Room(c)' => Room(c), Spoiled(c)' => Spoiled(c)
      PROVE  rmTries'[c] + N(Room(c)') + N(Spoiled(c)')
               <= 1 + Capped(c)' + faults' + edits' + blips'
  BY <1>q, <1>s DEF N
<1>i. ctl' = Idle => ~Spoiled(c)'
  BY ConfigsAreNames DEF Spoiled, Idle
<1>1. CASE ctl.pc \notin RemovalPCs
  <2>1. ctl'.pc \notin RemovalPCs
    BY <1>1, RemovalSteps DEF Pass
  <2>2. /\ ~BumpOnRemoveRetries /\ ~CreateDecommission /\ ~DeleteFailedDecommission
        /\ ~DeleteDecommissionJob
    BY <1>1 DEF BumpOnRemoveRetries, CreateDecommission, DecommissionCreated,
         DeleteFailedDecommission, DeleteDecommissionJob, At, RemovalPCs
  <2>3. ~Spoiled(c)'
    BY <2>1 DEF Spoiled, Ending, RemovalPCs
  <2>4. Room(c)' => Room(c)
    <3>1. Room(c)' => DecVacant(c)'
      BY <2>1 DEF Room, RemovalPCs
    <3>2. DecVacant(c) => Room(c)
      BY <1>1 DEF Room, Ending, RemovalPCs
    <3> QED BY <2>2, <3>1, <3>2, RoomOnly
  <2> QED BY <1>s, <2>2, <2>3, <2>4
<1>2. CASE DeleteDayTwo
  <2>1. ctl.pc = "removing" /\ Goto("decommission") /\ UNCHANGED dec
    BY <1>2 DEF DeleteDayTwo, At
  <2>2. ctl'.pc = "decommission" /\ ctl'.c = c /\ ctl'.fresh = ctl.fresh
    BY <1>b, <2>1 DEF Goto, Busy
  <2>3. (Spoiled(c)' => Spoiled(c)) /\ (Room(c)' => Room(c))
    BY <1>b, <2>1, <2>2 DEF Spoiled, Room, DecVacant, Ending, RemovalPCs
  <2>4. ~BumpOnRemoveRetries /\ ~CreateDecommission
    BY <2>1 DEF BumpOnRemoveRetries, CreateDecommission, DecommissionCreated, At
  <2> QED BY <1>s, <2>3, <2>4
<1>3. CASE Decommission
  <2>1. /\ ctl.pc = "decommission" /\ ctl'.c = c /\ ctl'.fresh = ctl.fresh /\ UNCHANGED dec
        /\ ctl'.pc \in {"rmStatus", "clearOnly", "finalize", "createDec", "clear", "dropJob", "bump"}
        /\ ctl'.pc # "rmStatus" => ctl'.mfresh
    BY <1>3, <1>b, DecommissionDecides DEF AfterStamp
  <2>2. Spoiled(c)' => Spoiled(c)
    BY <1>b, <2>1 DEF Spoiled, Ending, RemovalPCs
  <2>3. Room(c)' => Room(c)
    BY <1>b, <2>1 DEF Room, DecVacant, Ending
  <2>4. ~BumpOnRemoveRetries /\ ~CreateDecommission
    BY <2>1 DEF BumpOnRemoveRetries, CreateDecommission, DecommissionCreated, At
  <2> QED BY <1>s, <2>2, <2>3, <2>4
<1>4. CASE CreateDecommission
  <2>0. ctl.pc = "createDec" /\ ~BumpOnRemoveRetries
    BY <1>4 DEF CreateDecommission, DecommissionCreated, BumpOnRemoveRetries, At
  <2>1. CASE ctl' = [ctl EXCEPT !.pc = "rmStatus", !.obj.phase = "Removing"]
    <3>1. ctl'.pc = "rmStatus" /\ ctl'.c = c /\ ctl'.fresh = ctl.fresh
      BY <1>b, <2>1 DEF Busy
    <3>2. Spoiled(c)' => Spoiled(c)
      BY <1>b, <2>0, <3>1 DEF Spoiled, Ending, RemovalPCs
    <3>3. Room(c)' <=> DecVacant(c)'
      BY <3>1 DEF Room, Ending
    <3>4. Room(c) <=> DecVacant(c)
      BY <2>0 DEF Room, Ending
    <3>5. CASE /\ Cur(dec[c]) = None /\ Cur(dec'[c]) = NewDecommission
               /\ rmTries'[c] = Counted(rmTries[c])
      <4>1. NewDecommission \in NixJobObject /\ ~NewDecommission.del
        BY DEF NewDecommission, NixJobObject, Reports
      <4>2. NewDecommission # None
        BY <4>1, NoneIsNoObject
      <4>3. Room(c) /\ ~Room(c)'
        BY <3>3, <3>4, <3>5, <4>1, <4>2 DEF DecVacant
      <4>4. rmTries'[c] <= rmTries[c] + 1 /\ rmTries'[c] \in Nat
        BY <1>t, <3>5, CountBounds DEF Counted
      <4> QED BY <1>c, <1>h, <1>k, <1>r, <1>t, <2>0, <3>2, <4>3, <4>4 DEF N
    <3>6. CASE rmTries'[c] = rmTries[c]
      <4>1. Room(c)' => Room(c)
        <5>1. ~DeleteFailedDecommission /\ ~DeleteDecommissionJob
          BY <2>0 DEF DeleteFailedDecommission, DeleteDecommissionJob, At
        <5> QED BY <3>3, <3>4, <5>1, RoomOnly
      <4> QED BY <1>c, <1>h, <1>k, <1>r, <1>t, <2>0, <3>2, <3>6, <4>1 DEF N
    <3> QED BY <3>5, <3>6, TrySteps DEF TryMoves
  <2>2. CASE Goto("finalize") /\ UNCHANGED <<dec, rmTries>>
    <3>1. ctl'.pc = "finalize" /\ ctl'.c = c /\ ctl'.fresh = ctl.fresh /\ ctl'.mfresh = ctl.mfresh
      BY <1>b, <2>2 DEF Goto, Busy
    <3>2. (Spoiled(c)' => Spoiled(c)) /\ ~Room(c)'
      BY <1>b, <2>0, <3>1 DEF Spoiled, Room, Ending, RemovalPCs
    <3> QED BY <1>c, <1>h, <1>k, <1>r, <1>t, <2>0, <2>2, <3>2 DEF N
  <2> QED BY <1>4, <2>1, <2>2 DEF CreateDecommission, DecommissionCreated
<1>5. CASE ClearMachineStatus
  <2>0. /\ ctl.pc \in {"clear", "clearOnly"} /\ UNCHANGED dec
        /\ ~BumpOnRemoveRetries /\ ~CreateDecommission
    BY <1>5 DEF ClearMachineStatus, BumpOnRemoveRetries, CreateDecommission,
          DecommissionCreated, At, kids
  <2>1. CASE ctl' = Idle /\ ~ctl.mfresh
    <3>1. Spoiled(c)
      BY <1>b, <2>0, <2>1 DEF Spoiled, Ending
    <3> QED BY <1>i, <1>q, <2>0, <2>1, <3>1 DEF N
  <2>2. CASE Goto("dropJob") \/ Goto("finalize")
    <3>1. /\ ctl'.pc \in {"dropJob", "finalize"} /\ ctl'.c = c /\ ctl'.fresh = ctl.fresh
          /\ ctl'.mfresh = ctl.mfresh
      BY <1>b, <2>2 DEF Goto, Busy
    <3>2. (Spoiled(c)' => Spoiled(c)) /\ ~Room(c)'
      BY <1>b, <2>0, <3>1 DEF Spoiled, Room, Ending, RemovalPCs
    <3> QED BY <1>s, <2>0, <3>2
  <2> QED BY <1>5, <2>1, <2>2 DEF ClearMachineStatus
<1>6. CASE BumpOnRemoveRetries
  <2>1. PICK n \in ConfigObject \cup {None} : Cur(cfg'[me]) = n /\ WriteCounts(n)
    BY <1>6, WritesCount DEF StepWrite
  <2>2. /\ ctl.pc = "bump" /\ n # None /\ Cur(cfg[c]) # None
        /\ n.rmRetries = Cur(cfg[c]).rmRetries + 1
        /\ ctl'.pc = "delFailed" /\ ctl'.c = c /\ ctl'.fresh /\ ctl'.mfresh = ctl.mfresh
    BY <1>6, <1>b, <2>1 DEF WriteCounts, AddFinalizer, StatusUpdate, WithStatus,
         MarkFullDiskInstallCompleted, BumpOnRemoveRetries, Finalize, At
  <2>3. Rm(c)' = Rm(c) + 1
    BY <2>1, <2>2 DEF Rm
  <2>4. Spoiled(c)' => Spoiled(c)
    BY <1>b, <2>2 DEF Spoiled
  <2>5. Room(c)' => Rm(c) + 1 < MaxOnRemoveRetries
    BY <2>2, <2>3 DEF Room
  <2>6. /\ Rm(c) + 1 < MaxOnRemoveRetries => Capped(c)' = Capped(c) + 1
        /\ ~(Rm(c) + 1 < MaxOnRemoveRetries) => Capped(c)' = Capped(c)
    BY <1>t, <2>3 DEF Capped
  <2>7. rmTries'[c] = rmTries[c]
    <3>1. ~CreateDecommission
      BY <2>2 DEF CreateDecommission, DecommissionCreated, At
    <3> QED BY <1>y, <3>1
  <2> QED BY <1>h, <1>k, <1>t, <2>2, <2>4, <2>5, <2>6, <2>7 DEF N
<1>7. CASE DeleteFailedDecommission
  <2>0. /\ ctl.pc = "delFailed" /\ ~BumpOnRemoveRetries /\ ~CreateDecommission
        /\ Goto(IF ctl.obj.rmRetries >= MaxOnRemoveRetries
                THEN AfterStamp(ctl.mine, "clear", "dropJob") ELSE "rmStatus")
    BY <1>7 DEF DeleteFailedDecommission, BumpOnRemoveRetries, CreateDecommission,
          DecommissionCreated, At
  <2>1. ctl'.c = c /\ ctl'.fresh = ctl.fresh /\ ctl'.mfresh = ctl.mfresh
        /\ ctl'.pc \in {"clear", "dropJob", "rmStatus"}
        /\ (ctl'.pc = "rmStatus" => ~(ctl.obj.rmRetries >= MaxOnRemoveRetries))
    BY <1>b, <2>0 DEF Goto, Busy, AfterStamp
  <2>2. Spoiled(c)' => Spoiled(c)
    BY <1>b, <2>0, <2>1 DEF Spoiled, Ending, RemovalPCs
  <2>3. ctl.obj.rmRetries = Rm(c)
    BY <1>r, <2>0 DEF RemovalHolds, Rm
  <2>4. Room(c)' => Room(c)
    BY <1>b, <1>t, <2>0, <2>1, <2>3 DEF Room, Ending
  <2> QED BY <1>s, <2>0, <2>2, <2>4
<1>8. CASE DeleteDecommissionJob
  <2>0. ctl.pc = "dropJob" /\ Goto("finalize") /\ ~BumpOnRemoveRetries /\ ~CreateDecommission
    BY <1>8 DEF DeleteDecommissionJob, BumpOnRemoveRetries, CreateDecommission,
          DecommissionCreated, At
  <2>1. ctl'.pc = "finalize" /\ ctl'.c = c /\ ctl'.fresh = ctl.fresh /\ ctl'.mfresh = ctl.mfresh
    BY <1>b, <2>0 DEF Goto, Busy
  <2>2. (Spoiled(c)' => Spoiled(c)) /\ ~Room(c)'
    BY <1>b, <2>0, <2>1 DEF Spoiled, Room, Ending, RemovalPCs
  <2> QED BY <1>s, <2>0, <2>2
<1>9. CASE DropOnConflict /\ ctl.pc \in RemovalPCs
  <2>1. ~ctl.fresh /\ ctl' = Idle /\ ~BumpOnRemoveRetries /\ ~CreateDecommission
    BY <1>9 DEF DropOnConflict, BumpOnRemoveRetries, CreateDecommission,
          DecommissionCreated, At
  <2>2. Spoiled(c)
    BY <1>9, <1>b, <2>1 DEF Spoiled
  <2> QED BY <1>i, <1>q, <2>1, <2>2 DEF N
<1>10. CASE StatusUpdate /\ ctl.pc \in RemovalPCs
  <2>1. /\ ctl' = Idle /\ ctl.pc = "rmStatus" /\ UNCHANGED dec
        /\ ~BumpOnRemoveRetries /\ ~CreateDecommission
    BY <1>10 DEF StatusUpdate, WithStatus, BumpOnRemoveRetries, CreateDecommission,
          DecommissionCreated, At, kids, RemovalPCs
  <2>2. Room(c)' => Room(c)
    BY <2>1, ConfigsAreNames DEF Room, DecVacant, Ending, Idle
  <2> QED BY <1>i, <1>s, <2>1, <2>2
<1>11. CASE RewriteFails /\ ctl.pc \in RemovalPCs
  <2>1. Seen(cfg[c]) = Cur(cfg[c]) /\ InSync(cfg[c])
    BY LogVersions DEF TypeOK, CacheIsCurrent
  <2> QED BY <1>11, <2>1 DEF RewriteFails, RemovalHolds
<1>12. CASE Finalize
  <2>1. Cur(cfg'[c]) = None
    <3>1. PICK n \in ConfigObject \cup {None} : Cur(cfg'[me]) = n /\ WriteCounts(n)
      BY <1>12, WritesCount DEF StepWrite
    <3>2. n = None
      BY <1>12, <3>1 DEF WriteCounts, AddFinalizer, StatusUpdate, WithStatus,
           MarkFullDiskInstallCompleted, BumpOnRemoveRetries, Finalize, At
    <3> QED BY <3>1, <3>2
  <2> QED BY <2>1
<1> QED BY <1>1, <1>2, <1>3, <1>4, <1>5, <1>6, <1>7, <1>8, <1>9, <1>10, <1>11, <1>12,
           StepsOfRemoval

\* A call whose answer is lost is a fault, which pays for the job that it created.
LEMMA TriedByLost ==
  ASSUME TypeOK, TypeOK', MaxOnRemoveRetries # 0, CopyIsCurrent, Next, AnswerLost,
         NEW c \in Configs, Tried(c)
  PROVE  Tried(c)'
<1>l. /\ faults' = faults + 1 /\ edits' = edits /\ blips' = blips /\ ctl'.c = ctl.c
      /\ Rm(c)' = Rm(c) /\ (Cur(cfg'[c]) # None => Cur(cfg[c]) # None)
  BY LostAnswers DEF Rm
<1>c. Capped(c)' = Capped(c)
  BY <1>l DEF Capped
<1>t. rmTries[c] \in Nat /\ faults \in Nat /\ edits \in Nat /\ blips \in Nat /\ Capped(c) \in Nat
  BY TriedTyped
<1> SUFFICES ASSUME Cur(cfg'[c]) # None
             PROVE  rmTries'[c] + N(Room(c)') + N(Spoiled(c)')
                      <= 1 + Capped(c)' + faults' + edits' + blips'
  BY DEF Tried
<1>h. rmTries[c] + N(Room(c)) + N(Spoiled(c)) <= 1 + Capped(c) + faults + edits + blips
  BY <1>l DEF Tried
<1>1. CASE /\ ctl'.pc = "status" /\ ctl.pc \in {"install", "delRetry", "mark", "daytwo"}
           /\ UNCHANGED <<dec, rmTries>>
  <2>1. ~Spoiled(c)' /\ (Room(c)' => Room(c))
    BY <1>1, <1>l DEF Spoiled, Room, DecVacant, Ending, RemovalPCs
  <2> QED BY <1>1, <1>c, <1>h, <1>l, <1>t, <2>1 DEF N
<1>2. CASE ctl'.pc = "finalize" /\ ctl.pc = "createDec" /\ DecommissionAnswerLost
  <2>b. ctl \in Busy /\ me \in Configs
    BY <1>2, BusyHere DEF At
  <2>0. ctl' = [[ctl EXCEPT !.pc = "finalize"] EXCEPT !.lost = TRUE]
    BY <1>2 DEF DecommissionAnswerLost, AfterError, At
  <2>1. ctl'.fresh = ctl.fresh /\ ctl'.mfresh = ctl.mfresh
    BY <2>b, <2>0 DEF Busy
  <2>2. Spoiled(c)' => Spoiled(c)
    BY <1>2, <1>l, <2>1 DEF Spoiled, Ending, RemovalPCs
  <2>3. rmTries'[c] = rmTries[c] \/ rmTries'[c] = Counted(rmTries[c])
    BY TrySteps DEF TryMoves
  <2>4. rmTries'[c] <= rmTries[c] + 1 /\ rmTries'[c] \in Nat
    BY <1>t, <2>3, CountBounds DEF Counted
  <2>5. CASE c = me
    <3>1. ~Room(c)'
      BY <1>2, <1>l, <2>5 DEF Room, Ending, me
    <3> QED BY <1>c, <1>h, <1>l, <1>t, <2>2, <2>4, <3>1 DEF N
  <2>6. CASE c # me
    <3>1. rmTries'[c] = rmTries[c] /\ dec'[c] = dec[c]
      BY <1>2, <2>6, <2>b DEF DecommissionAnswerLost, DecommissionCreated, TypeOK
    <3>2. Room(c)' => Room(c)
      BY <1>l, <2>6, <3>1 DEF Room, DecVacant, me
    <3> QED BY <1>c, <1>h, <1>l, <1>t, <2>2, <3>1, <3>2 DEF N
  <2> QED BY <2>5, <2>6
<1> QED BY <1>1, <1>2, LostAnswers

\* The start of a pass spoils nothing: its copy is current.
LEMMA TriedByReconcile ==
  ASSUME TypeOK, TypeOK', CacheIsCurrent, NEW d \in Configs, Reconcile(d), NEW c \in Configs,
         Tried(c)
  PROVE  Tried(c)'
<1>1. /\ ctl.pc = "idle" /\ ctl'.fresh /\ ctl'.pc \in {"removing", "gates", "addFinalizer"}
      /\ UNCHANGED <<cfg, dec, rmTries, faults, edits, blips>>
  BY DEF CacheIsCurrent, Reconcile, At, kids, history, budgets
<1>2. ctl.c # c
  BY <1>1, ConfigsAreNames DEF TypeOK, Busy, Idle
<1>3. /\ ~Spoiled(c)' /\ ~Spoiled(c) /\ (Room(c)' <=> Room(c)) /\ Capped(c)' = Capped(c)
  BY <1>1, <1>2 DEF Spoiled, Room, DecVacant, Capped, Rm, Ending
<1> QED BY <1>1, <1>3 DEF Tried, N

\* An edit spoils at most the running pass; a deletion finds no removal to spoil.
LEMMA TriedByUser ==
  ASSUME TypeOK, TypeOK', MaxOnRemoveRetries # 0, ExistsWasBorn, RemovalHolds, NotTried,
         NEW d \in Configs, User(d), NEW c \in Configs, Tried(c)
  PROVE  Tried(c)'
<1>u. /\ UNCHANGED <<dec, rmTries, faults, blips>>
      /\ ctl' = IF ctl.c = d THEN [ctl EXCEPT !.fresh = FALSE] ELSE ctl
      /\ \A e \in Configs : e # d => cfg'[e] = cfg[e]
  BY UsersCount
<1>p. /\ ctl'.pc = ctl.pc /\ ctl'.c = ctl.c /\ ctl'.mfresh = ctl.mfresh
      /\ ctl.c # d => ctl'.fresh = ctl.fresh
  BY <1>u DEF TypeOK, Busy, Idle
<1>n. PICK n \in ConfigObject \cup {None} : Cur(cfg'[d]) = n /\ UserCounts(d, n)
  BY UsersCount
<1>t. /\ rmTries[c] \in Nat /\ faults \in Nat /\ edits \in Nat /\ blips \in Nat
      /\ Rm(c) \in Nat /\ Capped(c) \in Nat /\ (edits' = edits \/ edits' = edits + 1)
      /\ MaxOnRemoveRetries \in Nat
  BY <1>n, TriedTyped, RetryCaps DEF UserCounts
<1> SUFFICES ASSUME Cur(cfg'[c]) # None
             PROVE  rmTries'[c] + N(Room(c)') + N(Spoiled(c)')
                      <= 1 + Capped(c)' + faults' + edits' + blips'
  BY DEF Tried
<1>1. CASE c # d
  <2>1. /\ Cur(cfg[c]) # None /\ Capped(c)' = Capped(c) /\ (Spoiled(c)' => Spoiled(c))
        /\ (Room(c)' => Room(c))
    BY <1>1, <1>p, <1>u DEF Capped, Rm, Spoiled, Room, DecVacant
  <2>2. rmTries[c] + N(Room(c)) + N(Spoiled(c)) <= 1 + Capped(c) + faults + edits + blips
    BY <2>1 DEF Tried
  <2> QED BY <1>t, <1>u, <2>1, <2>2 DEF N
<1>2. CASE c = d /\ Cur(cfg[c]) = None
  <2>1. born[c] = 0 /\ n.rmRetries = 0 /\ n # None
    BY <1>2, <1>n DEF UserCounts
  <2>2. rmTries[c] = 0
    BY <2>1 DEF NotTried
  <2>3. ~Spoiled(c)'
    BY <1>2, <1>p DEF Spoiled, RemovalHolds, Ending, RemovalPCs, me
  <2>4. Capped(c)' \in Nat
    <3>1. Rm(c)' = 0
      BY <1>2, <1>n, <2>1 DEF Rm
    <3> QED BY <1>t, <3>1 DEF Capped
  <2> QED BY <1>t, <1>u, <2>2, <2>3, <2>4 DEF N
<1>3. CASE c = d /\ Cur(cfg[c]) # None
  <2>1. born[c] # 0
    BY <1>3 DEF ExistsWasBorn
  <2>2. n # None /\ n.rmRetries = Cur(cfg[c]).rmRetries
    BY <1>3, <1>n, <2>1 DEF UserCounts
  <2>3. Rm(c)' = Rm(c)
    BY <1>3, <1>n, <2>2 DEF Rm
  <2>4. Capped(c)' = Capped(c) /\ (Room(c)' => Room(c))
    BY <1>p, <1>u, <2>3 DEF Capped, Room, DecVacant
  <2>5. edits' = edits + 1 \/ ~Cur(cfg[c]).del
    BY <1>3, <1>n, <2>1 DEF UserCounts
  <2>6. ~Cur(cfg[c]).del => ~Spoiled(c)'
    BY <1>p DEF Spoiled, RemovalHolds, Ending, RemovalPCs, me
  <2>7. rmTries[c] + N(Room(c)) + N(Spoiled(c)) <= 1 + Capped(c) + faults + edits + blips
    BY <1>3 DEF Tried
  <2> QED BY <1>t, <1>u, <2>4, <2>5, <2>6, <2>7 DEF N
<1> QED BY <1>1, <1>2, <1>3

\* A fault ends at most one pass, a change of the Machine spoils at most one.
LEMMA TriedByOthers ==
  ASSUME TypeOK, TypeOK', MaxOnRemoveRetries # 0, CopyIsCurrent, ExistsWasBorn, Next, ~Pass,
         ~\E d \in Configs : Reconcile(d), ~\E d \in Configs : User(d),
         NEW c \in Configs, Tried(c)
  PROVE  Tried(c)'
<1>0. Cur(cfg'[c]) = Cur(cfg[c])
  BY OthersCount
<1>c. Capped(c)' = Capped(c) /\ Rm(c)' = Rm(c)
  BY <1>0 DEF Capped, Rm
<1>s. /\ ~CreateDecommission /\ ~DeleteFailedDecommission /\ ~DeleteDecommissionJob
      /\ ~AnswerLost
  BY DEF Pass, Step
<1>v. rmTries'[c] = rmTries[c] /\ (DecVacant(c)' => DecVacant(c))
  BY <1>s, TrySteps, RoomOnly DEF TryMoves
<1>t. /\ rmTries[c] \in Nat /\ faults \in Nat /\ edits \in Nat /\ blips \in Nat
      /\ Capped(c) \in Nat
  BY TriedTyped
<1> SUFFICES ASSUME Cur(cfg'[c]) # None
             PROVE  rmTries'[c] + N(Room(c)') + N(Spoiled(c)')
                      <= 1 + Capped(c)' + faults' + edits' + blips'
  BY DEF Tried
<1>h. rmTries[c] + N(Room(c)) + N(Spoiled(c)) <= 1 + Capped(c) + faults + edits + blips
  BY <1>0 DEF Tried
<1>1. CASE /\ ctl' = Idle \/ (ctl.pc # "idle" /\ ctl' = AfterError)
           /\ faults' = faults + 1 /\ edits' = edits /\ blips' = blips
  <2>1. Spoiled(c)' => Spoiled(c)
    <3>1. CASE ctl' = Idle
      BY <3>1, ConfigsAreNames DEF Spoiled, Idle
    <3>2. CASE ctl' # Idle
      <4>1. /\ ctl'.c = ctl.c /\ ctl'.fresh = ctl.fresh /\ ctl'.mfresh = ctl.mfresh
            /\ \/ ctl'.pc = "status"
               \/ ctl'.pc = "decommission" /\ ctl.pc = "removing"
               \/ ctl'.pc = "finalize" /\ ctl.pc = "createDec"
        BY <1>1, <3>2, BusyHere DEF AfterError, Busy, At
      <4> QED BY <4>1 DEF Spoiled, Ending, RemovalPCs
    <3> QED BY <3>1, <3>2
  <2> QED BY <1>1, <1>c, <1>h, <1>t, <1>v, <2>1 DEF N
<1>2. CASE /\ ctl' = ctl \/ ctl' = [ctl EXCEPT !.mfresh = FALSE]
           /\ faults' = faults /\ edits' = edits
           /\ blips' = blips + 1 \/ (blips' = blips /\ ctl' = ctl)
  <2>1. ctl'.pc = ctl.pc /\ ctl'.c = ctl.c
    BY <1>2 DEF TypeOK, Busy, Idle
  <2>2. (Room(c)' => Room(c)) /\ (ctl' = ctl => (Spoiled(c)' => Spoiled(c)))
    BY <1>c, <1>v, <2>1 DEF Room, Spoiled
  <2>3. CASE blips' = blips + 1
    BY <1>2, <1>c, <1>h, <1>t, <1>v, <2>2, <2>3 DEF N
  <2>4. CASE blips' = blips /\ ctl' = ctl
    BY <1>2, <1>c, <1>h, <1>t, <1>v, <2>2, <2>4 DEF N
  <2> QED BY <1>2, <2>3, <2>4
<1> QED BY <1>1, <1>2, OthersCount

\* Nothing was tried before the configuration was created.
LEMMA NotTriedKept ==
  ASSUME TypeOK, CopyIsCurrent, ExistsWasBorn, RemovalHolds, NotTried, Next
  PROVE  NotTried'
<1> SUFFICES ASSUME NEW c \in Configs, born'[c] = 0 PROVE rmTries'[c] = 0
  BY DEF NotTried
<1>1. born[c] = 0
  <2>a. CASE AnswerLost
    BY <2>a, LostAnswers
  <2>1. CASE Step
    <3>1. ASSUME InstallRetry PROVE UNCHANGED born
      BY <3>1 DEF InstallRetry, InstallChild, history
    <3> QED BY <2>1, <3>1, UncountedSteps, WritesCount DEF Uncounted
  <2>2. ASSUME NEW d \in Configs, User(d) PROVE born[c] = 0
    <3>1. CASE d = c
      BY <2>2, <3>1, UsersCount DEF UserCounts
    <3>2. CASE d # c
      BY <2>2, <3>2, UsersCount
    <3> QED BY <3>1, <3>2
  <2>3. ASSUME NEW d \in Configs, Reconcile(d) PROVE born[c] = 0
    BY <2>3 DEF Reconcile, history
  <2> QED BY <2>1, <2>a, <2>2, <2>3, OthersCount DEF Pass
<1>2. rmTries[c] = 0 /\ Cur(cfg[c]) = None
  BY <1>1 DEF NotTried, ExistsWasBorn
<1>3. CASE (CreateDecommission \/ DecommissionAnswerLost) /\ c = me
  BY <1>2, <1>3 DEF RemovalHolds, CreateDecommission, DecommissionAnswerLost,
       DecommissionCreated, At, RemovalPCs
<1> QED BY <1>2, <1>3, TrySteps DEF TryMoves

\* A new job is within the bound: what is tried for fits the cap.
LEMMA TriesBoundKept ==
  ASSUME TypeOK, TypeOK', MaxOnRemoveRetries # 0, CopyIsCurrent, ExistsWasBorn, RemovalHolds,
         Next, \A c \in Configs : Tried(c), DecommissionsBounded
  PROVE  DecommissionsBounded'
<1> SUFFICES ASSUME NEW c \in Configs
             PROVE  rmTries'[c] <= MaxOnRemoveRetries + faults' + edits' + blips'
  BY DEF DecommissionsBounded
<1>t. /\ rmTries[c] \in Nat /\ faults \in Nat /\ edits \in Nat /\ blips \in Nat
      /\ faults' \in Nat /\ edits' \in Nat /\ blips' \in Nat
      /\ Capped(c) \in Nat /\ Capped(c) < MaxOnRemoveRetries /\ MaxOnRemoveRetries \in Nat
  BY TriedTyped, RetryCaps DEF TypeOK
<1>1. faults' >= faults /\ edits' >= edits /\ blips' >= blips
  <2>1. CASE Step
    BY <1>t, <2>1, StepsKeep
  <2>a. CASE AnswerLost
    BY <1>t, <2>a, LostAnswers
  <2>2. ASSUME NEW d \in Configs, User(d)
        PROVE  faults' = faults /\ edits' >= edits /\ blips' = blips
    BY <1>t, <2>2, UsersCount DEF UserCounts
  <2>3. ASSUME NEW d \in Configs, Reconcile(d)
        PROVE  faults' = faults /\ edits' = edits /\ blips' = blips
    BY <2>3 DEF Reconcile, budgets
  <2> QED BY <1>t, <2>1, <2>a, <2>2, <2>3, OthersCount DEF Pass
<1>2. CASE rmTries'[c] = rmTries[c]
  BY <1>1, <1>2, <1>t DEF DecommissionsBounded
<1>3. CASE /\ CreateDecommission \/ DecommissionAnswerLost
           /\ c = me /\ Cur(dec[c]) = None /\ rmTries'[c] = Counted(rmTries[c])
  <2>1. ctl.pc = "createDec" /\ ctl.c = c
    BY <1>3 DEF CreateDecommission, DecommissionAnswerLost, DecommissionCreated, At, me
  <2>2. Cur(cfg[c]) # None
    BY <2>1 DEF RemovalHolds, RemovalPCs, me
  <2>3. Room(c)
    BY <1>3, <2>1 DEF Room, DecVacant, Ending
  <2>4. rmTries[c] + N(Room(c)) + N(Spoiled(c)) <= 1 + Capped(c) + faults + edits + blips
    BY <2>2 DEF Tried
  <2>5. rmTries'[c] <= rmTries[c] + 1 /\ rmTries'[c] \in Nat
    BY <1>3, <1>t, CountBounds DEF Counted
  <2> QED BY <1>1, <1>t, <2>3, <2>4, <2>5 DEF N
<1> QED BY <1>2, <1>3, TrySteps DEF TryMoves

TriesInv ==
  /\ CacheIsCurrent /\ InSync(mach) /\ RemovalHolds /\ CopyRetries /\ NotTried
  /\ \A c \in Configs : Tried(c)
  /\ DecommissionsBounded

\* The decommission job is created at most MaxOnRemoveRetries times, and once more only for
\* a fault, an edit or a change of the Machine or of the job that keeps a pass from letting go.
THEOREM DecommissionsAreBounded ==
  ReadsSettled /\ MaxOnRemoveRetries # 0 => (Spec => []DecommissionsBounded)
<1> SUFFICES ASSUME ReadsSettled, MaxOnRemoveRetries # 0 PROVE Spec => []DecommissionsBounded
  OBVIOUS
<1>1. Init => TriesInv
  <2> SUFFICES ASSUME Init PROVE TriesInv
    OBVIOUS
  <2>1. CacheIsCurrent /\ InSync(mach)
    BY LogOfOne DEF Init, CacheIsCurrent
  <2>2. RemovalHolds /\ CopyRetries /\ NotTried
    BY DEF Init, RemovalHolds, CopyRetries, NotTried, Idle, RemovalPCs
  <2>3. \A c \in Configs : Tried(c)
    BY DEF Init, Tried, Cur
  <2>4. DecommissionsBounded
    BY RetryCaps DEF Init, DecommissionsBounded
  <2> QED BY <2>1, <2>2, <2>3, <2>4 DEF TriesInv
<1>2. ASSUME TypeOK, TypeOK', MachineCopy, CopyIsCurrent, ExistsWasBorn, MachineStaysGone,
             TriesInv, [Next]_vars
      PROVE  TriesInv'
  <2>1. CASE Next
    <3>1. Lag.config = 0 /\ Lag.machine = 0
      BY <1>2 DEF ReadsSettled, TypeOK, Lag
    <3>2. CacheIsCurrent'
      BY <1>2, <2>1, <3>1, CacheStaysCurrent DEF TriesInv
    <3>3. InSync(mach')
      BY <1>2, <2>1, <3>1, MachineStaysGoneKept DEF TriesInv
    <3>4. RemovalHolds'
      BY <1>2, <2>1, RemovalHoldsKept DEF TriesInv
    <3>5. CopyRetries'
      BY <1>2, <2>1, CopyRetriesKept DEF TriesInv
    <3>6. NotTried'
      BY <1>2, <2>1, NotTriedKept DEF TriesInv
    <3>7. DecommissionsBounded'
      BY <1>2, <2>1, TriesBoundKept DEF TriesInv
    <3>8. ASSUME NEW c \in Configs PROVE Tried(c)'
      <4>1. CASE Step /\ c # me
        BY <1>2, <2>1, <4>1, TriedByOther DEF TriesInv
      <4>2. CASE Step /\ c = me
        BY <1>2, <2>1, <4>2, TriedByPass DEF TriesInv
      <4>a. CASE AnswerLost
        BY <1>2, <2>1, <4>a, TriedByLost DEF TriesInv
      <4>3. CASE \E d \in Configs : Reconcile(d)
        BY <1>2, <4>3, TriedByReconcile DEF TriesInv
      <4>4. CASE \E d \in Configs : User(d)
        BY <1>2, <4>4, TriedByUser DEF TriesInv
      <4>5. CASE /\ ~Pass /\ ~(\E d \in Configs : Reconcile(d))
                 /\ ~(\E d \in Configs : User(d))
        BY <1>2, <2>1, <4>5, TriedByOthers DEF TriesInv
      <4> QED BY <4>1, <4>2, <4>a, <4>3, <4>4, <4>5 DEF Pass
    <3> QED BY <3>2, <3>3, <3>4, <3>5, <3>6, <3>7, <3>8 DEF TriesInv
  <2>2. CASE UNCHANGED vars
    BY <1>2, <2>2 DEF vars, TriesInv, CacheIsCurrent, RemovalHolds, CopyRetries, NotTried, Tried,
         Room, DecVacant, Spoiled, Capped, Rm, DecommissionsBounded, me
  <2> QED BY <1>2, <2>1, <2>2
<1>3. TriesInv => DecommissionsBounded
  BY DEF TriesInv
<1>4. JobReadsSettled
  BY DEF ReadsSettled, JobReadsSettled
<1> QED BY <1>1, <1>2, <1>3, <1>4, StoredInvariant, NoOrphanInvariant, PTL DEF Spec
=============================================================================
