-------------------------- MODULE NixCluster_proofs --------------------------
(***************************************************************************)
(* Theorems about the NixCluster controller: its types, that a cluster     *)
(* that reports Ready has no failed member, and that the selection evicts  *)
(* no member in favour of a newcomer; for any fleet, any number of node    *)
(* groups, any report of the child and any lag of the informers.           *)
(***************************************************************************)
EXTENDS NixCluster, Informer_proofs, FiniteSetTheorems

-----------------------------------------------------------------------------
(* The selection. *)

\* The loop over the groups runs to its end: its results exist, one per turn.
LEMMA SelectionLoop ==
  ASSUME NEW groups, Len(groups) \in Nat, NEW prev
  PROVE  \E f : /\ Selection(groups, prev) = f[Len(groups)]
                /\ f[0] = <<>>
                /\ \A i \in 1 .. Len(groups) : f[i] = WithGroup(groups, prev, i, f[i - 1])
<1> DEFINE Turns(g, k) ==
             g = [i \in 0 .. k |-> IF i = 0 THEN <<>> ELSE WithGroup(groups, prev, i, g[i - 1])]
           T == {k \in Nat : \E g : Turns(g, k)}
<1>1. 0 \in T
  <2> DEFINE g == [i \in 0 .. 0 |-> <<>>]
  <2>1. Turns(g, 0)
    OBVIOUS
  <2> QED BY <2>1
<1>2. ASSUME NEW k \in Nat, k \in T PROVE k + 1 \in T
  <2>1. PICK g : Turns(g, k)
    BY <1>2
  <2> DEFINE last == WithGroup(groups, prev, k + 1, g[k])
             h == [i \in 0 .. (k + 1) |-> IF i = k + 1 THEN last ELSE g[i]]
  <2>2. \A i \in 0 .. k : g[i] = IF i = 0 THEN <<>> ELSE WithGroup(groups, prev, i, g[i - 1])
    BY <2>1
  <2>3. ASSUME NEW i \in 0 .. (k + 1)
        PROVE  h[i] = IF i = 0 THEN <<>> ELSE WithGroup(groups, prev, i, h[i - 1])
    <3>1. CASE i = k + 1
      <4>1. h[i] = last /\ h[i - 1] = g[k] /\ i # 0
        BY <1>2, <3>1
      <4> QED BY <3>1, <4>1
    <3>2. CASE i # k + 1 /\ i # 0
      <4>1. i \in 0 .. k /\ i - 1 \in 0 .. k /\ i - 1 # k + 1
        BY <1>2, <3>2
      <4>2. h[i] = g[i] /\ h[i - 1] = g[i - 1]
        BY <1>2, <3>2, <4>1
      <4> QED BY <2>2, <3>2, <4>1, <4>2
    <3>3. CASE i = 0
      <4>1. h[i] = g[0] /\ 0 \in 0 .. k
        BY <1>2, <3>3
      <4> QED BY <2>2, <3>3, <4>1
    <3> QED BY <3>1, <3>2, <3>3
  <2>4. Turns(h, k + 1)
    <3>1. h = [i \in 0 .. (k + 1) |-> h[i]]
      OBVIOUS
    <3> HIDE DEF h
    <3> QED BY <2>3, <3>1
  <2> HIDE DEF h, Turns
  <2> QED BY <1>2, <2>4
<1>3. Len(groups) \in T
  <2> HIDE DEF T
  <2> QED BY <1>1, <1>2, SetInduction
<1> DEFINE f == CHOOSE g : Turns(g, Len(groups))
<1>4. Turns(f, Len(groups))
  <2> HIDE DEF Turns
  <2> QED BY <1>3, Zenon
<1>5. Selection(groups, prev) = f[Len(groups)]
  BY Zenon DEF Selection
<1>6. f[0] = <<>> /\ \A i \in 1 .. Len(groups) : f[i] = WithGroup(groups, prev, i, f[i - 1])
  <2> HIDE DEF f
  <2> QED BY <1>4
<1> QED BY <1>5, <1>6

\* What group i selects when the groups before it claimed some machines.
Picks(groups, prev, i, claimed) ==
  SelectGroupMembers(MatchingMachines(groups[i].sel, claimed),
                     IF i \in DOMAIN prev THEN prev[i] ELSE {}, groups[i].count)

\* A group selects among its candidates.
LEMMA PicksCandidates ==
  ASSUME NEW c, NEW p, NEW n
  PROVE  SelectGroupMembers(c, p, n) \subseteq c
BY DEF SelectGroupMembers, Lowest

\* Each group selects from what the groups before it left.
LEMMA SelectionSelects ==
  ASSUME NEW groups \in Seq(Group), NEW prev
  PROVE  /\ Selection(groups, prev) \in [1 .. Len(groups) -> SUBSET Names]
         /\ \A i \in 1 .. Len(groups) :
              Selection(groups, prev)[i] =
                Picks(groups, prev, i, UNION {Selection(groups, prev)[j] : j \in 1 .. (i - 1)})
<1>1. Len(groups) \in Nat
  OBVIOUS
<1>2. PICK f : /\ Selection(groups, prev) = f[Len(groups)]
               /\ f[0] = <<>>
               /\ \A i \in 1 .. Len(groups) : f[i] = WithGroup(groups, prev, i, f[i - 1])
  BY <1>1, SelectionLoop
<1> DEFINE Good(s, k) ==
             /\ s \in [1 .. k -> SUBSET Names]
             /\ \A i \in 1 .. k : s[i] = Picks(groups, prev, i, UNION {s[j] : j \in 1 .. (i - 1)})
           T == {k \in Nat : k <= Len(groups) => Good(f[k], k)}
<1>3. 0 \in T
  <2>1. <<>> \in [1 .. 0 -> SUBSET Names]
    <3>1. <<>> \in Seq(SUBSET Names) /\ Len(<<>>) = 0
      OBVIOUS
    <3> QED BY <3>1, LenProperties
  <2>2. \A i \in 1 .. 0 : FALSE
    OBVIOUS
  <2> QED BY <1>2, <2>1, <2>2
<1>4. ASSUME NEW k \in Nat, k \in T PROVE k + 1 \in T
  <2> HIDE DEF Good
  <2> SUFFICES ASSUME k + 1 <= Len(groups) PROVE Good(f[k + 1], k + 1)
    BY <1>4
  <2> USE DEF Good
  <2> DEFINE s == f[k]
             x == Picks(groups, prev, k + 1, Claimed(s))
             t == Append(s, x)
  <2>1. Good(s, k)
    BY <1>1, <1>4
  <2>2. f[k + 1] = t
    <3>1. k + 1 \in 1 .. Len(groups) /\ (k + 1) - 1 = k
      BY <1>1, <1>4
    <3>2. f[k + 1] = WithGroup(groups, prev, k + 1, f[k])
      BY <1>2, <3>1
    <3> QED BY <3>2, Zenon DEF WithGroup, Picks
  <2>3. x \in SUBSET Names
    BY PicksCandidates DEF Picks, MatchingMachines
  <2>4. s \in Seq(SUBSET Names) /\ Len(s) = k /\ DOMAIN s = 1 .. k
    <3>1. s \in [1 .. k -> SUBSET Names]
      BY <2>1
    <3> HIDE DEF s
    <3>2. s \in Seq(SUBSET Names)
      BY <1>4, <3>1, SeqDef
    <3>3. DOMAIN s = 1 .. k /\ DOMAIN s = 1 .. Len(s) /\ Len(s) \in Nat
      BY <3>1, <3>2, LenProperties
    <3> QED BY <1>4, <3>2, <3>3
  <2>5. Claimed(s) = UNION {s[j] : j \in 1 .. k}
    BY <2>4 DEF Claimed
  <2> HIDE DEF x, s
  <2>6. /\ t \in [1 .. (k + 1) -> SUBSET Names]
        /\ t[k + 1] = x
        /\ \A j \in 1 .. k : t[j] = s[j]
    <3>1. /\ t \in Seq(SUBSET Names) /\ Len(t) = Len(s) + 1 /\ t[Len(s) + 1] = x
          /\ \A j \in 1 .. Len(s) : t[j] = s[j]
      BY <2>3, <2>4, AppendProperties
    <3> HIDE DEF t
    <3>2. t \in [1 .. Len(t) -> SUBSET Names]
      BY <3>1, LenProperties
    <3>3. Len(s) = k /\ Len(t) = k + 1
      BY <2>4, <3>1
    <3> QED BY <3>1, <3>2, <3>3
  <2> HIDE DEF t
  <2>7. ASSUME NEW i \in 1 .. (k + 1)
        PROVE  t[i] = Picks(groups, prev, i, UNION {t[j] : j \in 1 .. (i - 1)})
    <3>1. {t[j] : j \in 1 .. (i - 1)} = {s[j] : j \in 1 .. (i - 1)}
      BY <1>4, <2>6, <2>7
    <3>2. CASE i = k + 1
      <4>1. UNION {t[j] : j \in 1 .. (i - 1)} = Claimed(s)
        <5>1. i - 1 = k
          BY <1>4, <3>2
        <5> QED BY <2>5, <3>1, <5>1
      <4> QED BY <2>6, <3>2, <4>1 DEF x
    <3>3. CASE i \in 1 .. k
      BY <2>1, <2>6, <3>1, <3>3
    <3> QED BY <1>4, <2>7, <3>2, <3>3
  <2> QED BY <2>2, <2>6, <2>7
<1>5. Len(groups) \in T
  <2> HIDE DEF T
  <2> QED BY <1>1, <1>3, <1>4, SetInduction
<1> QED BY <1>1, <1>2, <1>5

\* The selection is a list of sets of Machines, one for each group.
LEMMA SelectionTyped ==
  ASSUME NEW groups \in Seq(Group), NEW prev
  PROVE  Selection(groups, prev) \in Seq(SUBSET Names)
<1>1. Len(groups) \in Nat /\ Selection(groups, prev) \in [1 .. Len(groups) -> SUBSET Names]
  BY SelectionSelects
<1> QED BY <1>1, SeqDef

-----------------------------------------------------------------------------
(* What a step writes.                                                     *)

\* The objects whose status is honest: Ready only if no member is Failed.
Honest ==
  {v \in ClusterObject : v.phase = "Ready" => \A m \in Names : v.told[m] # "Failed"}

HonestVersion == Honest \cup {None}
CronVersion == CronObject \cup {None}

HonestBusy == [pc : PCs \ {"idle"}, obj : Honest, fresh : BOOLEAN,
               sel : Seq(SUBSET Names), under : BOOLEAN]

\* TypeOK, with every version that was ever stored or cached, and the working copy
\* of every pass, honest.  The working copy is what the next status is made from,
\* and the cached versions are what the next pass starts with.
ClusterInv ==
  /\ cluster \in Logs(HonestVersion)
  /\ cron \in Logs(CronVersion)
  /\ machines \in [Names -> MachineObject \cup {None}]
  /\ builder \in {None} \cup SUBSET Systems
  /\ ctl \in HonestBusy \cup {Idle}
  /\ set \in Settings /\ created \in BOOLEAN /\ upsets \in Nat

\* An honest status is typed.
LEMMA InvTyped ==
  ASSUME ClusterInv
  PROVE  TypeOK
<1>1. HonestVersion \subseteq ClusterObject \cup {None}
  BY DEF HonestVersion, Honest
<1>2. cluster \in Logs(ClusterObject \cup {None})
  <2>1. cluster \in Logs(HonestVersion)
    BY DEF ClusterInv
  <2> HIDE DEF HonestVersion, ClusterObject
  <2> QED BY <1>1, <2>1, LogWidened
<1>3. HonestBusy \subseteq Busy
  BY DEF HonestBusy, Busy, Honest
<1> QED BY <1>2, <1>3 DEF ClusterInv, TypeOK, CronVersion

\* The bounds and choices of the setting.
LEMMA SettingTyped ==
  ASSUME ClusterInv
  PROVE  /\ set.cluster \in Nat /\ set.cron \in Nat /\ set.upsets \in Nat
         /\ set.specs \subseteq SpecObject
         /\ set.fleets \subseteq [Names -> MachineObject \cup {None}]
         /\ set.builders \subseteq {None} \cup SUBSET Systems
BY SettingsAreSettings DEF ClusterInv

\* The stored and the cached objects have their types.
LEMMA VersionsTyped ==
  ASSUME ClusterInv
  PROVE  /\ Cur(cluster) \in HonestVersion /\ Seen(cluster) \in HonestVersion
         /\ Cur(cron) \in CronVersion /\ Seen(cron) \in CronVersion
BY LogVersions DEF ClusterInv

\* A pass that is not idle has a NixCluster in hand.
LEMMA BusyHere ==
  ASSUME ClusterInv, ctl.pc # "idle"
  PROVE  /\ ctl \in HonestBusy /\ ctl.obj \in Honest /\ ctl.fresh \in BOOLEAN
         /\ ctl.sel \in Seq(SUBSET Names) /\ ctl.under \in BOOLEAN
BY DEF ClusterInv, Idle, HonestBusy

\* Writes keep the log of the NixCluster, and that of the NixCronJob.
LEMMA Written ==
  ASSUME ClusterInv
  PROVE  /\ \A v \in HonestVersion : WriteCluster(v) => cluster' \in Logs(HonestVersion)
         /\ \A v \in CronVersion : Put(set.cron, cron, v) \in Logs(CronVersion)
<1>1. /\ cluster \in Logs(HonestVersion) /\ set.cluster \in Nat
      /\ cron \in Logs(CronVersion) /\ set.cron \in Nat
  BY SettingTyped DEF ClusterInv
<1> HIDE DEF HonestVersion, CronVersion
<1> QED BY <1>1, LogPut DEF WriteCluster

\* What a failing pass reports is honest: it is never Ready.
LEMMA FailedHonest ==
  ASSUME NEW o \in Honest, NEW p \in {"Blocked", "Degraded"}, NEW r \in Stalls
  PROVE  Failed(o, p, r) \in Honest
BY DEF Failed, Honest, ClusterObject, Phases

\* What users and the finalizer change leaves the status as it was.
LEMMA MetadataHonest ==
  ASSUME NEW o \in Honest
  PROVE  /\ [o EXCEPT !.fin = TRUE] \in Honest
         /\ [o EXCEPT !.del = TRUE] \in Honest
         /\ \A s \in SpecObject : [o EXCEPT !.spec = s, !.gen = @ + 1] \in Honest
<1>1. [o EXCEPT !.fin = TRUE] \in Honest /\ [o EXCEPT !.del = TRUE] \in Honest
  BY DEF Honest, ClusterObject
<1>2. ASSUME NEW s \in SpecObject PROVE [o EXCEPT !.spec = s, !.gen = @ + 1] \in Honest
  <2> DEFINE g == o.gen + 1
  <2>1. g \in Nat
    BY DEF Honest, ClusterObject
  <2>2. [o EXCEPT !.spec = s, !.gen = @ + 1] = [o EXCEPT !.spec = s, !.gen = g]
    BY DEF Honest, ClusterObject
  <2> HIDE DEF g
  <2> QED BY <1>2, <2>1, <2>2 DEF Honest, ClusterObject
<1> QED BY <1>1, <1>2

\* A new NixCluster has no status yet.
LEMMA NewHonest ==
  ASSUME NEW s \in SpecObject
  PROVE  [del |-> FALSE, fin |-> FALSE, gen |-> 1, spec |-> s, members |-> <<>>,
          told |-> [m \in Names |-> ""], phase |-> "", stalled |-> "",
          under |-> FALSE, seen |-> 0] \in Honest
<1> DEFINE t == [m \in Names |-> ""]
           e == <<>>
<1>1. t \in [Names -> MemberStatuses] /\ e \in Seq(SUBSET Names)
  BY DEF MemberStatuses
<1>2. "" \in Phases /\ "" \in Stalls /\ "" # "Ready"
  BY DEF Phases, Stalls
<1> HIDE DEF t, e
<1>3. [del |-> FALSE, fin |-> FALSE, gen |-> 1, spec |-> s, members |-> e,
       told |-> t, phase |-> "", stalled |-> "", under |-> FALSE, seen |-> 0] \in Honest
  BY <1>1, <1>2 DEF Honest, ClusterObject
<1> QED BY <1>3 DEF t, e

\* What a pass observed is honest: the phase is Ready only if the child's latest run
\* has not failed, and then no member is told to have.
LEMMA ObservedHonest ==
  ASSUME NEW o \in Honest, NEW k \in CronVersion,
         ctl.sel \in Seq(SUBSET Names), ctl.under \in BOOLEAN
  PROVE  Observed(o, k) \in Honest
<1> DEFINE all == Claimed(ctl.sel)
           c == Cardinality(all)
           t == [m \in Names |-> IF m \in all THEN CoarseMemberStatus(k, o.told[m]) ELSE ""]
           p == ClusterPhase(k, c)
           s == StallOf(o, k)
<1>1. t \in [Names -> MemberStatuses]
  <2>1. \A m \in Names : o.told[m] \in MemberStatuses
    BY DEF Honest, ClusterObject
  <2> HIDE DEF all
  <2> QED BY <2>1 DEF CoarseMemberStatus, MemberStatuses
<1>2. p \in Phases /\ s \in Stalls
  <2> HIDE DEF c
  <2> QED BY DEF ClusterPhase, Phases, StallOf, Stalls
<1>3. p = "Ready" => k # None /\ ~k.rep.stalled /\ ~k.rep.failed /\ k.rep.phase # "Degraded"
  <2> HIDE DEF c
  <2> QED BY DEF ClusterPhase
<1>4. ASSUME p = "Ready", NEW m \in Names
      PROVE  t[m] # "Failed"
  <2> HIDE DEF p, all
  <2> QED BY <1>3, <1>4 DEF CoarseMemberStatus
<1>5. Observed(o, k) = [o EXCEPT !.members = ctl.sel, !.told = t, !.phase = p, !.stalled = s,
                                 !.under = ctl.under, !.seen = o.gen]
  BY DEF Observed
<1> HIDE DEF t, p, s, all, c
<1> QED BY <1>1, <1>2, <1>4, <1>5 DEF Honest, ClusterObject

\* The child as the cluster wants it, whatever it was.
LEMMA DesiredTyped ==
  ASSUME NEW k \in CronVersion, NEW nodes \in SUBSET Names
  PROVE  DesiredConvergeCronJob(k, nodes) \in CronVersion
<1>1. NoReport \in ReportObject
  BY DEF NoReport, ReportObject
<1>2. CASE k = None
  BY <1>1, <1>2 DEF DesiredConvergeCronJob, CronVersion, CronObject
<1>3. CASE k # None
  <2>1. k.del \in BOOLEAN /\ k.rep \in ReportObject
    BY <1>3 DEF CronVersion, CronObject
  <2> QED BY <1>3, <2>1 DEF DesiredConvergeCronJob, CronVersion, CronObject
<1> QED BY <1>2, <1>3

\* Members are Machines.
LEMMA ClaimedTyped ==
  ASSUME NEW s \in Seq(SUBSET Names)
  PROVE  Claimed(s) \in SUBSET Names
BY DEF Claimed

\* The child with one field changed.
LEMMA CronTyped ==
  ASSUME NEW k \in CronObject
  PROVE  /\ [k EXCEPT !.susp = TRUE] \in CronVersion
         /\ [k EXCEPT !.del = TRUE] \in CronVersion
         /\ \A r \in ReportObject : [k EXCEPT !.rep = r] \in CronVersion
BY DEF CronObject, CronVersion

-----------------------------------------------------------------------------
(* Every step keeps the invariant. *)

\* Steps that write neither the NixCluster nor the NixCronJob.
LEMMA OnlyPass ==
  ASSUME ClusterInv, UNCHANGED <<cluster, cron, machines, builder, set, created>>,
         upsets' \in Nat, ctl' \in HonestBusy \cup {Idle}
  PROVE  ClusterInv'
BY DEF ClusterInv

\* Steps that write one of them.
LEMMA OnlyClusters ==
  ASSUME ClusterInv, UNCHANGED <<machines, builder, set>>,
         cluster' \in Logs(HonestVersion), cron' \in Logs(CronVersion),
         created' \in BOOLEAN, upsets' \in Nat, ctl' \in HonestBusy \cup {Idle}
  PROVE  ClusterInv'
BY DEF ClusterInv

\* A pass goes on with another status in hand.
LEMMA PassMoves ==
  ASSUME ClusterInv, ctl.pc # "idle", NEW p \in PCs \ {"idle"}, NEW o \in Honest,
         ctl' = [ctl EXCEPT !.pc = p, !.obj = o]
  PROVE  ctl' \in HonestBusy
BY BusyHere DEF HonestBusy

\* The pass that selected.
LEMMA PassSelects ==
  ASSUME ClusterInv, ctl.pc # "idle", NEW p \in PCs \ {"idle"},
         ctl' = [ctl EXCEPT !.pc = p, !.sel = Selection(ctl.obj.spec.groups, ctl.obj.members),
                            !.under = Underprovisioned(ctl.obj.spec.groups,
                                        Selection(ctl.obj.spec.groups, ctl.obj.members))]
  PROVE  ctl' \in HonestBusy
<1> DEFINE s == Selection(ctl.obj.spec.groups, ctl.obj.members)
           u == Underprovisioned(ctl.obj.spec.groups, s)
<1>1. ctl \in HonestBusy /\ ctl.obj.spec.groups \in Seq(Group)
  BY BusyHere DEF Honest, ClusterObject, SpecObject
<1>2. s \in Seq(SUBSET Names)
  BY <1>1, SelectionTyped
<1>3. u \in BOOLEAN
  BY DEF Underprovisioned
<1> HIDE DEF s, u
<1>4. ctl' = [ctl EXCEPT !.pc = p, !.sel = s, !.under = u]
  BY DEF s, u
<1> QED BY <1>1, <1>2, <1>3, <1>4 DEF HonestBusy

\* Every step of a pass keeps the invariant.
LEMMA StepKeeps ==
  ASSUME ClusterInv, Step
  PROVE  ClusterInv'
<1>0. /\ cluster \in Logs(HonestVersion) /\ cron \in Logs(CronVersion)
      /\ created \in BOOLEAN /\ upsets \in Nat
  BY DEF ClusterInv
<1>1. CASE AddFinalizer
  <2>1. ctl \in HonestBusy /\ ctl.obj \in Honest
    BY <1>1, BusyHere DEF AddFinalizer, At
  <2>2. [ctl.obj EXCEPT !.fin = TRUE] \in Honest
    BY <2>1, MetadataHonest
  <2>3. cluster' \in Logs(HonestVersion)
    BY <1>1, <2>2, Written DEF AddFinalizer, HonestVersion
  <2>4. ctl' = [ctl EXCEPT !.pc = "select", !.obj = [ctl.obj EXCEPT !.fin = TRUE]]
    BY <1>1, <2>1 DEF AddFinalizer, HonestBusy, Honest, ClusterObject
  <2>5. ctl' \in HonestBusy
    BY <1>1, <2>2, <2>4, PassMoves DEF PCs, AddFinalizer, At
  <2> QED BY <1>0, <1>1, <2>3, <2>5, OnlyClusters DEF AddFinalizer, env
<1>2. CASE DropOnConflict
  BY <1>0, <1>2, OnlyPass DEF DropOnConflict, env
<1>3. ASSUME ctl.pc # "idle", NEW p \in {"Blocked", "Degraded"}, NEW r \in Stalls,
             ctl' = [ctl EXCEPT !.pc = "fail", !.obj = Failed(@, p, r)]
      PROVE  ctl' \in HonestBusy
  <2>1. ctl \in HonestBusy /\ ctl.obj \in Honest
    BY <1>3, BusyHere
  <2>2. Failed(ctl.obj, p, r) \in Honest
    BY <2>1, FailedHonest
  <2>3. ctl' = [ctl EXCEPT !.pc = "fail", !.obj = Failed(ctl.obj, p, r)]
    BY <1>3, <2>1 DEF HonestBusy
  <2> QED BY <1>3, <2>2, <2>3, PassMoves DEF PCs
<1>4. CASE InvalidGroups
  <2>1. PICK r \in {"SelectionComplete", "InvalidNodeFile"} :
          ctl' = [ctl EXCEPT !.pc = "fail", !.obj = Failed(@, "Blocked", r)]
    BY <1>4 DEF InvalidGroups
  <2>2. ctl' \in HonestBusy
    BY <1>3, <1>4, <2>1 DEF InvalidGroups, At, Stalls
  <2> QED BY <1>0, <1>4, <2>2, OnlyPass DEF InvalidGroups, env
<1>5. CASE SelectMembers
  <2> DEFINE p == IF Mismatch(ctl.obj.spec, Selection(ctl.obj.spec.groups, ctl.obj.members))
                  THEN "suspend" ELSE "ensure"
  <2>1. p \in PCs \ {"idle"}
    BY DEF PCs
  <2>2. ctl' = [ctl EXCEPT !.pc = p, !.sel = Selection(ctl.obj.spec.groups, ctl.obj.members),
                           !.under = Underprovisioned(ctl.obj.spec.groups,
                                       Selection(ctl.obj.spec.groups, ctl.obj.members))]
    BY <1>5, Zenon DEF SelectMembers
  <2> HIDE DEF p
  <2>3. ctl' \in HonestBusy
    <3>1. ctl.pc # "idle"
      BY <1>5 DEF SelectMembers, At
    <3> QED BY <2>1, <2>2, <3>1, PassSelects
  <2> QED BY <1>0, <1>5, <2>3, OnlyPass DEF SelectMembers, env
<1>6. CASE SuspendConvergeCronJob
  <2>1. cron' \in Logs(CronVersion)
    <3>1. CASE Seen(cron) # None /\ InSync(cron)
      <4>1. [Seen(cron) EXCEPT !.susp = TRUE] \in CronVersion
        BY <3>1, CronTyped, VersionsTyped DEF CronVersion
      <4>2. cron' = Put(set.cron, cron, [Seen(cron) EXCEPT !.susp = TRUE])
        BY <1>6, <3>1 DEF SuspendConvergeCronJob
      <4> QED BY <4>1, <4>2, Written
    <3>2. CASE ~(Seen(cron) # None /\ InSync(cron))
      BY <1>0, <1>6, <3>2 DEF SuspendConvergeCronJob
    <3> QED BY <3>1, <3>2
  <2>2. ctl' \in HonestBusy
    BY <1>3, <1>6 DEF SuspendConvergeCronJob, At, Stalls
  <2> QED BY <1>0, <1>6, <2>1, <2>2, OnlyClusters DEF SuspendConvergeCronJob, env
<1>7. CASE EnsureConvergeCronJob
  <2> DEFINE new == DesiredConvergeCronJob(Seen(cron), Claimed(ctl.sel))
  <2>1. ctl \in HonestBusy /\ new \in CronVersion
    BY <1>7, BusyHere, ClaimedTyped, VersionsTyped, DesiredTyped DEF EnsureConvergeCronJob, At
  <2>2. cron' = IF InSync(cron) THEN Put(set.cron, cron, new) ELSE cron
    BY <1>7 DEF EnsureConvergeCronJob
  <2> HIDE DEF new
  <2>3. cron' \in Logs(CronVersion)
    BY <1>0, <2>1, <2>2, Written
  <2>4. ctl' \in HonestBusy
    BY <1>7, <2>1 DEF EnsureConvergeCronJob, Goto, HonestBusy, PCs
  <2> QED BY <1>0, <1>7, <2>3, <2>4, OnlyClusters DEF EnsureConvergeCronJob, env
<1>8. CASE EnsureFails
  <2>1. ctl' \in HonestBusy
    BY <1>3, <1>8 DEF EnsureFails, At, Stalls
  <2> QED BY <1>0, <1>8, <2>1, OnlyPass DEF EnsureFails, env
<1>9. CASE ObserveCron
  <2>1. ctl \in HonestBusy /\ ctl.obj \in Honest /\ Observed(ctl.obj, Seen(cron)) \in Honest
    BY <1>9, BusyHere, VersionsTyped, ObservedHonest DEF ObserveCron, At
  <2>2. ctl' = [ctl EXCEPT !.pc = "status", !.obj = Observed(ctl.obj, Seen(cron))]
    BY <1>9, <2>1 DEF ObserveCron, HonestBusy
  <2>3. ctl' \in HonestBusy
    BY <1>9, <2>1, <2>2, PassMoves DEF PCs, ObserveCron, At
  <2> QED BY <1>0, <1>9, <2>3, OnlyPass DEF ObserveCron, env
<1>10. CASE StatusUpdate
  <2>1. ctl.obj \in HonestVersion
    BY <1>10, BusyHere DEF StatusUpdate, HonestVersion
  <2>2. cluster' \in Logs(HonestVersion)
    BY <1>10, <2>1, Written DEF StatusUpdate
  <2> QED BY <1>0, <1>10, <2>2, OnlyClusters DEF StatusUpdate, env
<1>11. CASE DeleteCron
  <2>1. ctl \in HonestBusy
    BY <1>11, BusyHere DEF DeleteCron, At
  <2>2. ctl' \in HonestBusy \cup {Idle}
    BY <1>11, <2>1 DEF DeleteCron, Goto, HonestBusy, PCs
  <2>3. cron' \in Logs(CronVersion)
    <3>1. CASE Cur(cron) = None
      BY <1>0, <1>11, <3>1 DEF DeleteCron
    <3>2. CASE Cur(cron) # None
      <4>1. [Cur(cron) EXCEPT !.del = TRUE] \in CronVersion
        BY <3>2, CronTyped, VersionsTyped DEF CronVersion
      <4>2. cron' = Put(set.cron, cron, [Cur(cron) EXCEPT !.del = TRUE])
        BY <1>11, <3>2 DEF DeleteCron
      <4> QED BY <4>1, <4>2, Written
    <3> QED BY <3>1, <3>2
  <2> QED BY <1>0, <1>11, <2>2, <2>3, OnlyClusters DEF DeleteCron, env
<1>12. CASE Finalize
  <2>1. cluster' \in Logs(HonestVersion)
    BY <1>12, Written DEF Finalize, HonestVersion
  <2> QED BY <1>0, <1>12, <2>1, OnlyClusters DEF Finalize, env
<1> QED BY <1>1, <1>2, <1>4, <1>5, <1>6, <1>7, <1>8, <1>9, <1>10, <1>11, <1>12 DEF Step

\* So do the start of a pass and the faults.
LEMMA FaultKeeps ==
  ASSUME ClusterInv, Reconcile \/ BuilderUnreadable \/ ApiError \/ EnsureAnswerLost \/ Crash
  PROVE  ClusterInv'
<1>0. /\ cluster \in Logs(HonestVersion) /\ cron \in Logs(CronVersion)
      /\ created \in BOOLEAN /\ upsets \in Nat
  BY DEF ClusterInv
<1>1. CASE Reconcile
  <2> DEFINE o == Seen(cluster)
             p == IF o.del THEN "remove" ELSE IF o.fin THEN "select" ELSE "addFinalizer"
             f == InSync(cluster)
  <2>1. o \in Honest
    BY <1>1, VersionsTyped DEF Reconcile, HonestVersion
  <2>2. ctl' = [Idle EXCEPT !.pc = p, !.obj = o, !.fresh = f]
    BY <1>1 DEF Reconcile
  <2>3. p \in PCs \ {"idle"} /\ f \in BOOLEAN
    BY DEF PCs, InSync
  <2> HIDE DEF o, p, f
  <2>4. <<>> \in Seq(SUBSET Names)
    OBVIOUS
  <2>5. ctl' \in HonestBusy
    BY <2>1, <2>2, <2>3, <2>4 DEF Idle, HonestBusy
  <2> QED BY <1>0, <1>1, <2>5, OnlyPass DEF Reconcile, env
<1>2. CASE BuilderUnreadable
  <2>1. ctl.pc # "idle" /\ "ensure" \in PCs \ {"idle"}
    BY <1>2 DEF BuilderUnreadable, At, PCs
  <2>2. ctl' = [ctl EXCEPT !.pc = "ensure",
                           !.sel = Selection(ctl.obj.spec.groups, ctl.obj.members),
                           !.under = Underprovisioned(ctl.obj.spec.groups,
                                       Selection(ctl.obj.spec.groups, ctl.obj.members))]
    BY <1>2, Zenon DEF BuilderUnreadable
  <2>3. ctl' \in HonestBusy
    BY <2>1, <2>2, PassSelects
  <2>4. upsets' \in Nat
    BY <1>0, <1>2 DEF BuilderUnreadable, Disturb
  <2> QED BY <1>2, <2>3, <2>4, OnlyPass DEF BuilderUnreadable
<1>3. CASE ApiError
  <2>1. ctl \in HonestBusy /\ ctl.obj \in Honest /\ ctl.pc # "idle"
    BY <1>3, BusyHere DEF ApiError, At
  <2>2. /\ Observed(ctl.obj, None) \in Honest
        /\ Failed(ctl.obj, "Blocked", "BuilderSystemMismatch") \in Honest
        /\ Failed(ctl.obj, "Degraded", "Failed") \in Honest
    BY <2>1, BusyHere, ObservedHonest, FailedHonest DEF CronVersion, Stalls
  <2>3. ctl' \in HonestBusy \cup {Idle}
    <3>1. CASE At("observe")
      <4>1. ctl' = [ctl EXCEPT !.pc = "status", !.obj = Observed(ctl.obj, None)]
        BY <1>3, <2>1, <3>1 DEF ApiError, At, HonestBusy
      <4> QED BY <2>1, <2>2, <4>1, PassMoves DEF PCs
    <3>2. CASE At("suspend")
      <4>1. ctl' = [ctl EXCEPT !.pc = "fail",
                               !.obj = Failed(ctl.obj, "Blocked", "BuilderSystemMismatch")]
        BY <1>3, <2>1, <3>2 DEF ApiError, At, HonestBusy
      <4> QED BY <2>1, <2>2, <4>1, PassMoves DEF PCs
    <3>3. CASE At("ensure")
      <4>1. ctl' = [ctl EXCEPT !.pc = "fail", !.obj = Failed(ctl.obj, "Degraded", "Failed")]
        BY <1>3, <2>1, <3>3 DEF ApiError, At, HonestBusy
      <4> QED BY <2>1, <2>2, <4>1, PassMoves DEF PCs
    <3>4. CASE ~At("observe") /\ ~At("suspend") /\ ~At("ensure")
      BY <1>3, <3>4 DEF ApiError
    <3> QED BY <3>1, <3>2, <3>3, <3>4
  <2>4. upsets' \in Nat
    BY <1>0, <1>3 DEF ApiError, Disturb
  <2> QED BY <1>3, <2>3, <2>4, OnlyPass DEF ApiError
<1>4. CASE Crash
  <2>1. cluster' = Relisted(cluster) /\ cron' = Relisted(cron) /\ ctl' = Idle
    BY <1>4 DEF Crash
  <2>2. cluster' \in Logs(HonestVersion) /\ cron' \in Logs(CronVersion)
    BY <1>0, <2>1, LogRelisted
  <2>3. upsets' \in Nat
    BY <1>0, <1>4 DEF Crash, Disturb
  <2> QED BY <1>0, <1>4, <2>1, <2>2, <2>3, OnlyClusters DEF Crash
<1>5. CASE EnsureAnswerLost
  <2> DEFINE new == DesiredConvergeCronJob(Seen(cron), Claimed(ctl.sel))
             o == Failed(ctl.obj, "Degraded", "Failed")
  <2>1. ctl \in HonestBusy /\ ctl.obj \in Honest /\ ctl.pc # "idle" /\ new \in CronVersion
    BY <1>5, BusyHere, ClaimedTyped, VersionsTyped, DesiredTyped DEF EnsureAnswerLost, At
  <2>2. cron' = Put(set.cron, cron, new)
    BY <1>5 DEF EnsureAnswerLost, WriteCron
  <2>3. o \in Honest
    BY <2>1, FailedHonest DEF Stalls
  <2>4. ctl' = [ctl EXCEPT !.pc = "fail", !.obj = o]
    BY <1>5, <2>1 DEF EnsureAnswerLost, HonestBusy
  <2> HIDE DEF new, o
  <2>5. cron' \in Logs(CronVersion)
    BY <2>1, <2>2, Written
  <2>6. ctl' \in HonestBusy
    BY <2>1, <2>3, <2>4, PassMoves DEF PCs
  <2>7. upsets' \in Nat
    BY <1>0, <1>5 DEF EnsureAnswerLost, Disturb
  <2> QED BY <1>0, <1>5, <2>5, <2>6, <2>7, OnlyClusters DEF EnsureAnswerLost
<1> QED BY <1>1, <1>2, <1>3, <1>4, <1>5

\* A user's write keeps the pass, which is then outdated.
LEMMA UserWritesKeeps ==
  ASSUME ClusterInv, NEW v \in HonestVersion, UserWrites(v)
  PROVE  cluster' \in Logs(HonestVersion) /\ ctl' \in HonestBusy \cup {Idle}
<1>1. cluster' \in Logs(HonestVersion)
  BY Written DEF UserWrites
<1>2. CASE ctl \in HonestBusy
  BY <1>1, <1>2 DEF UserWrites, HonestBusy
<1>3. CASE ctl = Idle
  <2>1. ctl' = Idle
    BY <1>3 DEF UserWrites, Idle
  <2> QED BY <1>1, <2>1
<1> QED BY <1>2, <1>3 DEF ClusterInv

\* Users, Machines, builders, the NixCronJob controller and the informers keep it too.
LEMMA EnvironmentKeeps ==
  ASSUME ClusterInv, Environment
  PROVE  ClusterInv'
<1>0. /\ cluster \in Logs(HonestVersion) /\ cron \in Logs(CronVersion)
      /\ created \in BOOLEAN /\ upsets \in Nat /\ ctl \in HonestBusy \cup {Idle}
  BY DEF ClusterInv
<1>1. CASE CreateCluster
  <2>1. PICK s \in set.specs :
          UserWrites([del |-> FALSE, fin |-> FALSE, gen |-> 1, spec |-> s, members |-> <<>>,
                      told |-> [m \in Names |-> ""], phase |-> "", stalled |-> "",
                      under |-> FALSE, seen |-> 0])
    BY <1>1, Zenon DEF CreateCluster
  <2> DEFINE v == [del |-> FALSE, fin |-> FALSE, gen |-> 1, spec |-> s, members |-> <<>>,
                   told |-> [m \in Names |-> ""], phase |-> "", stalled |-> "",
                   under |-> FALSE, seen |-> 0]
  <2>2. v \in HonestVersion
    <3>1. s \in SpecObject
      BY SettingTyped
    <3> QED BY <3>1, NewHonest, Zenon DEF HonestVersion
  <2> HIDE DEF v
  <2>3. UserWrites(v)
    BY <2>1, Zenon DEF v
  <2>4. cluster' \in Logs(HonestVersion) /\ ctl' \in HonestBusy \cup {Idle}
    BY <2>2, <2>3, UserWritesKeeps
  <2>5. created' = TRUE /\ UNCHANGED <<cron, machines, builder, set, upsets>>
    BY <1>1, Zenon DEF CreateCluster
  <2> QED BY <1>0, <2>4, <2>5, OnlyClusters
<1>2. CASE EditCluster
  <2>1. PICK s \in set.specs : UserWrites([Cur(cluster) EXCEPT !.spec = s, !.gen = @ + 1])
    BY <1>2, Zenon DEF EditCluster
  <2>2. Cur(cluster) \in Honest /\ s \in SpecObject
    BY <1>2, VersionsTyped, SettingTyped DEF EditCluster, HonestVersion
  <2>3. [Cur(cluster) EXCEPT !.spec = s, !.gen = @ + 1] \in HonestVersion
    BY <2>2, MetadataHonest DEF HonestVersion
  <2>4. cluster' \in Logs(HonestVersion) /\ ctl' \in HonestBusy \cup {Idle}
    BY <2>1, <2>3, UserWritesKeeps
  <2>5. upsets' = upsets + 1 /\ UNCHANGED <<cron, machines, builder, set, created>>
    BY <1>2, Zenon DEF EditCluster, Disturb
  <2> QED BY <1>0, <2>4, <2>5, OnlyClusters
<1>3. CASE DeleteCluster
  <2> DEFINE v == IF Cur(cluster).fin THEN [Cur(cluster) EXCEPT !.del = TRUE] ELSE None
  <2>1. v \in HonestVersion
    BY <1>3, VersionsTyped, MetadataHonest DEF DeleteCluster, HonestVersion
  <2>2. UserWrites(v)
    BY <1>3 DEF DeleteCluster
  <2> HIDE DEF v
  <2>3. cluster' \in Logs(HonestVersion) /\ ctl' \in HonestBusy \cup {Idle}
    BY <2>1, <2>2, UserWritesKeeps
  <2> QED BY <1>0, <1>3, <2>3, OnlyClusters DEF DeleteCluster, env
<1>4. CASE BuilderChanges
  <2>1. /\ builder' \in {None} \cup SUBSET Systems
        /\ UNCHANGED <<cluster, cron, machines, ctl, set, created>>
    BY <1>4, SettingTyped DEF BuilderChanges
  <2>2. upsets' \in Nat
    BY <1>0, <1>4 DEF BuilderChanges, Disturb
  <2> QED BY <2>1, <2>2 DEF ClusterInv
<1>5. CASE CronReports
  <2>1. PICK r \in Reports : WriteCron([Cur(cron) EXCEPT !.rep = r])
    BY <1>5 DEF CronReports
  <2>2. [Cur(cron) EXCEPT !.rep = r] \in CronVersion
    BY <1>5, CronTyped, VersionsTyped, ReportsAre DEF CronReports, CronVersion
  <2>3. cron' \in Logs(CronVersion)
    BY <2>1, <2>2, Written DEF WriteCron
  <2>4. upsets' \in Nat
    BY <1>0, <1>5 DEF CronReports, Disturb
  <2> QED BY <1>0, <1>5, <2>3, <2>4, OnlyClusters DEF CronReports
<1>6. CASE CronGoes
  <2> DEFINE v == IF Cur(cron).del THEN None ELSE [Cur(cron) EXCEPT !.del = TRUE]
  <2>1. v \in CronVersion
    BY <1>6, CronTyped, VersionsTyped DEF CronGoes, CronVersion
  <2>2. WriteCron(v)
    BY <1>6 DEF CronGoes
  <2> HIDE DEF v
  <2>3. cron' \in Logs(CronVersion)
    BY <2>1, <2>2, Written DEF WriteCron
  <2> QED BY <1>0, <1>6, <2>3, OnlyClusters DEF CronGoes, env
<1>7. CASE DeliverCluster
  <2>1. cluster' \in Logs(HonestVersion)
    BY <1>0, <1>7, LogDelivered DEF DeliverCluster
  <2> QED BY <1>0, <1>7, <2>1, OnlyClusters DEF DeliverCluster, env
<1>8. CASE DeliverCron
  <2>1. cron' \in Logs(CronVersion)
    BY <1>0, <1>8, LogDelivered DEF DeliverCron
  <2> QED BY <1>0, <1>8, <2>1, OnlyClusters DEF DeliverCron, env
<1>9. ASSUME NEW m \in Names, MachineChanges(m)
      PROVE  ClusterInv'
  <2>1. PICK f \in set.fleets : machines' = [machines EXCEPT ![m] = f[m]]
    BY <1>9 DEF MachineChanges
  <2>2. f \in [Names -> MachineObject \cup {None}]
    BY SettingTyped
  <2>3. machines' \in [Names -> MachineObject \cup {None}]
    BY <2>1, <2>2 DEF ClusterInv
  <2>4. upsets' \in Nat
    BY <1>0, <1>9 DEF MachineChanges, Disturb
  <2> QED BY <1>9, <2>3, <2>4 DEF MachineChanges, ClusterInv
<1> QED BY <1>1, <1>2, <1>3, <1>4, <1>5, <1>6, <1>7, <1>8, <1>9 DEF Environment

\* The invariant holds at the start and every step keeps it.
LEMMA ClusterInvariant ==
  Spec => []ClusterInv
<1>1. Init => ClusterInv
  <2> SUFFICES ASSUME Init PROVE ClusterInv
    OBVIOUS
  <2>1. cluster \in Logs(HonestVersion) /\ cron \in Logs(CronVersion)
    BY LogOfOne DEF Init, HonestVersion, CronVersion
  <2>2. machines \in [Names -> MachineObject \cup {None}] /\ builder \in {None} \cup SUBSET Systems
    BY SettingsAreSettings DEF Init
  <2> QED BY <2>1, <2>2 DEF Init, ClusterInv
<1>2. ClusterInv /\ [Next]_vars => ClusterInv'
  <2> SUFFICES ASSUME ClusterInv, [Next]_vars PROVE ClusterInv'
    OBVIOUS
  <2>1. CASE UNCHANGED vars
    BY <2>1 DEF vars, ClusterInv
  <2>2. CASE Next
    BY <2>2, StepKeeps, FaultKeeps, EnvironmentKeeps DEF Next
  <2> QED BY <2>1, <2>2
<1> QED BY <1>1, <1>2, PTL DEF Spec

\* The type invariant of the NixCluster controller holds in every reachable state.
THEOREM NixClusterTypeCorrect ==
  Spec => []TypeOK
<1>1. ClusterInv => TypeOK
  BY InvTyped
<1> QED BY <1>1, ClusterInvariant, PTL

\* A NixCluster that reports Ready reports no member as Failed, in whichever order
\* passes, crashes, lost calls, reports of the child and late events come: status
\* parts written by different passes (updateStatus, fail) never contradict each other.
THEOREM NixClusterReadyIsHonest ==
  Spec => []ReadyIsHonest
<1>1. ClusterInv => ReadyIsHonest
  BY VersionsTyped DEF ReadyIsHonest, Exists, HonestVersion, Honest
<1> QED BY <1>1, ClusterInvariant, PTL

-----------------------------------------------------------------------------
(* Nobody is displaced. *)

\* What Lowest(S, n) leaves out sorts above everything it takes.
LEMMA LowestBelow ==
  ASSUME NEW S, S \subseteq Nat, IsFiniteSet(S), NEW n \in Nat,
         NEW m \in S, m \notin Lowest(S, n), NEW k \in Lowest(S, n)
  PROVE  k < m
<1> DEFINE B(x) == {y \in S : y < x}
<1>1. SUFFICES ASSUME ~(k < m) PROVE FALSE
  OBVIOUS
<1>2. k \in S /\ B(m) \subseteq B(k)
  <2>1. k \in S /\ k \in Nat /\ m \in Nat
    BY DEF Lowest
  <2>2. \A y \in Nat : y < m => y < k
    BY <1>1, <2>1
  <2> QED BY <2>1, <2>2
<1>3. IsFiniteSet(B(k)) /\ B(k) \subseteq S
  BY FS_Subset
<1>4. Cardinality(B(m)) <= Cardinality(B(k)) /\ Cardinality(B(k)) \in Nat /\ Cardinality(B(m)) \in Nat
  <2> HIDE DEF B
  <2> QED BY <1>2, <1>3, FS_Subset, FS_CardinalityType
<1>5. Cardinality(B(k)) < n /\ ~(Cardinality(B(m)) < n)
  BY DEF Lowest
<1> HIDE DEF B
<1> QED BY <1>4, <1>5

\* If it leaves something out, it takes exactly n.
LEMMA LowestFull ==
  ASSUME NEW S, S \subseteq Nat, IsFiniteSet(S), NEW n \in Nat, S \ Lowest(S, n) # {}
  PROVE  Cardinality(Lowest(S, n)) = n
<1> DEFINE B(x) == {y \in S : y < x}
           L == Lowest(S, n)
<1> SUFFICES Cardinality(L) = n
  OBVIOUS
<1>1. L \subseteq S /\ IsFiniteSet(L)
  BY FS_Subset DEF Lowest
<1>2. Cardinality(L) \in Nat
  BY <1>1, FS_CardinalityType
<1>3. PICK m0 \in S \ L : \A y \in S \ L : m0 <= y
  <2>1. S \ L \subseteq Nat /\ S \ L # {}
    OBVIOUS
  <2> HIDE DEF L
  <2> QED BY <2>1, LeastNat
<1>4. L = B(m0)
  <2>1. \A k \in L : k < m0
    BY <1>3, LowestBelow
  <2> HIDE DEF L
  <2>2. L \subseteq B(m0)
    BY <1>1, <2>1
  <2>3. ASSUME NEW y \in B(m0) PROVE y \in L
    <3>1. y \in S /\ y < m0 /\ y \in Nat /\ m0 \in Nat
      BY <1>3, <2>3
    <3>2. ~(m0 <= y)
      BY <3>1
    <3> QED BY <1>3, <3>1, <3>2
  <2> QED BY <2>2, <2>3
<1>5. ~(Cardinality(L) < n)
  <2>1. ~(Cardinality(B(m0)) < n)
    BY <1>3 DEF Lowest
  <2> QED BY <1>4, <2>1
<1>6. CASE L = {}
  <2>1. Cardinality(L) = 0
    BY <1>6, FS_EmptySet
  <2> HIDE DEF L
  <2> QED BY <1>5, <2>1
<1>7. CASE L # {}
  <2>1. PICK x \in L : \A y \in L : y <= x
    <3>1. L \subseteq Nat /\ m0 \in Nat
      BY <1>1, <1>3
    <3>2. \A y \in L : y < m0
      BY <1>3, LowestBelow
    <3>3. \A y \in L : y <= m0
      <4> HIDE DEF L
      <4> QED BY <3>1, <3>2
    <3> HIDE DEF L
    <3> QED BY <1>7, <3>1, <3>3, GreatestNat
  <2>2. L \ {x} \subseteq B(x) /\ IsFiniteSet(B(x))
    <3>1. B(x) \subseteq S
      OBVIOUS
    <3>2. IsFiniteSet(B(x))
      BY <3>1, FS_Subset
    <3>3. L \ {x} \subseteq B(x)
      <4> HIDE DEF L
      <4> QED BY <1>1, <2>1
    <3> QED BY <3>2, <3>3
  <2>3. Cardinality(B(x)) < n
    BY <2>1 DEF Lowest
  <2> HIDE DEF L, B
  <2>4. Cardinality(L \ {x}) <= Cardinality(B(x)) /\ Cardinality(B(x)) \in Nat
    BY <2>2, FS_Subset, FS_CardinalityType
  <2>5. Cardinality(L \ {x}) = Cardinality(L) - 1
    BY <1>1, <2>1, FS_RemoveElement
  <2> DEFINE cl == Cardinality(L)
             cb == Cardinality(B(x))
  <2>6. cl \in Nat /\ cb \in Nat /\ cl - 1 <= cb /\ cb < n /\ ~(cl < n)
    BY <1>2, <1>5, <2>3, <2>4, <2>5
  <2> HIDE DEF cl, cb
  <2>7. cl = n
    BY <2>6
  <2> QED BY <2>7 DEF cl
<1> QED BY <1>6, <1>7

\* With no place left nobody is taken.
LEMMA LowestOfNone ==
  ASSUME NEW S, IsFiniteSet(S)
  PROVE  Lowest(S, 0) = {}
<1>1. ASSUME NEW x \in S PROVE ~(Cardinality({y \in S : y < x}) < 0)
  <2> DEFINE B == {y \in S : y < x}
  <2>1. B \subseteq S
    OBVIOUS
  <2>2. Cardinality(B) \in Nat
    <3> HIDE DEF B
    <3> QED BY <2>1, FS_Subset, FS_CardinalityType
  <2> HIDE DEF B
  <2>3. ~(Cardinality(B) < 0)
    BY <2>2
  <2> QED BY <2>3 DEF B
<1> QED BY <1>1 DEF Lowest

\* selectGroupMembers lets an earlier member that still matches go only if the count
\* is used up by earlier members that sort below it.
LEMMA MembersKept ==
  ASSUME NEW c, c \subseteq Names, NEW p, NEW n \in Nat \cup {None}, NEW m \in p \cap c,
         m \notin SelectGroupMembers(c, p, n)
  PROVE  /\ Cardinality(SelectGroupMembers(c, p, n)) = n
         /\ \A k \in SelectGroupMembers(c, p, n) : k < m /\ k \in p
<1>1. n # None /\ n \in Nat
  BY DEF SelectGroupMembers
<1> DEFINE P == p \cap c
           kept == Lowest(P, n)
           above == {x \in c \ kept : \A k \in kept : x > k}
           grown == kept \cup Lowest(above, n - Cardinality(kept))
<1>2. SelectGroupMembers(c, p, n) = grown \cup Lowest(c \ grown, n - Cardinality(grown))
  BY <1>1 DEF SelectGroupMembers
<1>3. P \subseteq Nat /\ IsFiniteSet(P) /\ IsFiniteSet(c) /\ IsFiniteSet(above)
  <2>1. P \subseteq Names /\ above \subseteq Names
    OBVIOUS
  <2> HIDE DEF P, above
  <2> QED BY <2>1, NamesAreOrdered, FS_Subset
<1>4. m \in P /\ m \notin kept
  BY <1>2
<1>5. Cardinality(kept) = n /\ n - Cardinality(kept) = 0
  <2>1. P \ Lowest(P, n) # {}
    BY <1>4
  <2> HIDE DEF P
  <2>2. Cardinality(Lowest(P, n)) = n
    BY <1>1, <1>3, <2>1, LowestFull
  <2> QED BY <1>1, <2>2
<1>6. grown = kept
  <2> HIDE DEF above, kept
  <2> QED BY <1>3, <1>5, LowestOfNone
<1>7. IsFiniteSet(c \ grown)
  BY <1>3, FS_Subset
<1>8. SelectGroupMembers(c, p, n) = kept
  <2> HIDE DEF grown, kept
  <2> QED BY <1>2, <1>5, <1>6, <1>7, LowestOfNone
<1>9. \A k \in kept : k < m /\ k \in p
  <2>1. \A k \in kept : k \in P
    BY DEF Lowest
  <2>2. \A k \in kept : k < m
    <3> HIDE DEF P
    <3> QED BY <1>1, <1>3, <1>4, LowestBelow
  <2> QED BY <2>1, <2>2
<1> QED BY <1>5, <1>8, <1>9

\* Only two steps take a pass from the selection on, with the selection in hand.
LEMMA WhoSelects ==
  ASSUME ClusterInv, [Next]_vars, At("select"), ctl'.pc \in {"suspend", "ensure"}
  PROVE  /\ ctl \in HonestBusy
         /\ ctl'.sel = Selection(ctl.obj.spec.groups, ctl.obj.members)
<1>1. ctl \in HonestBusy
  BY BusyHere DEF At
<1>2. CASE SelectMembers
  BY <1>1, <1>2 DEF SelectMembers, HonestBusy
<1>3. CASE BuilderUnreadable
  BY <1>1, <1>3 DEF BuilderUnreadable, HonestBusy
<1>4. ASSUME ctl' = ctl \/ ctl' = Idle \/ ctl' = [ctl EXCEPT !.fresh = FALSE]
      PROVE  FALSE
  BY <1>1, <1>4 DEF At, Idle, HonestBusy
<1>5. CASE UNCHANGED vars
  BY <1>4, <1>5 DEF vars
<1>6. CASE Step
  <2>1. CASE InvalidGroups
    <3>1. PICK r : ctl' = [ctl EXCEPT !.pc = "fail", !.obj = Failed(@, "Blocked", r)]
      BY <2>1 DEF InvalidGroups
    <3> QED BY <1>1, <3>1 DEF HonestBusy
  <2>2. ~AddFinalizer /\ ~DropOnConflict /\ ~SuspendConvergeCronJob /\ ~EnsureConvergeCronJob
    BY DEF At, AddFinalizer, DropOnConflict, SuspendConvergeCronJob, EnsureConvergeCronJob
  <2>3. ~EnsureFails /\ ~ObserveCron /\ ~StatusUpdate /\ ~DeleteCron /\ ~Finalize
    BY DEF At, EnsureFails, ObserveCron, StatusUpdate, DeleteCron, Finalize
  <2> QED BY <1>2, <1>6, <2>1, <2>2, <2>3 DEF Step
<1>7. CASE Reconcile
  BY <1>7 DEF At, Reconcile
<1>8. CASE ApiError
  <2>1. ctl' = Idle
    BY <1>8 DEF At, ApiError
  <2> QED BY <1>4, <2>1
<1>9. CASE Crash \/ EnsureAnswerLost
  BY <1>4, <1>9 DEF Crash, EnsureAnswerLost, At
<1>10. CASE Environment
  <2>1. CASE CreateCluster \/ EditCluster \/ DeleteCluster
    <3>1. ctl' = [ctl EXCEPT !.fresh = FALSE]
      BY <2>1, Zenon DEF CreateCluster, EditCluster, DeleteCluster, UserWrites
    <3> QED BY <1>4, <3>1
  <2>2. CASE BuilderChanges \/ CronReports \/ CronGoes \/ DeliverCluster \/ DeliverCron
    BY <1>4, <2>2 DEF BuilderChanges, CronReports, CronGoes, DeliverCluster, DeliverCron
  <2>3. CASE \E m \in Names : MachineChanges(m)
    BY <1>4, <2>3 DEF MachineChanges
  <2> QED BY <1>10, <2>1, <2>2, <2>3 DEF Environment
<1> QED BY <1>2, <1>3, <1>5, <1>6, <1>7, <1>8, <1>9, <1>10 DEF Next

\* The selection lets go only of members that match no longer, that an earlier group
\* took, or whose places earlier and lower members use up.
LEMMA NobodyDisplaced ==
  ASSUME NEW groups \in Seq(Group), NEW prev, NEW i \in 1 .. Len(groups), i \in DOMAIN prev,
         NEW m \in prev[i], m \notin Selection(groups, prev)[i],
         m \in MatchingMachines(groups[i].sel, {}),
         ~\E j \in 1 .. (i - 1) : m \in Selection(groups, prev)[j]
  PROVE  /\ Cardinality(Selection(groups, prev)[i]) = groups[i].count
         /\ \A k \in Selection(groups, prev)[i] : k < m /\ k \in prev[i]
<1> DEFINE s == Selection(groups, prev)
           claimed == UNION {s[j] : j \in 1 .. (i - 1)}
           c == MatchingMachines(groups[i].sel, claimed)
           n == groups[i].count
<1>1. s[i] = Picks(groups, prev, i, claimed)
  BY SelectionSelects
<1>2. s[i] = SelectGroupMembers(c, prev[i], n)
  <2> HIDE DEF s, claimed
  <2> QED BY <1>1 DEF Picks
<1>3. c \subseteq Names /\ m \in c
  <2>1. m \notin claimed
    OBVIOUS
  <2> HIDE DEF claimed
  <2> QED BY <2>1 DEF MatchingMachines
<1>4. n \in Nat \cup {None}
  <2>1. groups[i] \in Group
    BY ElementOfSeq
  <2> QED BY <2>1 DEF Group
<1>5. m \notin s[i]
  OBVIOUS
<1> HIDE DEF s, c, n
<1>6. /\ Cardinality(s[i]) = n
      /\ \A k \in s[i] : k < m /\ k \in prev[i]
  BY <1>2, <1>3, <1>4, <1>5, MembersKept
<1> QED BY <1>6 DEF s, n

\* A pass evicts no member in favour of a newcomer (selectGroupMembers keeps earlier
\* members first), for every fleet, every list of node groups with overlapping
\* selectors, and whatever happened between the passes.
THEOREM NixClusterNobodyIsDisplaced ==
  Spec => NobodyIsDisplaced
<1> DEFINE Kept ==
      (At("select") /\ ctl.fresh /\ ctl'.pc \in {"suspend", "ensure"})
      => \A i \in DOMAIN ctl'.sel \cap DOMAIN ctl.obj.members :
           \A m \in ctl.obj.members[i] \ ctl'.sel[i] :
             \/ m \notin MatchingMachines(ctl.obj.spec.groups[i].sel, {})
             \/ \E j \in 1 .. (i - 1) : m \in ctl'.sel[j]
             \/ /\ Cardinality(ctl'.sel[i]) = ctl.obj.spec.groups[i].count
                /\ \A k \in ctl'.sel[i] : k < m /\ k \in ctl.obj.members[i]
<1>1. ClusterInv /\ [Next]_vars => [Kept]_vars
  <2> SUFFICES ASSUME ClusterInv, [Next]_vars, At("select"), ctl'.pc \in {"suspend", "ensure"},
                      NEW i \in DOMAIN ctl'.sel \cap DOMAIN ctl.obj.members,
                      NEW m \in ctl.obj.members[i] \ ctl'.sel[i],
                      m \in MatchingMachines(ctl.obj.spec.groups[i].sel, {}),
                      ~\E j \in 1 .. (i - 1) : m \in ctl'.sel[j]
               PROVE  /\ Cardinality(ctl'.sel[i]) = ctl.obj.spec.groups[i].count
                      /\ \A k \in ctl'.sel[i] : k < m /\ k \in ctl.obj.members[i]
    OBVIOUS
  <2> DEFINE groups == ctl.obj.spec.groups
             prev == ctl.obj.members
  <2>1. ctl \in HonestBusy /\ ctl'.sel = Selection(groups, prev)
    BY WhoSelects
  <2>2. groups \in Seq(Group)
    BY <2>1 DEF HonestBusy, Honest, ClusterObject, SpecObject
  <2>3. i \in 1 .. Len(groups) /\ i \in DOMAIN prev
    <3>1. Selection(groups, prev) \in [1 .. Len(groups) -> SUBSET Names]
      BY <2>2, SelectionSelects
    <3> QED BY <2>1, <3>1
  <2> HIDE DEF groups, prev
  <2>4. /\ m \in prev[i] /\ m \notin Selection(groups, prev)[i]
        /\ m \in MatchingMachines(groups[i].sel, {})
        /\ ~\E j \in 1 .. (i - 1) : m \in Selection(groups, prev)[j]
    BY <2>1 DEF groups, prev
  <2>5. /\ Cardinality(Selection(groups, prev)[i]) = groups[i].count
        /\ \A k \in Selection(groups, prev)[i] : k < m /\ k \in prev[i]
    BY <2>2, <2>3, <2>4, NobodyDisplaced
  <2> QED BY <2>1, <2>5 DEF groups, prev
<1>2. Spec => [][Kept]_vars
  <2> HIDE DEF Kept
  <2> QED BY <1>1, ClusterInvariant, PTL DEF Spec
<1> QED BY <1>2 DEF NobodyIsDisplaced
=============================================================================
