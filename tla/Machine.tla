------------------------------- MODULE Machine -------------------------------
(***************************************************************************)
(* The Machine controller (internal/controller/machine_controller.go).     *)
(*                                                                         *)
(* One Machine, the Secrets it may refer to, the host behind it, and the   *)
(* controller's work queue: events of the watched objects, the discovery   *)
(* timer and failed passes put the Machine's key into it.  A pass is cut   *)
(* at its writes and at the probe, which may take as long as its timeout.  *)
(* Users, the host and the NixosConfiguration orchestrator, which stamps   *)
(* status.appliedConfiguration, are the environment.                       *)
(***************************************************************************)
EXTENDS Informer

CONSTANTS
  Archs,             \* answers of `uname -m'
  Owners,            \* NixosConfigurations that may be applied to the host
  None,
  Settings,          \* the conditions of a behaviour: how far the informers of
                     \* Machines (machine) and Secrets (secret) may be behind,
                     \* the credentials users refer to (refs), and a bound on
                     \* the disturbances (upsets)
  MaxTime            \* the clock, in HardwareScanIntervals, stops here

Credentials == {"key", "password"}

ASSUME NoneIsNoValue == None \notin Archs \cup Owners
ASSUME SettingsAreSettings ==
  Settings \subseteq [machine : Nat, secret : Nat, upsets : Nat,
                     refs : SUBSET SUBSET Credentials]
ASSUME ClockIsBounded == MaxTime \in Nat

Reasons == {"", "SSHConnected", "SSHFailed", "CredentialsMissing"}

\* metadata: del, fin; spec: refs (sshKeySecretRef and sshPasswordSecretRef that
\* are set); status: busy (the Reconciling condition), disc (discoverable, which
\* Ready repeats), reason (of the Discoverable condition), arch and scanned
\* (hardwareFacts.architecture, lastHardwareScanTime), ac (appliedConfiguration).
MachineObject ==
  [del : BOOLEAN, fin : BOOLEAN, refs : SUBSET Credentials, busy : BOOLEAN,
   disc : BOOLEAN, reason : Reasons, arch : Archs \cup {None},
   scanned : Nat \cup {None}, ac : Owners \cup {None}]

\* A Secret with a usable entry, with an empty one, or without the entry.
SecretObject == {"usable", "empty", "other"}

ASSUME NoneIsNoMachine == None \notin MachineObject \cup SecretObject \cup Nat

VARIABLES
  machine,           \* log of the Machine
  secrets,           \* logs of the Secrets, by the credential they hold
  host,              \* the host: whether SSH answers, and what uname says
  clock,
  ctl,               \* the running pass
  queued,            \* the key is in the work queue
  timer,             \* a RequeueAfter of the last pass is pending
  set,               \* the setting of this behaviour
  created,           \* history: the Machine was created
  due,               \* history: the timer fired, a pass failed, or something other
                     \* than this controller changed since the last probe began
  upsets             \* history: disturbances so far

queue == <<queued, timer, due>>
world == <<secrets, host, clock, set, created, upsets>>
vars == <<machine, secrets, host, clock, ctl, queued, timer, set, created, due, upsets>>

PCs == {"idle", "early", "release", "addFinalizer", "probe", "status"}

\* The pass's working copy and whether it carries the current resourceVersion.
Idle == [pc |-> "idle", obj |-> None, fresh |-> FALSE]
Busy == [pc : PCs \ {"idle"}, obj : MachineObject, fresh : BOOLEAN]

TypeOK ==
  /\ machine \in Logs(MachineObject \cup {None})
  /\ secrets \in [Credentials -> Logs(SecretObject \cup {None})]
  /\ host \in [up : BOOLEAN, uname : Archs \cup {None}]
  /\ clock \in Nat /\ set \in Settings /\ upsets \in Nat
  /\ ctl \in Busy \cup {Idle}
  /\ queued \in BOOLEAN /\ timer \in BOOLEAN /\ created \in BOOLEAN /\ due \in BOOLEAN

Init ==
  /\ machine = <<None>>
  /\ secrets = [k \in Credentials |-> <<"usable">>]
  /\ host \in [up : BOOLEAN, uname : Archs \cup {None}]
  /\ clock = 0 /\ set \in Settings /\ upsets = 0
  /\ ctl = Idle
  /\ queued = FALSE /\ timer = FALSE /\ created = FALSE /\ due = FALSE

At(p) == ctl.pc = p

Disturb == upsets < set.upsets /\ upsets' = upsets + 1

\* Machine events are watched with For, without a predicate.
MachineEvent == Seen(machine') # Seen(machine)

\* findMachinesForSecret looks the Secret up in the indexes of the cached Machine.
SecretEvent ==
  /\ Seen(machine) # None
  /\ \E k \in Seen(machine).refs : Seen(secrets'[k]) # Seen(secrets[k])

\* What a step of the pass does to the queue.
Requeue(again, after) ==
  /\ queued' = (queued \/ MachineEvent \/ again)
  /\ timer' = (timer \/ after)
  /\ due' = (due \/ again)

\* What a change by somebody else does to it.
Wake ==
  /\ queued' = (queued \/ MachineEvent \/ SecretEvent)
  /\ due' = TRUE
  /\ UNCHANGED timer

-----------------------------------------------------------------------------
(* Reconcile. *)

Reconcile ==
  LET o == Seen(machine) IN
  /\ At("idle")
  /\ queued
  /\ queued' = FALSE
  /\ ctl' = IF o = None THEN Idle
            ELSE [pc |-> "early", obj |-> [o EXCEPT !.busy = TRUE], fresh |-> InSync(machine)]
  /\ UNCHANGED <<machine, world, timer, due>>

\* A write of the pass: the next point, or the end with an error.
Stored(v, next) ==
  /\ ctl.fresh
  /\ machine' = Put(set.machine, machine, v)
  /\ ctl' = next

\* Status().Update before the work starts.
UpdateStatusEarly ==
  LET next == IF ctl.obj.del THEN (IF ctl.obj.fin THEN "release" ELSE "idle")
              ELSE IF ctl.obj.fin THEN "probe" ELSE "addFinalizer" IN
  /\ At("early")
  /\ Stored(ctl.obj, IF next = "idle" THEN Idle ELSE [ctl EXCEPT !.pc = next])
  /\ Requeue(FALSE, FALSE)
  /\ UNCHANGED world

\* reconcileDelete: the last finalizer goes and the API server removes the object.
ReconcileDelete ==
  /\ At("release")
  /\ Stored(None, Idle)
  /\ Requeue(FALSE, FALSE)
  /\ UNCHANGED world

AddFinalizer ==
  /\ At("addFinalizer")
  /\ Stored([ctl.obj EXCEPT !.fin = TRUE], [ctl EXCEPT !.pc = "probe", !.obj.fin = TRUE])
  /\ Requeue(FALSE, FALSE)
  /\ UNCHANGED world

\* A Conflict, or NotFound, ends the pass with an error.
Conflict ==
  /\ ctl.pc \in {"early", "release", "addFinalizer", "status"}
  /\ ~ctl.fresh
  /\ ctl' = Idle
  /\ queued' = TRUE /\ due' = TRUE
  /\ UNCHANGED <<machine, world, timer>>

-----------------------------------------------------------------------------
(* The probe. *)

\* buildSSHConfig: every Secret referred to has its entry, and one is not empty.
SSHConfig(o) ==
  /\ \A k \in o.refs : Seen(secrets[k]) \in {"usable", "empty"}
  /\ \E k \in o.refs : Seen(secrets[k]) = "usable"

\* Mutants: a machine is scanned once for all; noise is recorded.
ScanOnce(o) ==
  IF o.scanned # None \/ host.uname = None THEN o
  ELSE [o EXCEPT !.arch = host.uname, !.scanned = clock]

ScanNoise(o) ==
  IF o.scanned # None /\ clock - o.scanned < 1 THEN o
  ELSE [o EXCEPT !.arch = IF host.uname = None THEN "noise" ELSE host.uname, !.scanned = clock]

\* scanArchitecture, on a proven connection: at most once per interval after a
\* change; noise, a failure and the known answer leave the facts as they are.
ScanArchitecture(o) ==
  IF \/ o.scanned # None /\ clock - o.scanned < 1
     \/ host.uname \in {None, o.arch}
  THEN o
  ELSE [o EXCEPT !.arch = host.uname, !.scanned = clock]

\* Mutant: a machine that was found down is not looked at again.
ProbeWhileDown(o) ==
  IF o.reason = "SSHFailed" THEN o
  ELSE IF SSHConfig(o) /\ host.up
  THEN ScanArchitecture([o EXCEPT !.disc = TRUE, !.reason = "SSHConnected"])
  ELSE [o EXCEPT !.disc = FALSE,
                 !.reason = IF ~SSHConfig(o) \/ @ = "CredentialsMissing"
                            THEN "CredentialsMissing" ELSE "SSHFailed"]

\* checkDiscoverable and reconcile.  A CredentialsMissing found in the working
\* copy, also one of an earlier pass, is not replaced by SSHFailed.
Probed(o) ==
  IF SSHConfig(o) /\ host.up
  THEN ScanArchitecture([o EXCEPT !.disc = TRUE, !.reason = "SSHConnected"])
  ELSE [o EXCEPT !.disc = FALSE,
                 !.reason = IF ~SSHConfig(o) \/ @ = "CredentialsMissing"
                            THEN "CredentialsMissing" ELSE "SSHFailed"]

Probe ==
  /\ At("probe")
  /\ ctl' = [ctl EXCEPT !.pc = "status", !.obj = [Probed(@) EXCEPT !.busy = FALSE]]
  /\ due' = FALSE
  /\ UNCHANGED <<machine, world, queued, timer>>

\* Mutant: the result is written without a resourceVersion.
UpdateStatusUnguarded ==
  /\ At("status")
  /\ Cur(machine) # None
  /\ machine' = Put(set.machine, machine, ctl.obj)
  /\ ctl' = Idle
  /\ Requeue(FALSE, TRUE)
  /\ UNCHANGED world

\* The final Status().Update; RequeueAfter DiscoveryInterval.
UpdateStatus ==
  /\ At("status")
  /\ Stored(ctl.obj, Idle)
  /\ Requeue(FALSE, TRUE)
  /\ UNCHANGED world

\* A call fails: every one of them ends the pass with an error, a Secret that cannot be
\* read excepted, which counts as missing credentials.
ApiError ==
  /\ ~At("idle")
  /\ Disturb
  /\ \/ /\ At("probe")
        /\ ctl' = [ctl EXCEPT !.pc = "status", !.obj.busy = FALSE, !.obj.disc = FALSE,
                              !.obj.reason = "CredentialsMissing"]
        /\ UNCHANGED <<queued, due>>
     \/ /\ ~At("probe")
        /\ ctl' = Idle
        /\ queued' = TRUE /\ due' = TRUE
  /\ UNCHANGED <<machine, secrets, host, clock, set, created, timer>>

\* What a write of the pass stores.
Result == CASE At("release") -> None
            [] At("addFinalizer") -> [ctl.obj EXCEPT !.fin = TRUE]
            [] OTHER -> ctl.obj

\* A write took effect and its answer is lost: the pass ends with an error.
WriteAnswerLost ==
  /\ ctl.pc \in {"early", "release", "addFinalizer", "status"}
  /\ Disturb
  /\ Stored(Result, Idle)
  /\ queued' = TRUE /\ due' = TRUE
  /\ UNCHANGED <<secrets, host, clock, set, created, timer>>

\* The operator restarts, lists everything and queues every Machine.
Crash ==
  /\ ~At("idle")
  /\ Disturb
  /\ ctl' = Idle
  /\ machine' = Relisted(machine)
  /\ secrets' = [k \in Credentials |-> Relisted(secrets[k])]
  /\ queued' = (Cur(machine) # None)
  /\ timer' = FALSE
  /\ due' = TRUE
  /\ UNCHANGED <<host, clock, set, created>>

-----------------------------------------------------------------------------
(* The environment. *)

DiscoveryIntervalEnds ==
  /\ timer
  /\ timer' = FALSE
  /\ queued' = TRUE
  /\ due' = TRUE
  /\ UNCHANGED <<machine, ctl, world>>

Outdates == ctl' = [ctl EXCEPT !.fresh = FALSE]

CreateMachine ==
  /\ ~created
  /\ created' = TRUE
  /\ \E r \in set.refs :
       machine' = Put(set.machine, machine,
         [del |-> FALSE, fin |-> FALSE, refs |-> r, busy |-> FALSE, disc |-> FALSE,
          reason |-> "", arch |-> None, scanned |-> None, ac |-> None])
  /\ Outdates
  /\ UNCHANGED <<secrets, host, clock, set, upsets>>
  /\ Wake

EditMachine ==
  /\ Cur(machine) # None
  /\ Disturb
  /\ \E r \in set.refs : machine' = Put(set.machine, machine, [Cur(machine) EXCEPT !.refs = r])
  /\ Outdates
  /\ UNCHANGED <<secrets, host, clock, set, created>>
  /\ Wake

DeleteMachine ==
  /\ Cur(machine) # None
  /\ ~Cur(machine).del
  /\ machine' = Put(set.machine, machine,
                    IF Cur(machine).fin THEN [Cur(machine) EXCEPT !.del = TRUE] ELSE None)
  /\ Outdates
  /\ UNCHANGED world
  /\ Wake

\* writeBackMachineStatus and clearMachineStatus of the orchestrator.
StampMachine ==
  /\ Cur(machine) # None
  /\ Disturb
  /\ \E c \in Owners \cup {None} :
       machine' = Put(set.machine, machine, [Cur(machine) EXCEPT !.ac = c])
  /\ Outdates
  /\ UNCHANGED <<secrets, host, clock, set, created>>
  /\ Wake

SecretChanges(k) ==
  /\ Disturb
  /\ \E s \in SecretObject \cup {None} :
       secrets' = [secrets EXCEPT ![k] = Put(set.secret, @, s)]
  /\ UNCHANGED machine
  /\ UNCHANGED <<host, clock, set, created, ctl>>
  /\ Wake

\* The host goes down or comes back, or is reinstalled.  Nobody tells the operator.
HostChanges ==
  /\ Disturb
  /\ \E h \in [up : BOOLEAN, uname : Archs \cup {None}] : host' = h
  /\ UNCHANGED <<machine, secrets, clock, set, created, ctl, queue>>

Tick ==
  /\ clock < MaxTime
  /\ clock' = clock + 1
  /\ UNCHANGED <<machine, secrets, host, set, created, upsets, ctl, queue>>

DeliverMachine ==
  /\ ~InSync(machine)
  /\ machine' = Delivered(machine)
  /\ queued' = TRUE
  /\ UNCHANGED <<ctl, world, timer, due>>

DeliverSecret(k) ==
  /\ ~InSync(secrets[k])
  /\ secrets' = [secrets EXCEPT ![k] = Delivered(@)]
  /\ UNCHANGED machine
  /\ UNCHANGED <<host, clock, set, created, upsets, ctl>>
  /\ Wake

-----------------------------------------------------------------------------
Step == UpdateStatusEarly \/ ReconcileDelete \/ AddFinalizer \/ Conflict \/ Probe \/ UpdateStatus

Environment ==
  \/ DiscoveryIntervalEnds \/ CreateMachine \/ EditMachine \/ DeleteMachine
  \/ StampMachine \/ HostChanges \/ Tick \/ DeliverMachine
  \/ \E k \in Credentials : SecretChanges(k) \/ DeliverSecret(k)

Next == Reconcile \/ Step \/ ApiError \/ WriteAnswerLost \/ Crash \/ Environment

Spec == Init /\ [][Next]_vars

\* A queued key is taken up, a pass runs to its end (the SSH calls have timeouts),
\* the timer fires and events are delivered.
Fairness ==
  /\ WF_vars(Reconcile) /\ WF_vars(Step) /\ WF_vars(DiscoveryIntervalEnds)
  /\ WF_vars(DeliverMachine)
  /\ \A k \in Credentials : WF_vars(DeliverSecret(k))

FairSpec == Spec /\ Fairness

-----------------------------------------------------------------------------
(* Properties. *)

Exists == Cur(machine) # None

\* What the orchestrator wrote onto the Machine is not undone by a probe that
\* began before it and reports after it: the configuration applied to a host
\* changes only when the orchestrator changes it.
StampIsKept ==
  [][Exists /\ Exists' /\ Cur(machine)'.ac # Cur(machine).ac => upsets' # upsets]_vars

\* The credentials that are stored now are usable.
CredentialsUsable ==
  /\ \A k \in Cur(machine).refs : Cur(secrets[k]) \in {"usable", "empty"}
  /\ \E k \in Cur(machine).refs : Cur(secrets[k]) = "usable"

Reachable == Exists /\ ~Cur(machine).del /\ host.up /\ CredentialsUsable

\* Discoverability follows the host: a Machine whose host answers from some time
\* on is, and stays, reported discoverable, and one whose host or credentials are
\* gone is not, although nothing announces that a host went down or came back.
DiscoverySettles ==
  /\ <>[]Reachable => <>[](Exists /\ Cur(machine).disc /\ Cur(machine).reason = "SSHConnected")
  /\ <>[](Exists /\ ~Cur(machine).del /\ ~(host.up /\ CredentialsUsable))
       => <>[](Exists /\ ~Cur(machine).disc)

\* An architecture that changed with a reinstall is published in the end, as long
\* as the host answers and the scan interval has passed.
ArchitectureSettles ==
  <>[](/\ Reachable /\ host.uname # None
       /\ Cur(machine).scanned # None => clock > Cur(machine).scanned)
    => <>[](Exists /\ Cur(machine).arch = host.uname)

-----------------------------------------------------------------------------
(* What the documents say and the code does not do. *)

\* machine-discovery: "re-test every 60 seconds": a host is probed because the
\* interval ended, a pass failed or somebody changed something, not because the
\* controller's own report of the last probe woke it.
ProbesArePaced == [][At("probe") /\ ~At("probe")' /\ upsets' = upsets => due]_vars
=============================================================================
