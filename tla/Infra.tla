------------------------------- MODULE Infra -------------------------------
(***************************************************************************)
(* The NixStore and NixBuilder controllers and the workloads that use them *)
(* (internal/controller/nixstore_controller.go, nix_sshkey.go,             *)
(* nixbuilder_controller.go; resolveInfra of nixworkload.go).              *)
(*                                                                         *)
(* One NixStore with the Secrets of its two key pairs, the NixBuilder that *)
(* a workload builds from its builderTemplate, the Service and StatefulSet *)
(* of each, and that workload, which stays, with the ConfigMap of its      *)
(* inline files.  Both controllers have one flow, but only a store has     *)
(* keys and replicas.  A pair of keys is a number; a new one is a number   *)
(* that nothing mentions any more.  A pass is cut at its writes and at the *)
(* reads between.                                                          *)
(***************************************************************************)
EXTENDS Informer, FiniteSets

CONSTANTS
  None,
  Settings           \* the conditions of a behaviour: the kinds in use (kinds),
                     \* how far the informers of the custom resources (cr), of
                     \* Secrets (secret), of StatefulSets (sts), Services (svc)
                     \* and ConfigMaps (cm) may be behind, the specs of stores
                     \* (specs), how often a store is created (lives), the inline
                     \* files of the workload (files) and a bound on disturbances
                     \* (upsets)

Kinds == {"store", "builder"}

\* The Secrets in the order they are ensured.
Pairs == {"signing", "ssh"}

\* ref: signingKeySecretRef names a Secret of the user's; reps: replicas, 1 for a
\* builder; tmpl: the rest of the pod template.
SpecObject == [ref : BOOLEAN, reps : Nat, tmpl : Nat]

ASSUME SettingsAreSettings ==
  Settings \subseteq
    [kinds : SUBSET Kinds, cr : Nat, secret : Nat, sts : Nat, svc : Nat, cm : Nat,
     specs : SUBSET SpecObject, lives : Nat, files : SUBSET (Nat \cup {None}), upsets : Nat]

Phases == {"", "Pending", "Ready", "Degraded"}

\* A NixStore or NixBuilder.  metadata: uid, gen; spec; status: phase, stalled, key
\* (publicKey), seen (observedGeneration).
ResourceObject ==
  [uid : Nat, gen : Nat, spec : SpecObject, phase : Phases, stalled : BOOLEAN,
   key : Nat \cup {None}, seen : Nat]

\* owner: uid of the owner; key: the pair.
SecretObject == [owner : Nat, key : Nat]
ServiceObject == [owner : Nat]

\* A pod template: whether it names the Secret of the user's, and the rest.
Template == [ref : BOOLEAN, tmpl : Nat]

\* Sets of keys.
KeySets == {s \in SUBSET Nat : IsFiniteSet(s)}

\* The number of ready replicas, the template they were started from, and the keys of a
\* store that they loaded when they started: the template names the Secret only, and a
\* running replica does not load it again.
StatefulSetObject ==
  [owner : Nat, reps : Nat, tmpl : Template, ready : Nat, runs : Template \cup {None},
   loaded : KeySets]

ASSUME NoneIsNoObject ==
  None \notin Nat \cup ResourceObject \cup SecretObject \cup ServiceObject
               \cup StatefulSetObject \cup Template

VARIABLES
  cr,                \* logs of the NixStore and the NixBuilder
  secrets,           \* logs of the Secrets that a store generates
  given,             \* the public key in the Secret of the user's, or None
  svc,               \* logs of the Services
  sts,               \* logs of the StatefulSets
  ctl,               \* the running pass of each controller
  used,              \* the public key that the workload's pods were rendered with
                     \* last, or None while it stalls
  files,             \* the content of its inline additionalFiles, or None
  cm,                \* log of the ConfigMap with that content
  set,               \* the setting of this behaviour
  uids,              \* history: uids given to each kind
  removed,           \* history: keys whose Secret was removed under the replicas of the
                     \* store that had loaded them
  upsets             \* history: disturbances so far

objects == <<cr, secrets, svc, sts>>
work == <<used, files, cm>>
env == <<given, work, set, uids, removed, upsets>>
vars == <<cr, secrets, given, svc, sts, ctl, used, files, cm, set, uids, removed, upsets>>

PCs == {"idle", "signing", "ssh", "reread signing", "reread ssh", "service", "statefulset",
        "observe", "status", "fail"}

\* The working copy, whether it carries the current resourceVersion, and the public
\* key the pass found.
Idle == [pc |-> "idle", obj |-> None, fresh |-> FALSE, key |-> None]
Busy == [pc : PCs \ {"idle"}, obj : ResourceObject, fresh : BOOLEAN, key : Nat \cup {None}]

TypeOK ==
  /\ cr \in [Kinds -> Logs(ResourceObject \cup {None})]
  /\ secrets \in [Pairs -> Logs(SecretObject \cup {None})]
  /\ given \in Nat \cup {None}
  /\ svc \in [Kinds -> Logs(ServiceObject \cup {None})]
  /\ sts \in [Kinds -> Logs(StatefulSetObject \cup {None})]
  /\ ctl \in [Kinds -> Busy \cup {Idle}]
  /\ used \in Nat \cup {None} /\ files \in Nat \cup {None}
  /\ cm \in Logs(Nat \cup {None})
  /\ set \in Settings
  /\ uids \in [Kinds -> Nat] /\ removed \in KeySets /\ upsets \in Nat

Init ==
  /\ cr = [k \in Kinds |-> <<None>>]
  /\ secrets = [p \in Pairs |-> <<None>>]
  /\ given = 0
  /\ svc = [k \in Kinds |-> <<None>>]
  /\ sts = [k \in Kinds |-> <<None>>]
  /\ ctl = [k \in Kinds |-> Idle]
  /\ used = None
  /\ set \in Settings
  /\ files \in set.files /\ cm = <<None>>
  /\ uids = [k \in Kinds |-> 0] /\ removed = {} /\ upsets = 0

At(k, p) == ctl[k].pc = p

Goto(k, p) == ctl' = [ctl EXCEPT ![k].pc = p]

Disturb == upsets < set.upsets /\ upsets' = upsets + 1

WriteCR(k, v) == cr' = [cr EXCEPT ![k] = Put(set.cr, @, v)]

WriteSecret(p, v) == secrets' = [secrets EXCEPT ![p] = Put(set.secret, @, v)]

-----------------------------------------------------------------------------
(* Reconcile of a NixStore ("store") or a NixBuilder ("builder"). *)

Reconcile(k) ==
  LET o == Seen(cr[k]) IN
  /\ At(k, "idle")
  /\ o # None
  /\ ctl' = [ctl EXCEPT ![k] =
               [pc |-> IF k = "store" THEN "signing" ELSE "service",
                obj |-> [o EXCEPT !.seen = o.gen], fresh |-> InSync(cr[k]), key |-> None]]
  /\ UNCHANGED <<objects, env>>

\* fail: phase and conditions, then an error.
Failed(c) == [c EXCEPT !.pc = "fail", !.obj.phase = "Degraded", !.obj.stalled = TRUE]

Fails(k) == ctl' = [ctl EXCEPT ![k] = Failed(@)]

\* The pass has the key of pair p; only the public signing key is published.
Has(p, key) ==
  ctl' = [ctl EXCEPT !["store"].pc = IF p = "signing" THEN "ssh" ELSE "service",
                     !["store"].key = IF p = "signing" THEN key ELSE @]

KeysIn(l) == {l[i].key : i \in {j \in DOMAIN l : l[j] # None}}

LoadedIn(l) == UNION {l[i].loaded : i \in {j \in DOMAIN l : l[j] # None}}

\* generateNixSigningKey, generateOpenSSHKeyPair: a pair unlike any other.
FreshKey ==
  LET mentioned == {given, used, ctl["store"].key} \cup KeysIn(cr["store"])
                     \cup (UNION {KeysIn(secrets[p]) : p \in Pairs})
                     \cup removed \cup LoadedIn(sts["store"])
                     \cup (IF At("store", "idle") THEN {} ELSE {ctl["store"].obj.key})
  IN  CHOOSE n \in 1 .. (Cardinality(mentioned) + 1) : n \notin mentioned

\* ensureSigningKey with a Secret of the user's.
UseGivenKey ==
  /\ At("store", "signing")
  /\ ctl["store"].obj.spec.ref
  /\ IF given = None THEN Fails("store") ELSE Has("signing", given)
  /\ UNCHANGED <<objects, env>>

\* Mutant: whatever is there is replaced.
ReplaceKey(p) ==
  LET uid == ctl["store"].obj.uid IN
  /\ At("store", p)
  /\ ~(p = "signing" /\ ctl["store"].obj.spec.ref)
  /\ IF Seen(secrets[p]) # None
     THEN Has(p, Seen(secrets[p]).key) /\ UNCHANGED secrets
     ELSE WriteSecret(p, [owner |-> uid, key |-> FreshKey]) /\ Has(p, FreshKey)
  /\ UNCHANGED <<cr, svc, sts, env>>

\* ensureSigningKey and ensureSSHKeySecret: the cached Secret, or a new pair.  Neither
\* asks who owns the Secret.
EnsureKey(p) ==
  LET uid == ctl["store"].obj.uid IN
  /\ At("store", p)
  /\ ~(p = "signing" /\ ctl["store"].obj.spec.ref)
  /\ IF Seen(secrets[p]) # None
     THEN Has(p, Seen(secrets[p]).key) /\ UNCHANGED secrets
     ELSE IF Cur(secrets[p]) = None
     THEN WriteSecret(p, [owner |-> uid, key |-> FreshKey]) /\ Has(p, FreshKey)
     ELSE /\ Goto("store", IF p = "signing" THEN "reread signing" ELSE "reread ssh")
          /\ UNCHANGED secrets
  /\ UNCHANGED <<cr, svc, sts, env>>

\* After AlreadyExists the cache is asked once more.
RereadKey(p) ==
  /\ At("store", IF p = "signing" THEN "reread signing" ELSE "reread ssh")
  /\ IF Seen(secrets[p]) = None THEN Fails("store") ELSE Has(p, Seen(secrets[p]).key)
  /\ UNCHANGED <<objects, env>>

\* ensureService: CreateOrUpdate, which refuses a Service that another owner controls.
EnsureService(k) ==
  LET s == Seen(svc[k])
      new == [owner |-> ctl[k].obj.uid] IN
  /\ At(k, "service")
  /\ IF s # None /\ s # new THEN Fails(k) /\ UNCHANGED svc
     ELSE IF s = new THEN Goto(k, "statefulset") /\ UNCHANGED svc
     ELSE IF Cur(svc[k]) # None THEN Fails(k) /\ UNCHANGED svc
     ELSE Goto(k, "statefulset") /\ svc' = [svc EXCEPT ![k] = Put(set.svc, @, new)]
  /\ UNCHANGED <<cr, secrets, sts, env>>

\* desiredStatefulSet: a new one, or the mutable fields of the cached one, which for
\* a builder are its template only; the owner is not one of them.
Desired(s, o) ==
  LET tmpl == [ref |-> o.spec.ref, tmpl |-> o.spec.tmpl] IN
  IF s = None THEN [owner |-> o.uid, reps |-> o.spec.reps, tmpl |-> tmpl, ready |-> 0,
                    runs |-> None, loaded |-> {}]
  ELSE [s EXCEPT !.reps = o.spec.reps, !.tmpl = tmpl]

\* ensureStatefulSet: AlreadyExists, Conflict and NotFound fail.
EnsureStatefulSet(k) ==
  /\ At(k, "statefulset")
  /\ IF InSync(sts[k])
     THEN /\ sts' = [sts EXCEPT ![k] = Put(set.sts, @, Desired(Seen(@), ctl[k].obj))]
          /\ Goto(k, "observe")
     ELSE Fails(k) /\ UNCHANGED sts
  /\ UNCHANGED <<cr, secrets, svc, env>>

\* Mutant: what was Ready once stays so.
ReadyOnce(o, s) ==
  IF o.phase = "Ready" \/ (s.ready >= o.spec.reps /\ o.spec.reps > 0)
  THEN [o EXCEPT !.phase = "Ready", !.stalled = FALSE]
  ELSE [o EXCEPT !.phase = "Pending"]

\* Mutant: the reason of the Ready condition is the phase.
ReadinessReason(o, s) == [o EXCEPT !.phase = IF s.ready > 0 THEN "StoreReady" ELSE "StoreNotReady"]

\* Ready ends a stall, Pending does not.
Readiness(o, s) ==
  IF s.ready >= o.spec.reps /\ o.spec.reps > 0
  THEN [o EXCEPT !.phase = "Ready", !.stalled = FALSE]
  ELSE [o EXCEPT !.phase = "Pending"]

Observe(k) ==
  LET s == Seen(sts[k]) IN
  /\ At(k, "observe")
  /\ IF s = None THEN Fails(k)
     ELSE ctl' = [ctl EXCEPT ![k].pc = "status",
                             ![k].obj = [Readiness(@, s) EXCEPT !.key = ctl[k].key]]
  /\ UNCHANGED <<objects, env>>

\* Status().Update of a pass and of fail; a Conflict leaves the status as it was.
StatusUpdate(k) ==
  /\ ctl[k].pc \in {"status", "fail"}
  /\ IF ctl[k].fresh THEN WriteCR(k, ctl[k].obj) ELSE UNCHANGED cr
  /\ ctl' = [ctl EXCEPT ![k] = Idle]
  /\ UNCHANGED <<secrets, svc, sts, env>>

\* A call fails.  One that took effect and lost its answer is the call, followed by an
\* error of the next.
ApiError(k) ==
  /\ ~At(k, "idle")
  /\ Disturb
  /\ ctl' = [ctl EXCEPT ![k] = IF @.pc \in {"status", "fail"} THEN Idle ELSE Failed(@)]
  /\ UNCHANGED <<objects, given, work, set, uids, removed>>

Crash ==
  /\ \E k \in Kinds : ~At(k, "idle")
  /\ Disturb
  /\ ctl' = [k \in Kinds |-> Idle]
  /\ cr' = [k \in Kinds |-> Relisted(cr[k])]
  /\ secrets' = [p \in Pairs |-> Relisted(secrets[p])]
  /\ svc' = [k \in Kinds |-> Relisted(svc[k])]
  /\ sts' = [k \in Kinds |-> Relisted(sts[k])]
  /\ cm' = Relisted(cm)
  /\ UNCHANGED <<given, used, files, set, uids, removed>>

-----------------------------------------------------------------------------
(* The workload. *)

\* Somebody other than the controller writes a custom resource.
OutsideWrites(k, v) ==
  /\ WriteCR(k, v)
  /\ ctl' = [ctl EXCEPT ![k].fresh = FALSE]

NewResource(k, s) ==
  [uid |-> uids[k] + 1, gen |-> 1, spec |-> s, phase |-> "", stalled |-> FALSE,
   key |-> None, seen |-> 0]

BuilderSpec == [ref |-> FALSE, reps |-> 1, tmpl |-> 0]

\* ensureAdditionalFilesConfigMap: deleted when there are no inline files, else
\* created or brought up to date; AlreadyExists and Conflict end the pass.
EnsureAdditionalFiles ==
  /\ Seen(cm) # files
  /\ files = None \/ InSync(cm)
  /\ cm' = Put(set.cm, cm, files)
  /\ UNCHANGED <<objects, ctl, given, used, files, set, uids, removed, upsets>>

IsReady(o) == o # None /\ o.phase = "Ready"

\* ensureOwnedBuilder, which a store that is not Ready keeps resolveInfra from: created
\* once, and not written again; AlreadyExists is no error.
EnsureOwnedBuilder ==
  /\ "builder" \in set.kinds
  /\ "store" \in set.kinds => IsReady(Seen(cr["store"]))
  /\ Seen(cr["builder"]) = None /\ Cur(cr["builder"]) = None
  /\ OutsideWrites("builder", NewResource("builder", BuilderSpec))
  /\ uids' = [uids EXCEPT !["builder"] = @ + 1]
  /\ UNCHANGED <<secrets, svc, sts, given, work, set, removed, upsets>>

\* resolveInfra: the store's key, if the store and the builder are Ready, or a stall.
\* A workload without a store renders no key, which counts as 0.
ResolveInfra ==
  /\ used' = IF \A k \in set.kinds : IsReady(Seen(cr[k]))
             THEN IF "store" \in set.kinds THEN Seen(cr["store"]).key ELSE 0
             ELSE None
  /\ used' # used
  /\ UNCHANGED <<objects, given, ctl, files, cm, set, uids, removed, upsets>>

-----------------------------------------------------------------------------
(* Users and Kubernetes. *)

CreateStore ==
  /\ "store" \in set.kinds
  /\ Cur(cr["store"]) = None
  /\ uids["store"] < set.lives
  /\ \E s \in set.specs : OutsideWrites("store", NewResource("store", s))
  /\ uids' = [uids EXCEPT !["store"] = @ + 1]
  /\ UNCHANGED <<secrets, svc, sts, given, work, set, removed, upsets>>

EditStore ==
  /\ Cur(cr["store"]) # None
  /\ Disturb
  /\ \E s \in set.specs \ {Cur(cr["store"]).spec} :
       OutsideWrites("store", [Cur(cr["store"]) EXCEPT !.spec = s, !.gen = @ + 1])
  /\ UNCHANGED <<secrets, svc, sts, given, work, set, uids, removed>>

\* A NixStore or NixBuilder has no finalizer.
DeleteResource(k) ==
  /\ Cur(cr[k]) # None
  /\ Disturb
  /\ OutsideWrites(k, None)
  /\ UNCHANGED <<secrets, svc, sts, given, work, set, uids, removed>>

EditFiles ==
  /\ Disturb
  /\ \E f \in set.files \ {files} : files' = f
  /\ UNCHANGED <<objects, ctl, given, used, cm, set, uids, removed>>

\* The user's Secret is removed or comes back.
GivenChanges ==
  /\ \E s \in set.specs : s.ref
  /\ Disturb
  /\ given' = IF given = None THEN 0 ELSE None
  /\ UNCHANGED <<objects, ctl, work, set, uids, removed>>

\* The Secret of a pair goes.
RemoveSecret(p) ==
  /\ WriteSecret(p, None)
  /\ removed' = IF p = "ssh" THEN removed
                ELSE (removed \cup {Cur(secrets[p]).key}) \cap LoadedIn(<<Cur(sts["store"])>>)

\* Somebody removes the Secret of a pair.
SecretLost(p) ==
  /\ Cur(secrets[p]) # None
  /\ Disturb
  /\ RemoveSecret(p)
  /\ UNCHANGED <<cr, svc, sts, ctl, given, work, set, uids>>

\* The key in the Secret that a template of the store names.
MountedKey(tmpl) ==
  IF tmpl.ref THEN given
  ELSE IF Cur(secrets["signing"]) = None THEN None ELSE Cur(secrets["signing"]).key

\* Replicas start, of a store from the Secret that is there, and become ready: those
\* that are missing, or all of them from a new template; or superfluous ones stop.
ReplicasStart(k) ==
  LET s == Cur(sts[k])
      anew == s.ready = 0 \/ s.runs # s.tmpl
      starts == s.reps > 0 /\ (anew \/ s.ready < s.reps)
      kept == IF anew \/ s.reps = 0 THEN {} ELSE s.loaded
      keys == IF starts /\ k = "store" THEN kept \cup {MountedKey(s.tmpl)} ELSE kept IN
  /\ s # None
  /\ s.ready # s.reps \/ s.runs # s.tmpl
  /\ None \notin keys
  /\ sts' = [sts EXCEPT ![k] =
               Put(set.sts, @, [s EXCEPT !.ready = s.reps, !.runs = s.tmpl, !.loaded = keys])]
  /\ UNCHANGED <<cr, secrets, svc, ctl, env>>

\* A replica ceases to be ready; its container starts again before it is.
ReplicaFails(k) ==
  LET s == Cur(sts[k]) IN
  /\ s # None
  /\ s.ready > 0
  /\ Disturb
  /\ sts' = [sts EXCEPT ![k] = Put(set.sts, @, [s EXCEPT !.ready = s.ready - 1])]
  /\ UNCHANGED <<cr, secrets, svc, ctl, given, work, set, uids, removed>>

\* Uids of a store and a builder differ, and a uid is not used again.
Orphan(k, l) == Cur(l) # None /\ ~(Cur(cr[k]) # None /\ Cur(cr[k]).uid = Cur(l).owner)

\* The garbage collector removes what an owner left behind.
CollectService(k) ==
  /\ Orphan(k, svc[k])
  /\ svc' = [svc EXCEPT ![k] = Put(set.svc, @, None)]
  /\ UNCHANGED <<cr, secrets, sts, ctl, env>>

CollectStatefulSet(k) ==
  /\ Orphan(k, sts[k])
  /\ sts' = [sts EXCEPT ![k] = Put(set.sts, @, None)]
  /\ UNCHANGED <<cr, secrets, svc, ctl, env>>

CollectSecret(p) ==
  /\ Orphan("store", secrets[p])
  /\ RemoveSecret(p)
  /\ UNCHANGED <<cr, svc, sts, ctl, given, work, set, uids, upsets>>

DeliverResource(k) ==
  /\ ~InSync(cr[k])
  /\ cr' = [cr EXCEPT ![k] = Delivered(@)]
  /\ UNCHANGED <<secrets, svc, sts, ctl, env>>

DeliverService(k) ==
  /\ ~InSync(svc[k])
  /\ svc' = [svc EXCEPT ![k] = Delivered(@)]
  /\ UNCHANGED <<cr, secrets, sts, ctl, env>>

DeliverStatefulSet(k) ==
  /\ ~InSync(sts[k])
  /\ sts' = [sts EXCEPT ![k] = Delivered(@)]
  /\ UNCHANGED <<cr, secrets, svc, ctl, env>>

DeliverSecret(p) ==
  /\ ~InSync(secrets[p])
  /\ secrets' = [secrets EXCEPT ![p] = Delivered(@)]
  /\ UNCHANGED <<cr, svc, sts, ctl, env>>

DeliverFiles ==
  /\ ~InSync(cm)
  /\ cm' = Delivered(cm)
  /\ UNCHANGED <<objects, ctl, given, used, files, set, uids, removed, upsets>>

-----------------------------------------------------------------------------
Step(k) == EnsureService(k) \/ EnsureStatefulSet(k) \/ Observe(k) \/ StatusUpdate(k)

KeyStep == UseGivenKey \/ \E p \in Pairs : EnsureKey(p) \/ RereadKey(p)

Cluster ==
  \E k \in Kinds :
    \/ DeleteResource(k) \/ ReplicasStart(k) \/ ReplicaFails(k)
    \/ CollectService(k) \/ CollectStatefulSet(k)
    \/ DeliverResource(k) \/ DeliverService(k) \/ DeliverStatefulSet(k)

Secrets == \E p \in Pairs : SecretLost(p) \/ CollectSecret(p) \/ DeliverSecret(p)

Next ==
  \/ \E k \in Kinds : Reconcile(k) \/ Step(k) \/ ApiError(k)
  \/ KeyStep \/ Crash \/ EnsureAdditionalFiles \/ EnsureOwnedBuilder \/ ResolveInfra
  \/ CreateStore \/ EditStore \/ EditFiles \/ GivenChanges \/ Cluster \/ Secrets
  \/ DeliverFiles

Spec == Init /\ [][Next]_vars

\* A started pass runs to its end; every pass queues the next one (RequeueAfter, an
\* error or a Conflict), and so do workloads; garbage is collected, events arrive.
Fairness ==
  /\ \A k \in Kinds :
       /\ WF_vars(Reconcile(k)) /\ WF_vars(Step(k))
       /\ WF_vars(CollectService(k)) /\ WF_vars(CollectStatefulSet(k))
       /\ WF_vars(DeliverResource(k)) /\ WF_vars(DeliverService(k))
       /\ WF_vars(DeliverStatefulSet(k))
  /\ \A p \in Pairs : WF_vars(CollectSecret(p)) /\ WF_vars(DeliverSecret(p))
  /\ WF_vars(KeyStep) /\ WF_vars(EnsureOwnedBuilder) /\ WF_vars(ResolveInfra)
  /\ WF_vars(EnsureAdditionalFiles) /\ WF_vars(DeliverFiles)

FairSpec == Spec /\ Fairness

-----------------------------------------------------------------------------
(* Properties. *)

\* A generated pair is not replaced while its Secret exists: not by a pass whose cache
\* does not show the Secret yet, by a restart, or by the store that comes after.
KeyIsStable ==
  [][\A p \in Pairs :
       (Cur(secrets[p]) # None /\ Cur(secrets[p])' # None)
         => Cur(secrets[p])'.key = Cur(secrets[p]).key]_vars

Served(k) ==
  LET o == Cur(cr[k])
      s == Cur(sts[k]) IN
  /\ Cur(svc[k]) = [owner |-> o.uid]
  /\ s # None /\ s.owner = o.uid /\ s.reps = o.spec.reps
  /\ s.tmpl = [ref |-> o.spec.ref, tmpl |-> o.spec.tmpl]
  /\ o.phase = IF s.ready >= s.reps /\ s.reps > 0 THEN "Ready" ELSE "Pending"
  /\ o.phase = "Ready" => ~o.stalled
  /\ o.seen = o.gen

Usable(k) == Cur(cr[k]) # None /\ (k = "store" /\ Cur(cr[k]).spec.ref => given # None)

\* The store publishes the key in the Secret that its replicas mount.  Once they run its
\* template they sign with that key, or with one whose Secret was removed after they
\* loaded it (see the README: nothing restarts them then).
PublishesItsKey ==
  LET o == Cur(cr["store"])
      s == Cur(sts["store"]) IN
  /\ o.key # None /\ s # None
  /\ o.key = MountedKey(s.tmpl)
  /\ s.runs = s.tmpl => s.loaded \subseteq {o.key} \cup removed

\* What a workload trusts: nothing while something it needs is not Ready.
Trusted ==
  IF \E k \in set.kinds : ~IsReady(Cur(cr[k])) THEN None
  ELSE IF "store" \in set.kinds THEN Cur(cr["store"]).key ELSE 0

\* The builder of the workload is there, unless a store has to become Ready first.
HasBuilder ==
  "builder" \in set.kinds /\ ("store" \in set.kinds => IsReady(Cur(cr["store"])))
    => Cur(cr["builder"]) # None

\* A store or builder that stays ends up with a Service and a StatefulSet of its own,
\* made from its current spec, even when it took the place of one that was just
\* deleted, and with a status that tells whether its replicas are ready.  A store
\* publishes the key that it signs with, up to a Secret that was removed under running
\* replicas, and a workload ends up with its builder and with trust in that key, or
\* stalled while something it needs is not Ready.  The ConfigMap ends up with the
\* inline files, and is gone when there are none.
InfraSettles ==
  /\ \A k \in Kinds : <>[]Usable(k) => <>[](Usable(k) /\ Served(k))
  /\ <>[]Usable("store") => <>[](Usable("store") /\ PublishesItsKey)
  /\ <>[](used = Trusted /\ HasBuilder)
  /\ <>[](Cur(cm) = files)
=============================================================================
