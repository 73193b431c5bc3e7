---------------------------- MODULE Infra_proofs ----------------------------
(***************************************************************************)
(* Theorems about the NixStore and NixBuilder controllers: their types,    *)
(* that a new key pair is always unlike every other, and that a generated  *)
(* pair is not replaced while its Secret exists; for any specs, number of  *)
(* stores and disturbances, and every lag of the informers.                *)
(***************************************************************************)
EXTENDS Infra, Informer_proofs, FiniteSetTheorems

ResourceVersion == ResourceObject \cup {None}
SecretVersion == SecretObject \cup {None}
ServiceVersion == ServiceObject \cup {None}
StatefulSetVersion == StatefulSetObject \cup {None}
FileVersion == Nat \cup {None}
Pass == Busy \cup {Idle}

\* TypeOK in these words.
LEMMA Typed ==
  TypeOK <=>
    /\ cr \in [Kinds -> Logs(ResourceVersion)]
    /\ secrets \in [Pairs -> Logs(SecretVersion)]
    /\ given \in Nat \cup {None}
    /\ svc \in [Kinds -> Logs(ServiceVersion)]
    /\ sts \in [Kinds -> Logs(StatefulSetVersion)]
    /\ ctl \in [Kinds -> Pass]
    /\ used \in Nat \cup {None} /\ files \in Nat \cup {None}
    /\ cm \in Logs(FileVersion)
    /\ set \in Settings
    /\ uids \in [Kinds -> Nat] /\ removed \in KeySets /\ upsets \in Nat
BY DEF TypeOK, ResourceVersion, SecretVersion, ServiceVersion, StatefulSetVersion, FileVersion, Pass

-----------------------------------------------------------------------------
(* Fresh keys. *)

\* A log mentions finitely many keys.
LEMMA KeysFinite ==
  ASSUME NEW S, NEW l \in Logs(S)
  PROVE  IsFiniteSet(KeysIn(l))
<1> DEFINE D == {j \in DOMAIN l : l[j] # None}
           f == [i \in D |-> l[i].key]
<1>1. l \in Seq(S)
  BY DEF Logs
<1>2. Len(l) \in Nat /\ DOMAIN l = 1 .. Len(l)
  BY <1>1, LenProperties
<1>3. IsFiniteSet(1 .. Len(l))
  BY <1>2, FS_Interval
<1>4. IsFiniteSet(D)
  <2>1. D \in SUBSET (1 .. Len(l))
    BY <1>2
  <2> HIDE DEF D
  <2> QED BY <1>3, <2>1, FS_Subset
<1>5. f \in Surjection(D, KeysIn(l))
  BY DEF Surjection, KeysIn
<1> HIDE DEF D, f
<1> QED BY <1>4, <1>5, FS_Surjection

\* Sets of keys: the empty one, one more key, fewer keys.
LEMMA KeySetsClosed ==
  /\ {} \in KeySets
  /\ \A S \in KeySets, n \in Nat : S \cup {n} \in KeySets
  /\ \A S \in KeySets : \A T : S \cap T \in KeySets
<1>1. {} \in KeySets
  BY FS_EmptySet DEF KeySets
<1>2. ASSUME NEW S \in KeySets, NEW n \in Nat PROVE S \cup {n} \in KeySets
  <2>1. S \subseteq Nat /\ IsFiniteSet(S)
    BY DEF KeySets
  <2>2. IsFiniteSet(S \cup {n})
    BY <2>1, FS_AddElement
  <2> QED BY <2>1, <2>2 DEF KeySets
<1>3. ASSUME NEW S \in KeySets, NEW T PROVE S \cap T \in KeySets
  <2>1. S \subseteq Nat /\ IsFiniteSet(S)
    BY DEF KeySets
  <2>2. IsFiniteSet(S \cap T)
    BY <2>1, FS_Intersection
  <2> QED BY <2>1, <2>2 DEF KeySets
<1> QED BY <1>1, <1>2, <1>3

\* The replicas in a log loaded finitely many keys.
LEMMA LoadedFinite ==
  ASSUME NEW l \in Logs(StatefulSetVersion)
  PROVE  IsFiniteSet(LoadedIn(l))
<1> DEFINE D == {j \in DOMAIN l : l[j] # None}
           f == [i \in D |-> l[i].loaded]
           F == {l[i].loaded : i \in D}
<1>1. l \in Seq(StatefulSetVersion)
  BY DEF Logs
<1>2. Len(l) \in Nat /\ DOMAIN l = 1 .. Len(l) /\ \A i \in DOMAIN l : l[i] \in StatefulSetVersion
  <2> HIDE DEF StatefulSetVersion
  <2> QED BY <1>1, LenProperties, ElementOfSeq
<1>3. IsFiniteSet(D)
  <2>1. IsFiniteSet(1 .. Len(l))
    BY <1>2, FS_Interval
  <2>2. D \in SUBSET (1 .. Len(l))
    BY <1>2
  <2> HIDE DEF D
  <2> QED BY <2>1, <2>2, FS_Subset
<1>4. f \in Surjection(D, F)
  BY DEF Surjection
<1>5. \A T \in F : IsFiniteSet(T)
  <2> SUFFICES ASSUME NEW i \in D PROVE IsFiniteSet(l[i].loaded)
    OBVIOUS
  <2>1. l[i] \in StatefulSetObject
    BY <1>2 DEF StatefulSetVersion
  <2> QED BY <2>1 DEF StatefulSetObject, KeySets
<1>6. LoadedIn(l) = UNION F
  BY DEF LoadedIn
<1> HIDE DEF D, f, F
<1>7. IsFiniteSet(F)
  BY <1>3, <1>4, FS_Surjection
<1> QED BY <1>5, <1>6, <1>7, FS_UNION

\* Of one more number than a finite set has members one is not among them.
LEMMA OneIsFree ==
  ASSUME NEW M, IsFiniteSet(M)
  PROVE  \E n \in 1 .. (Cardinality(M) + 1) : n \notin M
<1> DEFINE c == Cardinality(M)
<1>1. c \in Nat
  BY FS_CardinalityType
<1>2. SUFFICES ASSUME 1 .. (c + 1) \subseteq M PROVE FALSE
  OBVIOUS
<1>3. Cardinality(1 .. (c + 1)) = c + 1
  <2> HIDE DEF c
  <2>1. 1 \in Int /\ c + 1 \in Int /\ ~(1 > c + 1) /\ (c + 1) - 1 + 1 = c + 1
    BY <1>1
  <2> QED BY <2>1, FS_Interval
<1>4. Cardinality(1 .. (c + 1)) <= c
  <2>1. 1 .. (c + 1) \in SUBSET M
    BY <1>2
  <2> QED BY <2>1, FS_Subset
<1> HIDE DEF c
<1> QED BY <1>1, <1>3, <1>4

\* The keys that something mentions.
Mentioned ==
  {given, used, ctl["store"].key} \cup KeysIn(cr["store"])
    \cup (UNION {KeysIn(secrets[p]) : p \in Pairs})
    \cup removed \cup LoadedIn(sts["store"])
    \cup (IF At("store", "idle") THEN {} ELSE {ctl["store"].obj.key})

\* generateNixSigningKey and generateOpenSSHKeyPair find a pair unlike any other.
LEMMA KeyIsFresh ==
  ASSUME TypeOK
  PROVE  FreshKey \in Nat /\ FreshKey \notin Mentioned
<1>1. IsFiniteSet(KeysIn(cr["store"])) /\ IsFiniteSet(KeysIn(secrets["signing"]))
      /\ IsFiniteSet(KeysIn(secrets["ssh"]))
  <2>1. /\ cr["store"] \in Logs(ResourceVersion) /\ secrets["signing"] \in Logs(SecretVersion)
        /\ secrets["ssh"] \in Logs(SecretVersion)
    BY Typed DEF Kinds, Pairs
  <2> QED BY <2>1, KeysFinite
<1> DEFINE A == {given, used, ctl["store"].key}
           B == IF At("store", "idle") THEN {} ELSE {ctl["store"].obj.key}
           U == UNION {KeysIn(secrets[p]) : p \in Pairs}
<1>2. IsFiniteSet(A)
  <2>1. A = (({} \cup {given}) \cup {used}) \cup {ctl["store"].key}
    OBVIOUS
  <2>2. IsFiniteSet({} \cup {given})
    BY FS_EmptySet, FS_AddElement
  <2>3. IsFiniteSet(({} \cup {given}) \cup {used})
    BY <2>2, FS_AddElement
  <2>4. IsFiniteSet((({} \cup {given}) \cup {used}) \cup {ctl["store"].key})
    BY <2>3, FS_AddElement
  <2> QED BY <2>1, <2>4
<1>3. IsFiniteSet(B)
  BY FS_EmptySet, FS_Singleton
<1>4. IsFiniteSet(U)
  <2>1. U = KeysIn(secrets["signing"]) \cup KeysIn(secrets["ssh"])
    BY DEF Pairs
  <2> QED BY <1>1, <2>1, FS_Union
<1>5. IsFiniteSet(removed) /\ IsFiniteSet(LoadedIn(sts["store"]))
  <2>1. removed \in KeySets /\ sts["store"] \in Logs(StatefulSetVersion)
    BY Typed DEF Kinds
  <2> QED BY <2>1, LoadedFinite DEF KeySets
<1>9. Mentioned = ((((A \cup KeysIn(cr["store"])) \cup U) \cup removed) \cup LoadedIn(sts["store"])) \cup B
  BY DEF Mentioned
<1> HIDE DEF A, B, U
<1>6. IsFiniteSet(Mentioned)
  <2>1. IsFiniteSet(A \cup KeysIn(cr["store"]))
    BY <1>1, <1>2, FS_Union
  <2>2. IsFiniteSet((A \cup KeysIn(cr["store"])) \cup U)
    BY <1>4, <2>1, FS_Union
  <2>3. IsFiniteSet(((A \cup KeysIn(cr["store"])) \cup U) \cup removed)
    BY <1>5, <2>2, FS_Union
  <2>4. IsFiniteSet((((A \cup KeysIn(cr["store"])) \cup U) \cup removed) \cup LoadedIn(sts["store"]))
    BY <1>5, <2>3, FS_Union
  <2> QED BY <1>3, <1>9, <2>4, FS_Union
<1>7. FreshKey = CHOOSE n \in 1 .. (Cardinality(Mentioned) + 1) : n \notin Mentioned
  BY Zenon DEF FreshKey, Mentioned
<1>8. \E n \in 1 .. (Cardinality(Mentioned) + 1) : n \notin Mentioned
  BY <1>6, OneIsFree
<1> HIDE DEF Mentioned
<1>10. FreshKey \in 1 .. (Cardinality(Mentioned) + 1) /\ FreshKey \notin Mentioned
  BY <1>7, <1>8, Zenon
<1> QED BY <1>10

-----------------------------------------------------------------------------
(* What a step reads and writes. *)

\* The bounds and choices of the setting.
LEMMA SettingTyped ==
  ASSUME TypeOK
  PROVE  /\ set.cr \in Nat /\ set.secret \in Nat /\ set.sts \in Nat /\ set.svc \in Nat
         /\ set.cm \in Nat /\ set.upsets \in Nat /\ set.kinds \subseteq Kinds
         /\ set.specs \subseteq SpecObject /\ set.files \subseteq Nat \cup {None}
BY SettingsAreSettings DEF TypeOK

\* The stored and the cached objects have their types.
LEMMA VersionsTyped ==
  ASSUME TypeOK
  PROVE  /\ \A k \in Kinds :
              /\ Cur(cr[k]) \in ResourceVersion /\ Seen(cr[k]) \in ResourceVersion
              /\ Cur(svc[k]) \in ServiceVersion /\ Seen(svc[k]) \in ServiceVersion
              /\ Cur(sts[k]) \in StatefulSetVersion /\ Seen(sts[k]) \in StatefulSetVersion
         /\ \A p \in Pairs : Cur(secrets[p]) \in SecretVersion /\ Seen(secrets[p]) \in SecretVersion
         /\ Cur(cm) \in FileVersion /\ Seen(cm) \in FileVersion
<1>1. /\ \A k \in Kinds : /\ cr[k] \in Logs(ResourceVersion) /\ svc[k] \in Logs(ServiceVersion)
                          /\ sts[k] \in Logs(StatefulSetVersion)
      /\ \A p \in Pairs : secrets[p] \in Logs(SecretVersion)
      /\ cm \in Logs(FileVersion)
  BY Typed
<1> HIDE DEF ResourceVersion, ServiceVersion, StatefulSetVersion, SecretVersion, FileVersion
<1> QED BY <1>1, LogVersions

\* A pass that is not idle has a resource in hand.
LEMMA BusyHere ==
  ASSUME TypeOK, NEW k \in Kinds, ctl[k].pc # "idle"
  PROVE  /\ ctl[k] \in Busy /\ ctl[k].obj \in ResourceObject /\ ctl[k].fresh \in BOOLEAN
         /\ ctl[k].key \in Nat \cup {None}
<1>1. ctl[k] \in Pass
  BY Typed
<1> QED BY <1>1 DEF Pass, Idle, Busy

\* One log of several is written.
LEMMA PutOne ==
  ASSUME NEW S, NEW K, NEW f \in [K -> Logs(S)], NEW k \in K, NEW v \in S, NEW lag \in Nat
  PROVE  /\ [f EXCEPT ![k] = Put(lag, @, v)] \in [K -> Logs(S)]
         /\ Cur([f EXCEPT ![k] = Put(lag, @, v)][k]) = v
         /\ \A i \in K \ {k} : [f EXCEPT ![k] = Put(lag, @, v)][i] = f[i]
<1>1. Put(lag, f[k], v) \in Logs(S) /\ Cur(Put(lag, f[k], v)) = v
  BY LogPut
<1> QED BY <1>1

\* One event of several arrives.
LEMMA DeliverOne ==
  ASSUME NEW S, NEW K, NEW f \in [K -> Logs(S)], NEW k \in K, ~InSync(f[k])
  PROVE  /\ [f EXCEPT ![k] = Delivered(@)] \in [K -> Logs(S)]
         /\ \A i \in K : Cur([f EXCEPT ![k] = Delivered(@)][i]) = Cur(f[i])
<1>1. Delivered(f[k]) \in Logs(S) /\ Cur(Delivered(f[k])) = Cur(f[k])
  BY LogDelivered
<1> QED BY <1>1

\* Everything is listed anew.
LEMMA RelistAll ==
  ASSUME NEW S, NEW K, NEW f \in [K -> Logs(S)]
  PROVE  /\ [k \in K |-> Relisted(f[k])] \in [K -> Logs(S)]
         /\ \A i \in K : Cur([k \in K |-> Relisted(f[k])][i]) = Cur(f[i])
BY LogRelisted

-----------------------------------------------------------------------------
(* How a pass moves. *)

\* Another pass in the place of one.
LEMMA PassTyped ==
  ASSUME TypeOK, NEW k \in Kinds, NEW c \in Pass, ctl' = [ctl EXCEPT ![k] = c]
  PROVE  ctl' \in [Kinds -> Pass]
BY Typed

\* A pass goes on.
LEMMA GotoTyped ==
  ASSUME TypeOK, NEW k \in Kinds, ctl[k].pc # "idle", NEW p \in PCs \ {"idle"}, Goto(k, p)
  PROVE  ctl' \in [Kinds -> Pass]
<1> DEFINE c == [ctl[k] EXCEPT !.pc = p]
<1>1. ctl[k] \in Busy /\ ctl \in [Kinds -> Pass]
  BY BusyHere, Typed
<1>2. c \in Pass
  BY <1>1 DEF Busy, Pass
<1>3. ctl' = [ctl EXCEPT ![k] = c]
  BY <1>1 DEF Goto
<1> HIDE DEF c
<1> QED BY <1>2, <1>3, PassTyped

\* fail() leaves a pass that will write a status.
LEMMA FailedTyped ==
  ASSUME NEW c \in Busy
  PROVE  Failed(c) \in Busy /\ Failed(c).pc = "fail"
<1> DEFINE o == [c.obj EXCEPT !.phase = "Degraded", !.stalled = TRUE]
<1>1. o \in ResourceObject
  BY DEF Busy, ResourceObject, Phases
<1>2. Failed(c) = [c EXCEPT !.pc = "fail", !.obj = o]
  BY DEF Failed, Busy, ResourceObject
<1> HIDE DEF o
<1> QED BY <1>1, <1>2 DEF Busy, PCs

\* So does every call that fails.
LEMMA FailsTyped ==
  ASSUME TypeOK, NEW k \in Kinds, ctl[k].pc # "idle", Fails(k)
  PROVE  ctl' \in [Kinds -> Pass]
<1>1. Failed(ctl[k]) \in Pass
  BY BusyHere, FailedTyped DEF Pass
<1>2. ctl' = [ctl EXCEPT ![k] = Failed(ctl[k])]
  BY Typed DEF Fails
<1> QED BY <1>1, <1>2, PassTyped

\* The pass of a store has found a key.
LEMMA HasTyped ==
  ASSUME TypeOK, ctl["store"].pc # "idle", NEW p \in Pairs, NEW key \in Nat, Has(p, key)
  PROVE  ctl' \in [Kinds -> Pass]
<1> DEFINE q == IF p = "signing" THEN "ssh" ELSE "service"
           n == IF p = "signing" THEN key ELSE ctl["store"].key
           c == [ctl["store"] EXCEPT !.pc = q, !.key = n]
<1>1. "store" \in Kinds
  BY DEF Kinds
<1>2. ctl["store"] \in Busy /\ ctl["store"].key \in Nat \cup {None} /\ ctl \in [Kinds -> Pass]
  BY <1>1, BusyHere, Typed
<1>3. q \in PCs \ {"idle"} /\ n \in Nat \cup {None}
  BY <1>2 DEF PCs
<1>4. ctl' = [ctl EXCEPT !["store"] = c]
  BY <1>1, <1>2 DEF Has, Busy
<1> HIDE DEF q, n
<1>5. c \in Pass
  BY <1>2, <1>3 DEF Busy, Pass
<1> HIDE DEF c
<1> QED BY <1>1, <1>4, <1>5, PassTyped

\* Somebody else's write outdates the pass.
LEMMA OutsideTyped ==
  ASSUME TypeOK, NEW k \in Kinds, NEW v \in ResourceVersion, OutsideWrites(k, v)
  PROVE  ctl' \in [Kinds -> Pass] /\ cr' \in [Kinds -> Logs(ResourceVersion)]
<1>1. ctl \in [Kinds -> Pass] /\ cr \in [Kinds -> Logs(ResourceVersion)] /\ set.cr \in Nat
  BY Typed, SettingTyped
<1>2. cr' \in [Kinds -> Logs(ResourceVersion)]
  <2> HIDE DEF ResourceVersion
  <2> QED BY <1>1, PutOne DEF OutsideWrites, WriteCR
<1> DEFINE c == [ctl[k] EXCEPT !.fresh = FALSE]
<1>3. c \in Pass
  <2>1. CASE ctl[k] \in Busy
    BY <2>1 DEF Busy, Pass
  <2>2. CASE ctl[k] = Idle
    <3>1. c = [Idle EXCEPT !.fresh = FALSE]
      BY <2>2
    <3>2. [Idle EXCEPT !.fresh = FALSE] = Idle
      <4> DEFINE R == [pc : {"idle"}, obj : {None}, fresh : {FALSE}, key : {None}]
                 i == [Idle EXCEPT !.fresh = FALSE]
      <4>1. Idle \in R
        BY DEF Idle
      <4>2. i \in R
        <5> HIDE DEF Idle
        <5> QED BY <4>1
      <4> QED BY <4>1, <4>2
    <3> QED BY <3>1, <3>2 DEF Pass
  <2> QED BY <1>1, <2>1, <2>2 DEF Pass
<1>4. ctl' = [ctl EXCEPT ![k] = c]
  BY <1>1 DEF OutsideWrites
<1> HIDE DEF c
<1> QED BY <1>2, <1>3, <1>4, PassTyped

\* What Reconcile starts with.
LEMMA StartTyped ==
  ASSUME TypeOK, NEW k \in Kinds, Reconcile(k)
  PROVE  ctl' \in [Kinds -> Pass]
<1> DEFINE o == Seen(cr[k])
           v == [o EXCEPT !.seen = o.gen]
           p == IF k = "store" THEN "signing" ELSE "service"
           f == InSync(cr[k])
           c == [pc |-> p, obj |-> v, fresh |-> f, key |-> None]
<1>1. o \in ResourceObject
  BY VersionsTyped DEF Reconcile, ResourceVersion
<1>2. v \in ResourceObject
  <2> HIDE DEF o
  <2> QED BY <1>1 DEF ResourceObject
<1>3. p \in PCs \ {"idle"} /\ f \in BOOLEAN
  BY DEF PCs, InSync
<1>4. ctl' = [ctl EXCEPT ![k] = c]
  BY DEF Reconcile
<1> HIDE DEF o, v, p, f
<1>5. c \in Pass
  BY <1>2, <1>3 DEF Busy, Pass
<1> HIDE DEF c
<1> QED BY <1>4, <1>5, PassTyped

\* A StatefulSet made or brought up to date from a spec.
LEMMA DesiredTyped ==
  ASSUME NEW s \in StatefulSetVersion, NEW o \in ResourceObject
  PROVE  Desired(s, o) \in StatefulSetVersion
<1> DEFINE t == [ref |-> o.spec.ref, tmpl |-> o.spec.tmpl]
<1>1. o.uid \in Nat /\ o.spec.reps \in Nat /\ t \in Template
  BY DEF ResourceObject, SpecObject, Template
<1>2. CASE s = None
  <2>1. Desired(s, o) = [owner |-> o.uid, reps |-> o.spec.reps, tmpl |-> t, ready |-> 0,
                         runs |-> None, loaded |-> {}]
    BY <1>2 DEF Desired
  <2> HIDE DEF t, Template, KeySets
  <2> QED BY <1>1, <2>1, KeySetsClosed DEF StatefulSetVersion, StatefulSetObject
<1>3. CASE s # None
  <2>1. Desired(s, o) = [s EXCEPT !.reps = o.spec.reps, !.tmpl = t] /\ s \in StatefulSetObject
    BY <1>3 DEF Desired, StatefulSetVersion
  <2> HIDE DEF t, Template, KeySets
  <2> QED BY <1>1, <2>1 DEF StatefulSetVersion, StatefulSetObject
<1> QED BY <1>2, <1>3

\* What a pass observed.
LEMMA ReadinessTyped ==
  ASSUME NEW o \in ResourceObject, NEW s, NEW key \in Nat \cup {None}
  PROVE  [Readiness(o, s) EXCEPT !.key = key] \in ResourceObject
<1>1. Readiness(o, s) \in ResourceObject
  BY DEF Readiness, ResourceObject, Phases
<1> HIDE DEF Readiness
<1> QED BY <1>1 DEF ResourceObject

-----------------------------------------------------------------------------
(* Type correctness. *)

\* Steps that only move a pass along.
LEMMA OnlyPass ==
  ASSUME TypeOK, UNCHANGED <<cr, secrets, given, svc, sts, used, files, cm, set, uids, removed>>,
         upsets' \in Nat, ctl' \in [Kinds -> Pass]
  PROVE  TypeOK'
BY DEF TypeOK, Pass

\* Steps that write one object.
LEMMA OnlyObjects ==
  ASSUME TypeOK, UNCHANGED <<given, used, files, cm, set>>,
         cr' \in [Kinds -> Logs(ResourceVersion)], secrets' \in [Pairs -> Logs(SecretVersion)],
         svc' \in [Kinds -> Logs(ServiceVersion)], sts' \in [Kinds -> Logs(StatefulSetVersion)],
         upsets' \in Nat, uids' \in [Kinds -> Nat], removed' \in KeySets, ctl' \in [Kinds -> Pass]
  PROVE  TypeOK'
BY DEF TypeOK, Pass, ResourceVersion, SecretVersion, ServiceVersion, StatefulSetVersion

\* A Secret is created or removed.
LEMMA SecretWritten ==
  ASSUME TypeOK, NEW p \in Pairs, NEW v \in SecretVersion, WriteSecret(p, v)
  PROVE  /\ secrets' \in [Pairs -> Logs(SecretVersion)] /\ Cur(secrets'[p]) = v
         /\ \A q \in Pairs \ {p} : secrets'[q] = secrets[q]
<1>1. secrets \in [Pairs -> Logs(SecretVersion)] /\ set.secret \in Nat
  BY Typed, SettingTyped
<1> HIDE DEF SecretVersion
<1> QED BY <1>1, PutOne DEF WriteSecret

\* The steps that find the keys of a store.
LEMMA KeyStepTyped ==
  ASSUME TypeOK, KeyStep
  PROVE  TypeOK'
<1>0. /\ cr \in [Kinds -> Logs(ResourceVersion)] /\ secrets \in [Pairs -> Logs(SecretVersion)]
      /\ svc \in [Kinds -> Logs(ServiceVersion)] /\ sts \in [Kinds -> Logs(StatefulSetVersion)]
      /\ upsets \in Nat /\ uids \in [Kinds -> Nat] /\ removed \in KeySets /\ "store" \in Kinds
      /\ given \in Nat \cup {None}
  BY Typed DEF Kinds
<1>1. CASE UseGivenKey
  <2>1. ctl["store"].pc # "idle" /\ "signing" \in Pairs
    BY <1>1 DEF UseGivenKey, At, Pairs
  <2>2. ctl' \in [Kinds -> Pass]
    <3>1. CASE given = None
      BY <1>0, <1>1, <2>1, <3>1, FailsTyped DEF UseGivenKey
    <3>2. CASE given # None
      BY <1>0, <1>1, <2>1, <3>2, HasTyped DEF UseGivenKey
    <3> QED BY <3>1, <3>2
  <2> QED BY <1>0, <1>1, <2>2, OnlyPass DEF UseGivenKey, objects, env, work
<1>2. ASSUME NEW p \in Pairs, EnsureKey(p) PROVE TypeOK'
  <2>1. ctl["store"].pc # "idle"
    BY <1>2 DEF EnsureKey, At, Pairs
  <2>2. ctl["store"].obj.uid \in Nat
    BY <1>0, <2>1, BusyHere DEF ResourceObject
  <2>3. ctl' \in [Kinds -> Pass] /\ secrets' \in [Pairs -> Logs(SecretVersion)]
    <3>1. CASE Seen(secrets[p]) # None
      <4>1. Seen(secrets[p]).key \in Nat
        BY <3>1, VersionsTyped DEF SecretVersion, SecretObject
      <4>2. Has(p, Seen(secrets[p]).key) /\ secrets' = secrets
        BY <1>2, <3>1 DEF EnsureKey
      <4> QED BY <1>0, <2>1, <4>1, <4>2, HasTyped
    <3>2. CASE Seen(secrets[p]) = None /\ Cur(secrets[p]) = None
      <4>1. /\ WriteSecret(p, [owner |-> ctl["store"].obj.uid, key |-> FreshKey])
            /\ Has(p, FreshKey)
        BY <1>2, <3>2 DEF EnsureKey
      <4>2. FreshKey \in Nat
        BY KeyIsFresh
      <4>3. [owner |-> ctl["store"].obj.uid, key |-> FreshKey] \in SecretVersion
        BY <2>2, <4>2 DEF SecretVersion, SecretObject
      <4> QED BY <2>1, <4>1, <4>2, <4>3, HasTyped, SecretWritten
    <3>3. CASE Seen(secrets[p]) = None /\ Cur(secrets[p]) # None
      <4>1. /\ Goto("store", IF p = "signing" THEN "reread signing" ELSE "reread ssh")
            /\ secrets' = secrets
        BY <1>2, <3>3 DEF EnsureKey
      <4>2. (IF p = "signing" THEN "reread signing" ELSE "reread ssh") \in PCs \ {"idle"}
        BY DEF PCs
      <4> QED BY <1>0, <2>1, <4>1, <4>2, GotoTyped
    <3> QED BY <3>1, <3>2, <3>3
  <2> QED BY <1>0, <1>2, <2>3, OnlyObjects DEF EnsureKey, env, work
<1>3. ASSUME NEW p \in Pairs, RereadKey(p) PROVE TypeOK'
  <2>1. ctl["store"].pc # "idle"
    BY <1>3 DEF RereadKey, At
  <2>2. ctl' \in [Kinds -> Pass]
    <3>1. CASE Seen(secrets[p]) = None
      BY <1>0, <1>3, <2>1, <3>1, FailsTyped DEF RereadKey
    <3>2. CASE Seen(secrets[p]) # None
      <4>1. Seen(secrets[p]).key \in Nat
        BY <3>2, VersionsTyped DEF SecretVersion, SecretObject
      <4> QED BY <1>3, <2>1, <3>2, <4>1, HasTyped DEF RereadKey
    <3> QED BY <3>1, <3>2
  <2> QED BY <1>0, <1>3, <2>2, OnlyPass DEF RereadKey, objects, env, work
<1> QED BY <1>1, <1>2, <1>3 DEF KeyStep

\* The steps that both controllers take.
LEMMA StepTyped ==
  ASSUME TypeOK, NEW k \in Kinds, Step(k)
  PROVE  TypeOK'
<1>0. /\ cr \in [Kinds -> Logs(ResourceVersion)] /\ secrets \in [Pairs -> Logs(SecretVersion)]
      /\ svc \in [Kinds -> Logs(ServiceVersion)] /\ sts \in [Kinds -> Logs(StatefulSetVersion)]
      /\ upsets \in Nat /\ uids \in [Kinds -> Nat] /\ removed \in KeySets
      /\ set.cr \in Nat /\ set.svc \in Nat /\ set.sts \in Nat
  BY Typed, SettingTyped
<1>1. CASE EnsureService(k)
  <2> DEFINE new == [owner |-> ctl[k].obj.uid]
  <2>1. ctl[k].pc # "idle" /\ "statefulset" \in PCs \ {"idle"}
    BY <1>1 DEF EnsureService, At, PCs
  <2>2. new \in ServiceVersion
    BY <2>1, BusyHere DEF ResourceObject, ServiceVersion, ServiceObject
  <2>3. \/ Fails(k) /\ svc' = svc
        \/ Goto(k, "statefulset") /\ svc' = svc
        \/ Goto(k, "statefulset") /\ svc' = [svc EXCEPT ![k] = Put(set.svc, @, new)]
    BY <1>1, Zenon DEF EnsureService
  <2>4. svc' \in [Kinds -> Logs(ServiceVersion)]
    <3> HIDE DEF new, ServiceVersion
    <3> QED BY <1>0, <2>2, <2>3, PutOne
  <2>5. ctl' \in [Kinds -> Pass]
    BY <2>1, <2>3, FailsTyped, GotoTyped
  <2> QED BY <1>0, <1>1, <2>4, <2>5, OnlyObjects DEF EnsureService, env, work
<1>2. CASE EnsureStatefulSet(k)
  <2> DEFINE new == Desired(Seen(sts[k]), ctl[k].obj)
  <2>1. ctl[k].pc # "idle" /\ "observe" \in PCs \ {"idle"}
    BY <1>2 DEF EnsureStatefulSet, At, PCs
  <2>2. new \in StatefulSetVersion
    BY <2>1, BusyHere, VersionsTyped, DesiredTyped
  <2>3. \/ Fails(k) /\ sts' = sts
        \/ Goto(k, "observe") /\ sts' = [sts EXCEPT ![k] = Put(set.sts, @, new)]
    BY <1>0, <1>2 DEF EnsureStatefulSet
  <2>4. sts' \in [Kinds -> Logs(StatefulSetVersion)]
    <3> HIDE DEF new, StatefulSetVersion
    <3> QED BY <1>0, <2>2, <2>3, PutOne
  <2>5. ctl' \in [Kinds -> Pass]
    BY <2>1, <2>3, FailsTyped, GotoTyped
  <2> QED BY <1>0, <1>2, <2>4, <2>5, OnlyObjects DEF EnsureStatefulSet, env, work
<1>3. CASE Observe(k)
  <2>1. ctl[k].pc # "idle"
    BY <1>3 DEF Observe, At
  <2>2. ctl' \in [Kinds -> Pass]
    <3>1. CASE Seen(sts[k]) = None
      BY <1>3, <2>1, <3>1, FailsTyped DEF Observe
    <3>2. CASE Seen(sts[k]) # None
      <4> DEFINE o == [Readiness(ctl[k].obj, Seen(sts[k])) EXCEPT !.key = ctl[k].key]
                 c == [ctl[k] EXCEPT !.pc = "status", !.obj = o]
      <4>1. ctl[k] \in Busy /\ o \in ResourceObject /\ ctl \in [Kinds -> Pass]
        BY <2>1, BusyHere, ReadinessTyped, Typed
      <4>2. ctl' = [ctl EXCEPT ![k] = c]
        BY <1>3, <3>2, <4>1 DEF Observe, Busy
      <4> HIDE DEF o
      <4>3. c \in Pass
        BY <4>1 DEF Busy, Pass, PCs
      <4> HIDE DEF c
      <4> QED BY <4>2, <4>3, PassTyped
    <3> QED BY <3>1, <3>2
  <2> QED BY <1>0, <1>3, <2>2, OnlyPass DEF Observe, objects, env, work
<1>4. CASE StatusUpdate(k)
  <2>1. ctl[k].pc # "idle"
    BY <1>4 DEF StatusUpdate
  <2>2. ctl[k].obj \in ResourceVersion
    BY <2>1, BusyHere DEF ResourceVersion
  <2>3. cr' \in [Kinds -> Logs(ResourceVersion)]
    <3> HIDE DEF ResourceVersion
    <3> QED BY <1>0, <1>4, <2>2, PutOne DEF StatusUpdate, WriteCR
  <2>4. ctl' \in [Kinds -> Pass]
    BY <1>4, PassTyped DEF StatusUpdate, Pass
  <2> QED BY <1>0, <1>4, <2>3, <2>4, OnlyObjects DEF StatusUpdate, env, work
<1> QED BY <1>1, <1>2, <1>3, <1>4 DEF Step

\* The start of a pass, and faults.
LEMMA FaultTyped ==
  ASSUME TypeOK, Crash \/ \E k \in Kinds : Reconcile(k) \/ ApiError(k)
  PROVE  TypeOK'
<1>0. /\ cr \in [Kinds -> Logs(ResourceVersion)] /\ secrets \in [Pairs -> Logs(SecretVersion)]
      /\ svc \in [Kinds -> Logs(ServiceVersion)] /\ sts \in [Kinds -> Logs(StatefulSetVersion)]
      /\ upsets \in Nat /\ uids \in [Kinds -> Nat] /\ removed \in KeySets /\ cm \in Logs(FileVersion)
      /\ ctl \in [Kinds -> Pass]
  BY Typed
<1>1. ASSUME NEW k \in Kinds, Reconcile(k) PROVE TypeOK'
  BY <1>0, <1>1, StartTyped, OnlyPass DEF Reconcile, objects, env, work
<1>2. ASSUME NEW k \in Kinds, ApiError(k) PROVE TypeOK'
  <2> DEFINE c == IF ctl[k].pc \in {"status", "fail"} THEN Idle ELSE Failed(ctl[k])
  <2>1. c \in Pass
    BY <1>2, BusyHere, FailedTyped DEF ApiError, At, Pass
  <2>2. ctl' = [ctl EXCEPT ![k] = c]
    BY <1>0, <1>2 DEF ApiError
  <2> HIDE DEF c
  <2>3. ctl' \in [Kinds -> Pass]
    BY <2>1, <2>2, PassTyped
  <2>4. upsets' \in Nat
    BY <1>0, <1>2 DEF ApiError, Disturb
  <2> QED BY <1>2, <2>3, <2>4, OnlyPass DEF ApiError, objects, work
<1>3. CASE Crash
  <2>1. /\ cr' = [k \in Kinds |-> Relisted(cr[k])]
        /\ secrets' = [p \in Pairs |-> Relisted(secrets[p])]
        /\ svc' = [k \in Kinds |-> Relisted(svc[k])]
        /\ sts' = [k \in Kinds |-> Relisted(sts[k])]
        /\ cm' = Relisted(cm)
        /\ ctl' = [k \in Kinds |-> Idle]
        /\ UNCHANGED <<given, used, files, set, uids, removed>>
    BY <1>3 DEF Crash
  <2>2. /\ cr' \in [Kinds -> Logs(ResourceVersion)] /\ secrets' \in [Pairs -> Logs(SecretVersion)]
        /\ svc' \in [Kinds -> Logs(ServiceVersion)] /\ sts' \in [Kinds -> Logs(StatefulSetVersion)]
        /\ cm' \in Logs(FileVersion)
    <3> HIDE DEF ResourceVersion, SecretVersion, ServiceVersion, StatefulSetVersion, FileVersion
    <3> QED BY <1>0, <2>1, RelistAll, LogRelisted
  <2>3. ctl' \in [Kinds -> Pass]
    BY <2>1 DEF Pass
  <2>4. upsets' \in Nat
    BY <1>0, <1>3 DEF Crash, Disturb
  <2> QED BY <1>0, <2>1, <2>2, <2>3, <2>4 DEF TypeOK, Pass, ResourceVersion, SecretVersion,
                ServiceVersion, StatefulSetVersion, FileVersion
<1> QED BY <1>1, <1>2, <1>3

-----------------------------------------------------------------------------

\* A resource that was just created.
LEMMA NewTyped ==
  ASSUME TypeOK, NEW k \in Kinds, NEW s \in SpecObject
  PROVE  NewResource(k, s) \in ResourceObject
<1>1. uids[k] + 1 \in Nat
  BY Typed
<1> QED BY <1>1 DEF NewResource, ResourceObject, Phases

\* A resource whose spec was edited.
LEMMA EditedTyped ==
  ASSUME NEW o \in ResourceObject, NEW s \in SpecObject
  PROVE  [o EXCEPT !.spec = s, !.gen = @ + 1] \in ResourceObject
<1> DEFINE g == o.gen + 1
<1>1. g \in Nat
  BY DEF ResourceObject
<1>2. [o EXCEPT !.spec = s, !.gen = @ + 1] = [o EXCEPT !.spec = s, !.gen = g]
  BY DEF ResourceObject
<1> HIDE DEF g, SpecObject
<1> QED BY <1>1, <1>2 DEF ResourceObject

\* The workload's steps, and the arrival of its ConfigMap.
LEMMA WorkloadTyped ==
  ASSUME TypeOK,
         EnsureAdditionalFiles \/ EnsureOwnedBuilder \/ ResolveInfra \/ EditFiles \/ DeliverFiles
  PROVE  TypeOK'
<1>0. /\ cr \in [Kinds -> Logs(ResourceVersion)] /\ secrets \in [Pairs -> Logs(SecretVersion)]
      /\ svc \in [Kinds -> Logs(ServiceVersion)] /\ sts \in [Kinds -> Logs(StatefulSetVersion)]
      /\ upsets \in Nat /\ uids \in [Kinds -> Nat] /\ removed \in KeySets /\ cm \in Logs(FileVersion)
      /\ ctl \in [Kinds -> Pass] /\ files \in Nat \cup {None} /\ set.cm \in Nat
      /\ set.kinds \subseteq Kinds /\ set.files \subseteq Nat \cup {None}
  BY Typed, SettingTyped
<1>1. CASE EnsureAdditionalFiles
  <2>1. cm' \in Logs(FileVersion)
    <3>1. files \in FileVersion
      BY <1>0 DEF FileVersion
    <3> HIDE DEF FileVersion
    <3> QED BY <1>0, <1>1, <3>1, LogPut DEF EnsureAdditionalFiles
  <2> QED BY <1>1, <2>1 DEF EnsureAdditionalFiles, TypeOK, FileVersion, objects
<1>2. CASE EnsureOwnedBuilder
  <2>1. "builder" \in Kinds
    BY DEF Kinds
  <2>2. NewResource("builder", BuilderSpec) \in ResourceVersion
    <3>1. BuilderSpec \in SpecObject
      BY DEF BuilderSpec, SpecObject
    <3> QED BY <2>1, <3>1, NewTyped DEF ResourceVersion
  <2>3. ctl' \in [Kinds -> Pass] /\ cr' \in [Kinds -> Logs(ResourceVersion)]
    BY <1>2, <2>1, <2>2, OutsideTyped DEF EnsureOwnedBuilder
  <2>4. uids' \in [Kinds -> Nat]
    BY <1>0, <1>2, <2>1 DEF EnsureOwnedBuilder
  <2> QED BY <1>0, <1>2, <2>3, <2>4, OnlyObjects DEF EnsureOwnedBuilder, work
<1>3. CASE ResolveInfra
  <2>1. ASSUME "store" \in set.kinds, Seen(cr["store"]) # None
        PROVE  Seen(cr["store"]).key \in Nat \cup {None}
    BY <1>0, <2>1, VersionsTyped DEF ResourceVersion, ResourceObject
  <2> DEFINE ready == \A k \in set.kinds : IsReady(Seen(cr[k]))
  <2>2. used' = IF ready THEN IF "store" \in set.kinds THEN Seen(cr["store"]).key ELSE 0 ELSE None
    BY <1>3 DEF ResolveInfra
  <2>3. ready /\ "store" \in set.kinds => Seen(cr["store"]) # None
    BY DEF IsReady
  <2> HIDE DEF ready
  <2>4. used' \in Nat \cup {None}
    BY <2>1, <2>2, <2>3
  <2> QED BY <1>3, <2>4 DEF ResolveInfra, TypeOK, objects
<1>4. CASE EditFiles
  <2>1. files' \in Nat \cup {None} /\ upsets' \in Nat
    BY <1>0, <1>4 DEF EditFiles, Disturb
  <2> QED BY <1>4, <2>1 DEF EditFiles, TypeOK, objects
<1>5. CASE DeliverFiles
  <2>1. cm' \in Logs(FileVersion)
    <3> HIDE DEF FileVersion
    <3> QED BY <1>0, <1>5, LogDelivered DEF DeliverFiles
  <2> QED BY <1>5, <2>1 DEF DeliverFiles, TypeOK, FileVersion, objects
<1> QED BY <1>1, <1>2, <1>3, <1>4, <1>5

\* Users write a store or its Secret.
LEMMA UserTyped ==
  ASSUME TypeOK, CreateStore \/ EditStore \/ GivenChanges
  PROVE  TypeOK'
<1>0. /\ cr \in [Kinds -> Logs(ResourceVersion)] /\ secrets \in [Pairs -> Logs(SecretVersion)]
      /\ svc \in [Kinds -> Logs(ServiceVersion)] /\ sts \in [Kinds -> Logs(StatefulSetVersion)]
      /\ upsets \in Nat /\ uids \in [Kinds -> Nat] /\ removed \in KeySets /\ "store" \in Kinds
      /\ set.specs \subseteq SpecObject
  BY Typed, SettingTyped DEF Kinds
<1>1. CASE CreateStore
  <2>1. PICK s \in set.specs : OutsideWrites("store", NewResource("store", s))
    BY <1>1 DEF CreateStore
  <2>2. NewResource("store", s) \in ResourceVersion
    BY <1>0, <2>1, NewTyped DEF ResourceVersion
  <2>3. ctl' \in [Kinds -> Pass] /\ cr' \in [Kinds -> Logs(ResourceVersion)]
    BY <1>0, <2>1, <2>2, OutsideTyped
  <2>4. uids' \in [Kinds -> Nat]
    BY <1>0, <1>1 DEF CreateStore
  <2> QED BY <1>0, <1>1, <2>3, <2>4, OnlyObjects DEF CreateStore, work
<1>2. CASE EditStore
  <2> DEFINE o == Cur(cr["store"])
  <2>1. o \in ResourceObject
    BY <1>0, <1>2, VersionsTyped DEF EditStore, ResourceVersion
  <2>2. PICK s \in set.specs : OutsideWrites("store", [o EXCEPT !.spec = s, !.gen = @ + 1])
    BY <1>2 DEF EditStore
  <2> HIDE DEF o
  <2>3. [o EXCEPT !.spec = s, !.gen = @ + 1] \in ResourceVersion
    <3>1. s \in SpecObject
      BY <1>0, <2>2
    <3> QED BY <2>1, <3>1, EditedTyped DEF ResourceVersion
  <2>4. ctl' \in [Kinds -> Pass] /\ cr' \in [Kinds -> Logs(ResourceVersion)]
    BY <1>0, <2>2, <2>3, OutsideTyped
  <2>5. upsets' \in Nat
    <3>1. Disturb
      BY <1>2, Zenon DEF EditStore
    <3> QED BY <1>0, <3>1 DEF Disturb
  <2> QED BY <1>0, <1>2, <2>4, <2>5, OnlyObjects DEF EditStore, work
<1>3. CASE GivenChanges
  <2>1. upsets' \in Nat /\ given' \in Nat \cup {None}
    BY <1>0, <1>3 DEF GivenChanges, Disturb
  <2> QED BY <1>3, <2>1 DEF GivenChanges, TypeOK, objects, work
<1> QED BY <1>1, <1>2, <1>3

\* What ReplicasStart makes of a StatefulSet is one.
LEMMA StartedTyped ==
  ASSUME TypeOK, NEW k \in Kinds, ReplicasStart(k)
  PROVE  \E v \in StatefulSetObject : sts' = [sts EXCEPT ![k] = Put(set.sts, @, v)]
<1> DEFINE s == Cur(sts[k])
           anew == s.ready = 0 \/ s.runs # s.tmpl
           starts == s.reps > 0 /\ (anew \/ s.ready < s.reps)
           kept == IF anew \/ s.reps = 0 THEN {} ELSE s.loaded
           m == MountedKey(s.tmpl)
           keys == IF starts /\ k = "store" THEN kept \cup {m} ELSE kept
           v == [s EXCEPT !.ready = s.reps, !.runs = s.tmpl, !.loaded = keys]
<1>1. s # None /\ None \notin keys /\ sts' = [sts EXCEPT ![k] = Put(set.sts, @, v)]
  BY Zenon DEF ReplicasStart
<1>2. s \in StatefulSetObject
  BY <1>1, VersionsTyped DEF StatefulSetVersion
<1>3. m \in Nat \cup {None}
  <2>1. given \in Nat \cup {None}
    BY Typed
  <2>2. Cur(secrets["signing"]) # None => Cur(secrets["signing"]).key \in Nat
    BY VersionsTyped DEF Pairs, SecretVersion, SecretObject
  <2> QED BY <2>1, <2>2 DEF MountedKey
<1> HIDE DEF s, m
<1>4. kept \in KeySets
  <2>1. s.loaded \in KeySets
    BY <1>2 DEF StatefulSetObject
  <2> QED BY <2>1, KeySetsClosed
<1>5. keys \in KeySets
  <2> HIDE DEF kept, starts
  <2>1. CASE starts /\ k = "store"
    <3>1. keys = kept \cup {m}
      BY <2>1
    <3>2. m \in Nat
      BY <1>1, <1>3, <3>1
    <3> QED BY <1>4, <3>1, <3>2, KeySetsClosed
  <2>2. CASE ~(starts /\ k = "store")
    BY <1>4, <2>2
  <2> QED BY <2>1, <2>2
<1> HIDE DEF keys
<1>6. v \in StatefulSetObject
  <2>1. s.reps \in Nat /\ s.tmpl \in Template
    BY <1>2 DEF StatefulSetObject
  <2> HIDE DEF KeySets, Template
  <2> QED BY <1>2, <1>5, <2>1 DEF StatefulSetObject
<1> HIDE DEF v
<1> QED BY <1>1, <1>6

\* Kubernetes runs, collects and announces objects.
LEMMA ClusterTyped ==
  ASSUME TypeOK, Cluster
  PROVE  TypeOK'
<1>0. /\ cr \in [Kinds -> Logs(ResourceVersion)] /\ secrets \in [Pairs -> Logs(SecretVersion)]
      /\ svc \in [Kinds -> Logs(ServiceVersion)] /\ sts \in [Kinds -> Logs(StatefulSetVersion)]
      /\ upsets \in Nat /\ uids \in [Kinds -> Nat] /\ removed \in KeySets /\ ctl \in [Kinds -> Pass]
      /\ set.svc \in Nat /\ set.sts \in Nat
      /\ None \in ResourceVersion /\ None \in ServiceVersion /\ None \in StatefulSetVersion
  BY Typed, SettingTyped DEF ResourceVersion, ServiceVersion, StatefulSetVersion
<1>1. PICK k \in Kinds : \/ DeleteResource(k) \/ ReplicasStart(k) \/ ReplicaFails(k)
                          \/ CollectService(k) \/ CollectStatefulSet(k)
                          \/ DeliverResource(k) \/ DeliverService(k) \/ DeliverStatefulSet(k)
  BY DEF Cluster
<1>2. CASE DeleteResource(k)
  <2>1. ctl' \in [Kinds -> Pass] /\ cr' \in [Kinds -> Logs(ResourceVersion)]
    BY <1>0, <1>2, OutsideTyped DEF DeleteResource
  <2>2. upsets' \in Nat
    BY <1>0, <1>2 DEF DeleteResource, Disturb
  <2> QED BY <1>0, <1>2, <2>1, <2>2, OnlyObjects DEF DeleteResource, work
<1>3. CASE ReplicasStart(k)
  <2>1. PICK v \in StatefulSetObject : sts' = [sts EXCEPT ![k] = Put(set.sts, @, v)]
    BY <1>3, StartedTyped
  <2>2. v \in StatefulSetVersion
    BY DEF StatefulSetVersion
  <2>3. sts' \in [Kinds -> Logs(StatefulSetVersion)]
    <3> HIDE DEF StatefulSetVersion
    <3> QED BY <1>0, <2>1, <2>2, PutOne
  <2> QED BY <1>0, <1>3, <2>3, OnlyObjects DEF ReplicasStart, env, work
<1>4. CASE ReplicaFails(k)
  <2> DEFINE s == Cur(sts[k])
             down == [s EXCEPT !.ready = s.ready - 1]
  <2>1. s \in StatefulSetObject /\ s.ready > 0
    BY <1>4, VersionsTyped DEF ReplicaFails, StatefulSetVersion
  <2>2. sts' = [sts EXCEPT ![k] = Put(set.sts, @, down)] /\ upsets' \in Nat
    BY <1>0, <1>4 DEF ReplicaFails, Disturb
  <2>3. down \in StatefulSetVersion
    <3>1. s.ready \in Nat
      BY <2>1 DEF StatefulSetObject
    <3>2. s.ready - 1 \in Nat
      BY <2>1, <3>1
    <3> HIDE DEF s
    <3> QED BY <2>1, <3>2 DEF StatefulSetVersion, StatefulSetObject
  <2>4. sts' \in [Kinds -> Logs(StatefulSetVersion)]
    <3> HIDE DEF down, StatefulSetVersion
    <3> QED BY <1>0, <2>2, <2>3, PutOne
  <2> QED BY <1>0, <1>4, <2>2, <2>4, OnlyObjects DEF ReplicaFails, work
<1>5. CASE CollectService(k)
  <2>1. svc' \in [Kinds -> Logs(ServiceVersion)]
    <3> HIDE DEF ServiceVersion
    <3> QED BY <1>0, <1>5, PutOne DEF CollectService
  <2> QED BY <1>0, <1>5, <2>1, OnlyObjects DEF CollectService, env, work
<1>6. CASE CollectStatefulSet(k)
  <2>1. sts' \in [Kinds -> Logs(StatefulSetVersion)]
    <3> HIDE DEF StatefulSetVersion
    <3> QED BY <1>0, <1>6, PutOne DEF CollectStatefulSet
  <2> QED BY <1>0, <1>6, <2>1, OnlyObjects DEF CollectStatefulSet, env, work
<1>7. CASE DeliverResource(k)
  <2>1. cr' \in [Kinds -> Logs(ResourceVersion)]
    <3> HIDE DEF ResourceVersion
    <3> QED BY <1>0, <1>7, DeliverOne DEF DeliverResource
  <2> QED BY <1>0, <1>7, <2>1, OnlyObjects DEF DeliverResource, env, work
<1>8. CASE DeliverService(k)
  <2>1. svc' \in [Kinds -> Logs(ServiceVersion)]
    <3> HIDE DEF ServiceVersion
    <3> QED BY <1>0, <1>8, DeliverOne DEF DeliverService
  <2> QED BY <1>0, <1>8, <2>1, OnlyObjects DEF DeliverService, env, work
<1>9. CASE DeliverStatefulSet(k)
  <2>1. sts' \in [Kinds -> Logs(StatefulSetVersion)]
    <3> HIDE DEF StatefulSetVersion
    <3> QED BY <1>0, <1>9, DeliverOne DEF DeliverStatefulSet
  <2> QED BY <1>0, <1>9, <2>1, OnlyObjects DEF DeliverStatefulSet, env, work
<1> QED BY <1>1, <1>2, <1>3, <1>4, <1>5, <1>6, <1>7, <1>8, <1>9

\* A Secret that goes.
LEMMA SecretRemoved ==
  ASSUME TypeOK, NEW p \in Pairs, Cur(secrets[p]) # None, RemoveSecret(p)
  PROVE  secrets' \in [Pairs -> Logs(SecretVersion)] /\ removed' \in KeySets
<1> DEFINE T == LoadedIn(<<Cur(sts["store"])>>)
           n == Cur(secrets[p]).key
<1>1. secrets' \in [Pairs -> Logs(SecretVersion)]
  <2>1. None \in SecretVersion
    BY DEF SecretVersion
  <2> HIDE DEF SecretVersion
  <2> QED BY <2>1, SecretWritten DEF RemoveSecret
<1>2. removed \in KeySets /\ n \in Nat
  BY Typed, VersionsTyped DEF SecretVersion, SecretObject
<1>3. removed' = IF p = "ssh" THEN removed ELSE (removed \cup {n}) \cap T
  BY DEF RemoveSecret
<1> HIDE DEF T, n
<1>4. removed \cup {n} \in KeySets
  BY <1>2, KeySetsClosed
<1>5. (removed \cup {n}) \cap T \in KeySets
  BY <1>4, KeySetsClosed
<1> QED BY <1>1, <1>2, <1>3, <1>5

\* Secrets are lost, collected and announced.
LEMMA SecretsTyped ==
  ASSUME TypeOK, Secrets
  PROVE  TypeOK'
<1>0. /\ cr \in [Kinds -> Logs(ResourceVersion)] /\ secrets \in [Pairs -> Logs(SecretVersion)]
      /\ svc \in [Kinds -> Logs(ServiceVersion)] /\ sts \in [Kinds -> Logs(StatefulSetVersion)]
      /\ upsets \in Nat /\ uids \in [Kinds -> Nat] /\ removed \in KeySets /\ ctl \in [Kinds -> Pass]
      /\ None \in SecretVersion
  BY Typed DEF SecretVersion
<1>1. PICK p \in Pairs : SecretLost(p) \/ CollectSecret(p) \/ DeliverSecret(p)
  BY DEF Secrets
<1>2. CASE SecretLost(p)
  <2>1. secrets' \in [Pairs -> Logs(SecretVersion)] /\ removed' \in KeySets
    BY <1>2, SecretRemoved DEF SecretLost
  <2>2. upsets' \in Nat
    BY <1>0, <1>2 DEF SecretLost, Disturb
  <2> QED BY <1>0, <1>2, <2>1, <2>2, OnlyObjects DEF SecretLost, work
<1>3. CASE CollectSecret(p)
  <2>1. secrets' \in [Pairs -> Logs(SecretVersion)] /\ removed' \in KeySets
    BY <1>3, SecretRemoved DEF CollectSecret, Orphan
  <2> QED BY <1>0, <1>3, <2>1, OnlyObjects DEF CollectSecret, work
<1>4. CASE DeliverSecret(p)
  <2>1. secrets' \in [Pairs -> Logs(SecretVersion)]
    <3> HIDE DEF SecretVersion
    <3> QED BY <1>0, <1>4, DeliverOne DEF DeliverSecret
  <2> QED BY <1>0, <1>4, <2>1, OnlyObjects DEF DeliverSecret, env, work
<1> QED BY <1>1, <1>2, <1>3, <1>4

-----------------------------------------------------------------------------
(* Theorems. *)

\* Every step keeps the types.
LEMMA TypesKept ==
  ASSUME TypeOK, [Next]_vars
  PROVE  TypeOK'
<1>1. CASE UNCHANGED vars
  BY <1>1 DEF vars, TypeOK
<1>2. CASE Next
  BY <1>2, KeyStepTyped, StepTyped, FaultTyped, WorkloadTyped, UserTyped,
     ClusterTyped, SecretsTyped, Zenon DEF Next
<1> QED BY <1>1, <1>2

\* Stores, builders and their Secrets, Services and StatefulSets always have their
\* types, and a pass has a resource in hand unless it is idle: so every object that a
\* pass writes is well-formed, and Seen(s).key is read of a Secret that is there.
THEOREM InfraTypeCorrect == Spec => []TypeOK
<1>1. Init => TypeOK
  <2> SUFFICES ASSUME Init PROVE TypeOK
    OBVIOUS
  <2>1. /\ <<None>> \in Logs(ResourceVersion) /\ <<None>> \in Logs(SecretVersion)
        /\ <<None>> \in Logs(ServiceVersion) /\ <<None>> \in Logs(StatefulSetVersion)
        /\ <<None>> \in Logs(FileVersion)
    <3>1. /\ None \in ResourceVersion /\ None \in SecretVersion /\ None \in ServiceVersion
          /\ None \in StatefulSetVersion /\ None \in FileVersion
      BY DEF ResourceVersion, SecretVersion, ServiceVersion, StatefulSetVersion, FileVersion
    <3> HIDE DEF ResourceVersion, SecretVersion, ServiceVersion, StatefulSetVersion, FileVersion
    <3> QED BY <3>1, LogOfOne
  <2>2. files \in Nat \cup {None}
    BY SettingsAreSettings DEF Init
  <2>4. {} \in KeySets
    BY KeySetsClosed
  <2>3. Idle \in Pass
    BY DEF Pass
  <2> HIDE DEF ResourceVersion, SecretVersion, ServiceVersion, StatefulSetVersion, FileVersion,
               Pass, Idle, KeySets
  <2> QED BY <2>1, <2>2, <2>3, <2>4, Typed DEF Init
<1> QED BY <1>1, TypesKept, PTL DEF Spec

\* A Secret that is there is written by nobody: ensureSigningKey and
\* ensureSSHKeySecret create only, and AlreadyExists makes them read again.
LEMMA SecretsKept ==
  ASSUME TypeOK, [Next]_vars, NEW p \in Pairs
  PROVE  Cur(secrets[p]) = None \/ Cur(secrets'[p]) \in {None, Cur(secrets[p])}
<1>0. secrets \in [Pairs -> Logs(SecretVersion)] /\ None \in SecretVersion
  BY Typed DEF SecretVersion
<1>1. CASE secrets' = secrets
  BY <1>1
<1> DEFINE OnlyMissing(q) ==
             \/ secrets' = secrets
             \/ Cur(secrets[q]) = None /\ \A r \in Pairs \ {q} : secrets'[r] = secrets[r]
<1>2. ASSUME NEW q \in Pairs, EnsureKey(q) PROVE OnlyMissing(q)
  <2>1. secrets' = secrets \/ Cur(secrets[q]) = None
    BY <1>2, Zenon DEF EnsureKey
  <2>2. CASE secrets' # secrets
    <3>1. \E v : WriteSecret(q, v)
      BY <1>2, <2>2, Zenon DEF EnsureKey
    <3> QED BY <1>0, <2>1, <2>2, <3>1 DEF WriteSecret
  <2> QED BY <2>2
<1>3. CASE KeyStep
  <2>1. CASE UseGivenKey
    BY <1>1, <2>1 DEF UseGivenKey, objects
  <2>2. ASSUME NEW q \in Pairs, EnsureKey(q) \/ RereadKey(q) PROVE OnlyMissing(q)
    BY <1>2, <2>2 DEF RereadKey, objects
  <2> QED BY <1>1, <1>3, <2>1, <2>2 DEF KeyStep
<1>4. CASE Crash
  <2>1. secrets' = [q \in Pairs |-> Relisted(secrets[q])]
    BY <1>4 DEF Crash
  <2> HIDE DEF SecretVersion
  <2> QED BY <1>0, <2>1, RelistAll
<1>5. CASE Secrets
  <2>1. PICK q \in Pairs : SecretLost(q) \/ CollectSecret(q) \/ DeliverSecret(q)
    BY <1>5 DEF Secrets
  <2>2. CASE SecretLost(q) \/ CollectSecret(q)
    <3>1. WriteSecret(q, None)
      BY <2>2 DEF SecretLost, CollectSecret, RemoveSecret
    <3>2. Cur(secrets'[q]) = None /\ \A r \in Pairs \ {q} : secrets'[r] = secrets[r]
      BY <1>0, <3>1, SecretWritten
    <3> QED BY <3>2
  <2>3. CASE DeliverSecret(q)
    <3> HIDE DEF SecretVersion
    <3> QED BY <1>0, <2>3, DeliverOne DEF DeliverSecret
  <2> QED BY <2>1, <2>2, <2>3
<1>6. CASE UNCHANGED vars
  BY <1>1, <1>6 DEF vars
<1>7. ASSUME NEW k \in Kinds, Reconcile(k) \/ Step(k) \/ ApiError(k) PROVE secrets' = secrets
  BY <1>7, Zenon DEF Reconcile, Step, ApiError, EnsureService, EnsureStatefulSet, Observe,
                     StatusUpdate, objects
<1>8. ASSUME Cluster PROVE secrets' = secrets
  BY <1>8, Zenon DEF Cluster, DeleteResource, ReplicasStart, ReplicaFails, CollectService,
                     CollectStatefulSet, DeliverResource, DeliverService, DeliverStatefulSet
<1>9. ASSUME \/ EnsureAdditionalFiles \/ EnsureOwnedBuilder \/ ResolveInfra
             \/ CreateStore \/ EditStore \/ EditFiles \/ GivenChanges \/ DeliverFiles
      PROVE  secrets' = secrets
  BY <1>9, Zenon DEF EnsureAdditionalFiles, EnsureOwnedBuilder, ResolveInfra, CreateStore,
                     EditStore, EditFiles, GivenChanges, DeliverFiles, objects
<1> QED BY <1>1, <1>3, <1>4, <1>5, <1>6, <1>7, <1>8, <1>9 DEF Next

\* A generated pair is not replaced while its Secret exists, however far the informer
\* of Secrets is behind, and whatever stores come after: two passes that both miss the
\* Secret in their cache do not give the store two keys.
THEOREM InfraKeyIsStable == Spec => KeyIsStable
<1>1. ASSUME TypeOK, [Next]_vars
      PROVE  [\A p \in Pairs :
                (Cur(secrets[p]) # None /\ Cur(secrets[p])' # None)
                  => Cur(secrets[p])'.key = Cur(secrets[p]).key]_vars
  <2> SUFFICES ASSUME NEW p \in Pairs, Cur(secrets[p]) # None, Cur(secrets[p])' # None
               PROVE  Cur(secrets[p])'.key = Cur(secrets[p]).key
    OBVIOUS
  <2>1. Cur(secrets'[p]) \in {None, Cur(secrets[p])}
    BY <1>1, SecretsKept
  <2>2. Cur(secrets[p])' = Cur(secrets'[p])
    BY DEF Cur
  <2> QED BY <2>1, <2>2
<1> QED BY <1>1, InfraTypeCorrect, PTL DEF Spec, KeyIsStable
=============================================================================
