--------------------------- MODULE Informer_proofs ---------------------------
(***************************************************************************)
(* What every controller relies on of the log of an object: there is a     *)
(* cached and a stored version, a write makes its value the stored one,    *)
(* and neither a watch event nor a relist changes what is stored; and what *)
(* the other proofs need of induction over the natural numbers.            *)
(***************************************************************************)
EXTENDS Informer, SequenceTheorems, WellFoundedInduction, TLAPS

\* A log always has a cached and a stored version.
LEMMA LogVersions ==
  ASSUME NEW S, NEW l \in Logs(S)
  PROVE  /\ Cur(l) \in S
         /\ Seen(l) \in S
         /\ InSync(l) => Seen(l) = Cur(l)
BY DEF Logs, Cur, Seen, InSync

\* A write makes its value the stored version, whatever the lag.
LEMMA LogPut ==
  ASSUME NEW S, NEW l \in Logs(S), NEW v \in S, NEW lag \in Nat
  PROVE  /\ Put(lag, l, v) \in Logs(S)
         /\ Cur(Put(lag, l, v)) = v
BY DEF Logs, Cur, Put

\* With lag 0 the cache never falls behind.
LEMMA LogNoLag ==
  ASSUME NEW S, NEW l \in Logs(S), NEW v \in S, InSync(l)
  PROVE  InSync(Put(0, l, v))
BY DEF Logs, Cur, Put, InSync

\* A watch event and a restart change what the cache shows, not what is stored.
LEMMA LogDelivered ==
  ASSUME NEW S, NEW l \in Logs(S), ~InSync(l)
  PROVE  /\ Delivered(l) \in Logs(S)
         /\ Cur(Delivered(l)) = Cur(l)
<1>1. Len(l) \in Nat /\ Len(l) > 1
  BY EmptySeq DEF Logs, InSync
<1>2. Tail(l) \in Seq(S) /\ Len(Tail(l)) = Len(l) - 1
  BY <1>1 DEF Logs
<1>3. Tail(l) # <<>>
  BY <1>1, <1>2, EmptySeq
<1>4. Tail(l)[Len(l) - 1] = l[Len(l)]
  BY <1>1 DEF Logs
<1> QED BY <1>2, <1>3, <1>4 DEF Logs, Cur, Delivered

\* A relisted log is a log.
LEMMA LogRelisted ==
  ASSUME NEW S, NEW l \in Logs(S)
  PROVE  /\ Relisted(l) \in Logs(S)
         /\ Cur(Relisted(l)) = Cur(l)
         /\ InSync(Relisted(l))
BY DEF Logs, Cur, Relisted, InSync

\* Versions that all belong to a set belong to a larger one.
LEMMA LogWidened ==
  ASSUME NEW S, NEW T, S \subseteq T, NEW l \in Logs(S)
  PROVE  l \in Logs(T)
BY DEF Logs

\* A log of one version.
LEMMA LogOfOne ==
  ASSUME NEW S, NEW v \in S
  PROVE  /\ <<v>> \in Logs(S)
         /\ Cur(<<v>>) = v /\ Seen(<<v>>) = v /\ InSync(<<v>>)
BY DEF Logs, Cur, Seen, InSync

\* The versions of a log appear in the order R: none is followed by one that
\* R does not allow after it.
Ordered(l, R) == \A i, j \in 1..Len(l) : i <= j => <<l[i], l[j]>> \in R

\* A write that R allows after every version keeps the order, and the cache does
\* not go back.
LEMMA OrderedPut ==
  ASSUME NEW S, NEW l \in Logs(S), NEW v \in S, NEW lag \in Nat, NEW R, Ordered(l, R),
         \A i \in 1..Len(l) : <<l[i], v>> \in R, <<v, v>> \in R
  PROVE  Ordered(Put(lag, l, v), R) /\ <<Seen(l), Seen(Put(lag, l, v))>> \in R
<1> DEFINE m == Put(lag, l, v)
<1>1. l \in Seq(S) /\ Len(l) \in Nat /\ Len(l) >= 1 /\ 1 \in 1..Len(l)
  BY EmptySeq DEF Logs
<1>2. CASE v = Cur(l)
  BY <1>1, <1>2 DEF Put, Ordered, Seen
<1>3. CASE v # Cur(l) /\ ~(Len(l) > lag)
  <2>1. m = Append(l, v)
    BY <1>3 DEF Put
  <2>2. Len(m) = Len(l) + 1 /\ (\A i \in 1..Len(l) : m[i] = l[i]) /\ m[Len(l) + 1] = v
    BY <1>1, <2>1
  <2> HIDE DEF m
  <2>3. ASSUME NEW i \in 1..Len(m), NEW j \in 1..Len(m), i <= j PROVE <<m[i], m[j]>> \in R
    <3>1. CASE j \in 1..Len(l)
      BY <1>1, <2>2, <2>3, <3>1 DEF Ordered
    <3>2. CASE j = Len(l) + 1 /\ i \in 1..Len(l)
      BY <1>1, <2>2, <3>2
    <3>3. CASE j = Len(l) + 1 /\ i = Len(l) + 1
      BY <2>2, <3>3
    <3> QED BY <1>1, <2>2, <2>3, <3>1, <3>2, <3>3
  <2>4. <<l[1], m[1]>> \in R
    BY <1>1, <2>2 DEF Ordered
  <2> QED BY <2>3, <2>4 DEF Ordered, Seen, m
<1>4. CASE v # Cur(l) /\ Len(l) > lag
  <2>1. m = Append(Tail(l), v)
    BY <1>4 DEF Put
  <2>2. Tail(l) \in Seq(S) /\ Len(Tail(l)) = Len(l) - 1
        /\ \A i \in 1..(Len(l) - 1) : Tail(l)[i] = l[i + 1]
    BY <1>1
  <2>3. Len(m) = Len(l) /\ (\A i \in 1..(Len(l) - 1) : m[i] = l[i + 1]) /\ m[Len(l)] = v
    BY <1>1, <2>1, <2>2
  <2> HIDE DEF m
  <2>4. ASSUME NEW i \in 1..Len(m), NEW j \in 1..Len(m), i <= j PROVE <<m[i], m[j]>> \in R
    <3>1. CASE j \in 1..(Len(l) - 1)
      BY <1>1, <2>3, <2>4, <3>1 DEF Ordered
    <3>2. CASE j = Len(l) /\ i \in 1..(Len(l) - 1)
      BY <1>1, <2>3, <3>2
    <3>3. CASE j = Len(l) /\ i = Len(l)
      BY <2>3, <3>3
    <3> QED BY <1>1, <2>3, <2>4, <3>1, <3>2, <3>3
  <2>5. <<l[1], m[1]>> \in R
    BY <1>1, <2>3 DEF Ordered
  <2> QED BY <2>4, <2>5 DEF Ordered, Seen, m
<1> QED BY <1>2, <1>3, <1>4

\* Neither a watch event nor a relist breaks the order or turns the cache back.
LEMMA OrderedKept ==
  ASSUME NEW S, NEW l \in Logs(S), NEW R, Ordered(l, R)
  PROVE  /\ ~InSync(l) => Ordered(Delivered(l), R) /\ <<Seen(l), Seen(Delivered(l))>> \in R
         /\ Ordered(Relisted(l), R) /\ <<Seen(l), Seen(Relisted(l))>> \in R
         /\ <<Seen(l), Seen(l)>> \in R
         /\ \A i \in 1..Len(l) : l[i] \in S /\ <<l[i], Cur(l)>> \in R
<1>1. l \in Seq(S) /\ Len(l) \in Nat /\ Len(l) >= 1 /\ 1 \in 1..Len(l) /\ Len(l) \in 1..Len(l)
  BY EmptySeq DEF Logs
<1>2. ASSUME ~InSync(l)
      PROVE  Ordered(Delivered(l), R) /\ <<Seen(l), Seen(Delivered(l))>> \in R
  <2> DEFINE m == Tail(l)
  <2>1. Len(l) > 1 /\ Len(m) = Len(l) - 1 /\ \A i \in 1..(Len(l) - 1) : m[i] = l[i + 1]
    <3>0. Len(l) # 1
      BY <1>2 DEF InSync
    <3>1. Len(l) > 1
      <4>1. \A n \in Nat : n >= 1 /\ n # 1 => n > 1
        OBVIOUS
      <4>2. Len(l) \in Nat /\ Len(l) >= 1
        BY <1>1
      <4> QED BY <3>0, <4>1, <4>2
    <3>2. Tail(l) \in Seq(S) /\ Len(Tail(l)) = Len(l) - 1
          /\ \A i \in 1..(Len(l) - 1) : Tail(l)[i] = l[i + 1]
      BY <1>1
    <3> QED BY <3>1, <3>2
  <2> HIDE DEF m
  <2>2. <<l[1], m[1]>> \in R
    BY <1>1, <2>1 DEF Ordered
  <2>3. ASSUME NEW i \in 1..Len(m), NEW j \in 1..Len(m), i <= j PROVE <<m[i], m[j]>> \in R
    BY <1>1, <2>1, <2>3 DEF Ordered
  <2> QED BY <2>2, <2>3 DEF m, Delivered, Seen, Ordered
<1>3. Ordered(Relisted(l), R) /\ <<Seen(l), Seen(Relisted(l))>> \in R
  <2>1. <<l[1], l[Len(l)]>> \in R /\ <<l[Len(l)], l[Len(l)]>> \in R
    BY <1>1 DEF Ordered
  <2>2. Len(<<l[Len(l)]>>) = 1 /\ <<l[Len(l)]>>[1] = l[Len(l)]
    OBVIOUS
  <2> QED BY <2>1, <2>2 DEF Ordered, Relisted, Seen, Cur
<1>4. <<Seen(l), Seen(l)>> \in R /\ \A i \in 1..Len(l) : l[i] \in S /\ <<l[i], Cur(l)>> \in R
  BY <1>1 DEF Ordered, Seen, Cur
<1> QED BY <1>2, <1>3, <1>4

-----------------------------------------------------------------------------
(* Natural numbers: what the proofs need of induction, stated of sets. *)

\* A set of natural numbers has a least element.
LEMMA LeastNat ==
  ASSUME NEW T, T \subseteq Nat, T # {}
  PROVE  \E x \in T : \A y \in T : x <= y
<1>1. IsWellFoundedOn(OpToRel(<, Nat), Nat)
  BY NatLessThanWellFounded
<1>2. \E x \in T : \A y \in T : ~(<<y, x>> \in OpToRel(<, Nat))
  BY <1>1, WFMin
<1>3. PICK x \in T : \A y \in T : ~(<<y, x>> \in OpToRel(<, Nat))
  BY <1>2, Zenon
<1>4. ASSUME NEW y \in T PROVE ~(<<y, x>> \in {ss \in Nat \X Nat : ss[1] < ss[2]})
  BY <1>3, Zenon DEF OpToRel
<1>5. ASSUME NEW y \in T PROVE x <= y
  <2>1. x \in Nat /\ y \in Nat
    OBVIOUS
  <2>2. ~(y < x)
    BY <1>4, <2>1
  <2> QED BY <2>1, <2>2
<1> QED BY <1>5

\* A set of natural numbers that is bounded has a greatest element.
LEMMA GreatestNat ==
  ASSUME NEW T, T \subseteq Nat, T # {}, NEW b \in Nat, \A y \in T : y <= b
  PROVE  \E x \in T : \A y \in T : y <= x
<1> DEFINE U == {c \in Nat : \A y \in T : y <= c}
<1>1. PICK c \in U : \A d \in U : c <= d
  <2>1. U \subseteq Nat /\ U # {}
    OBVIOUS
  <2> HIDE DEF U
  <2> QED BY <2>1, LeastNat
<1>2. c \in T
  <2> SUFFICES ASSUME c \notin T PROVE FALSE
    OBVIOUS
  <2>1. \A y \in T : y \in Nat /\ y < c
    BY <1>1
  <2>2. PICK y \in T : y \in Nat /\ y < c
    BY <2>1
  <2>3. c \in Nat /\ c - 1 \in Nat
    BY <1>1, <2>2
  <2>4. c - 1 \in U
    BY <2>1, <2>3
  <2> QED BY <1>1, <2>3, <2>4
<1> QED BY <1>1, <1>2

\* Induction: a set with 0 and the successors of its members has every number.
LEMMA SetInduction ==
  ASSUME NEW T, 0 \in T, \A n \in Nat : n \in T => n + 1 \in T
  PROVE  \A n \in Nat : n \in T
<1> SUFFICES ASSUME \E n \in Nat : n \notin T PROVE FALSE
  OBVIOUS
<1>1. PICK x \in Nat \ T : \A y \in Nat \ T : x <= y
  <2>1. Nat \ T \subseteq Nat /\ Nat \ T # {}
    OBVIOUS
  <2> QED BY <2>1, LeastNat
<1>2. x > 0 /\ x - 1 \in Nat
  BY <1>1
<1>3. x - 1 \in T
  BY <1>1, <1>2
<1> QED BY <1>1, <1>2, <1>3
=============================================================================
