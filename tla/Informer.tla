------------------------------ MODULE Informer ------------------------------
(***************************************************************************)
(* What a controller sees of one Kubernetes object.                        *)
(*                                                                         *)
(* Every controller of NIO writes through the API server and reads through *)
(* the manager's informer cache, which follows the server with a delay.    *)
(* An object is a LOG: the sequence of its versions from the one the cache *)
(* holds (the first) to the one the server holds (the last).  A write      *)
(* appends a version, a watch event drops the first one.  An object that   *)
(* does not exist has the version None (a model value of the modules that  *)
(* use this one), so creation and removal are writes like any other.       *)
(*                                                                         *)
(* The parameter `lag' bounds how many versions the cache may be behind;   *)
(* with lag = 0 every read sees the server's state.                        *)
(***************************************************************************)
EXTENDS Naturals, Sequences

Logs(S) == {l \in Seq(S) : l # <<>>}

\* The version the API server holds.
Cur(l) == l[Len(l)]

\* The version the informer cache returns to Get and List.
Seen(l) == l[1]

\* The cached version carries the current resourceVersion: an Update that
\* sends it back is accepted.  Otherwise the server answers Conflict.
InSync(l) == Len(l) = 1

\* A write.  One that changes nothing makes no new version and no event.
Put(lag, l, v) ==
  IF v = Cur(l) THEN l
  ELSE Append(IF Len(l) > lag THEN Tail(l) ELSE l, v)

\* The next watch event reaches the cache.
Delivered(l) == Tail(l)

\* A restarted manager lists everything anew before its controllers start.
Relisted(l) == <<Cur(l)>>
=============================================================================
