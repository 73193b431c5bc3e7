---------------------------- MODULE MCNixCluster ----------------------------
(* Values of the constants of NixCluster for TLC. *)
EXTENDS NixCluster

Report(p, s, f, o, a) == [phase |-> p, stalled |-> s, failed |-> f, ok |-> o, active |-> a]

\* Ready before a run, a stall, a run after a failure, a failure, a later success.
SomeReports ==
  {Report("Ready", FALSE, FALSE, FALSE, FALSE), Report("Progressing", TRUE, FALSE, TRUE, FALSE),
   Report("Progressing", FALSE, TRUE, TRUE, TRUE), Report("Degraded", FALSE, TRUE, FALSE, FALSE),
   Report("Progressing", FALSE, FALSE, FALSE, TRUE)}

M(labels, sys) == [labels |-> labels, sys |-> sys]
G(sel, count) == [sel |-> sel, count |-> count]
S(groups, valid, ref) == [groups |-> groups, valid |-> valid, ref |-> ref]

Setting(c, k, u, specs, fleets, builders) ==
  [cluster |-> c, cron |-> k, upsets |-> u, specs |-> specs, fleets |-> fleets,
   builders |-> builders]

\* One group of two out of three machines that come and go.
Two == S(<<G("a", 2)>>, TRUE, FALSE)
Homogeneous == {[n \in Names |-> IF n \in H THEN M({"a"}, None) ELSE None] : H \in SUBSET Names}

\* An ordered group before one that takes the rest; the count changes.
Mixed(n) == S(<<G("a", n), G("b", None)>>, TRUE, FALSE)
Overlapping ==
  {[n \in Names |-> M(IF n = 1 THEN L ELSE {"a", "b"}, None)] : L \in {{}, {"b"}, {"a", "b"}}}

\* A machine the builder cannot build for, once it is known.
Accelerated(v) == S(<<G("a", 1)>>, v, TRUE)
Foreign == {[n \in Names |-> IF n = 1 THEN M({"a"}, s) ELSE None] : s \in {None, "arm"}}

Fleets ==
  {Setting(0, 0, 2, {Two}, Homogeneous, {None}),
   Setting(0, 0, 2, {Mixed(1), Mixed(2)}, Overlapping, {None}),
   Setting(1, 0, 1, {Two}, Homogeneous, {None}),
   Setting(0, 1, 2, {Accelerated(TRUE), Accelerated(FALSE)}, Foreign, {None, {"x86"}})}
=============================================================================
