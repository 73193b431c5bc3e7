----------------------------- MODULE MCRollout -----------------------------
(* Values of the constants of Rollout for TLC. *)
EXTENDS Rollout

S(susp, reps) == [susp |-> susp, reps |-> reps]

Setting(kind, w, n, p, specs, births, u) ==
  [kind |-> kind, wl |-> w, native |-> n, pods |-> p, specs |-> specs, lives |-> births,
   upsets |-> u]

\* A Deployment that is scaled to zero, suspended and pushed to in the middle of a
\* rollout; a StatefulSet of two; one that is deleted and created anew; one with each
\* informer one event behind.
Rollouts ==
  {Setting("Deployment", 0, 0, 0, {S(FALSE, 1), S(FALSE, 0)}, 1, 1),
   Setting("Deployment", 0, 0, 0, {S(FALSE, 1), S(TRUE, 1)}, 1, 2),
   Setting("StatefulSet", 0, 0, 0, {S(FALSE, 2)}, 1, 1),
   Setting("StatefulSet", 0, 0, 0, {S(FALSE, 1)}, 2, 1),
   Setting("StatefulSet", 1, 0, 1, {S(FALSE, 1)}, 1, 1),
   Setting("StatefulSet", 0, 1, 0, {S(FALSE, 1), S(FALSE, 0)}, 1, 1)}
=============================================================================
