------------------------------ MODULE MCNixJob ------------------------------
(* Values of the constants of NixJob for TLC. *)
EXTENDS NixJob

Setting(n, j, i, o, m, u) ==
  [nixjob |-> n, job |-> j, uids |-> i, onces |-> o, moves |-> m, upsets |-> u]

\* Two moves and a disturbance; or an informer an event behind with one or the other, the
\* NixJob being created once or twice; or two moves with the informer of Jobs so far
\* behind that a name which it shows finished is a new run by then.
DisturbedOrBehind ==
  {Setting(0, 0, 1, BOOLEAN, 2, 1)}
    \cup {Setting(1, 0, 1, BOOLEAN, m, 1 - m) : m \in 0 .. 1}
    \cup {Setting(0, 1, 2, BOOLEAN, m, 1 - m) : m \in 0 .. 1}
    \cup {Setting(0, 3, 1, {FALSE}, 2, 0)}
=============================================================================
