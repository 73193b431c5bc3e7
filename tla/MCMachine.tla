------------------------------ MODULE MCMachine ------------------------------
(* Values of the constants of Machine for TLC. *)
EXTENDS Machine

Setting(m, s, u, refs) == [machine |-> m, secret |-> s, upsets |-> u, refs |-> refs]

Key == {"key"}
Both == {"key", "password"}

\* Two disturbances with current caches; one with an informer an event behind.
DisturbedOrBehind ==
  {Setting(0, 0, 2, {Key}), Setting(1, 0, 1, {Key}), Setting(0, 1, 1, {Both, {}})}

Undisturbed == {Setting(0, 0, 0, {Key})}
=============================================================================
