---------------------------- MODULE MCNixCronJob ----------------------------
(* Values of the constants of NixCronJob for TLC. *)
EXTENDS NixCronJob

\* Forbidding is the day-two and the converge cron.
Forbidding == [trig |-> TRUE, forbid |-> TRUE]
Triggering == [trig |-> TRUE, forbid |-> FALSE]
OnSchedule == [trig |-> FALSE, forbid |-> TRUE]

Setting(n, c, j, u, specs) ==
  [ncj |-> n, cj |-> c, job |-> j, upsets |-> u, specs |-> specs]

Disturbed == {Setting(0, 0, 0, 1, {Forbidding})}

\* A disturbance, or the controller's own informer or those of its children an
\* event behind.
DisturbedOrBehind ==
  {Setting(0, 0, 0, 1, {Triggering}), Setting(1, 0, 0, 0, {Forbidding, OnSchedule}),
   Setting(0, 1, 1, 0, {Triggering})}
=============================================================================
