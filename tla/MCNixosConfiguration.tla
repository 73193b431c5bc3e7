----------------------- MODULE MCNixosConfiguration -----------------------
(* Instances of NixosConfiguration for TLC. *)
EXTENDS NixosConfiguration

AllSpecs == [full : BOOLEAN, onrm : BOOLEAN]
InstallAndRemove == {[full |-> TRUE, onrm |-> TRUE]}
InstallOnly == {[full |-> TRUE, onrm |-> FALSE]}
DayTwoOnly == {[full |-> FALSE, onrm |-> FALSE]}
InstallOrNot == InstallAndRemove \cup DayTwoOnly

\* The informer of kind `behind' lags by up to n versions, the others not at all.
Cluster(behind, n, moving, names, specs) ==
  [lag |-> [i \in {"config", "job", "cron", "machine"} |-> IF i = behind THEN n ELSE 0],
   moving |-> moving, names |-> names, specs |-> specs]

Fresh == {Cluster("", 0, FALSE, Configs, Specs)}
FreshMoving == {Cluster("", 0, TRUE, Configs, Specs)}

\* One configuration through its whole life with one informer behind, and two
\* that claim the same machine.
OneOrTwo ==
  {Cluster("config", 2, FALSE, {1}, InstallOnly),
   Cluster("job", 1, TRUE, {1}, InstallAndRemove),
   Cluster("cron", 1, FALSE, {1}, DayTwoOnly),
   Cluster("machine", 1, FALSE, {1, 2}, DayTwoOnly)}
=============================================================================
