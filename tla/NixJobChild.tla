---------------------------- MODULE NixJobChild ----------------------------
(***************************************************************************)
(* What a NixJob promises to the orchestrator that created it.             *)
(*                                                                         *)
(* NixosConfiguration reads two things of a child NixJob: whether          *)
(* status.succeeded or status.failed is positive, and whether it is being  *)
(* deleted.  This is the abstract machine behind its actions InstallEnds,  *)
(* InstallSucceedsLate, InstallReruns, DecommissionEnds,                   *)
(* DecommissionSucceedsLate and ReleaseChild: a run ends once, a pod that  *)
(* failed may still be followed by one that succeeds, a new run replaces   *)
(* the old report only where something made it start (`moved'), and a      *)
(* child that is being deleted reports nothing new.  Module NixJob         *)
(* implements it.                                                          *)
(***************************************************************************)
CONSTANT None

VARIABLES child,   \* None, or the report [st, del]
          moved    \* a new run is justified

Report == {"active", "failed", "succeeded"}

Init == child = None /\ moved = FALSE

Create ==
  /\ child = None
  /\ child' = [st |-> "active", del |-> FALSE]
  /\ UNCHANGED moved

Outcome ==
  /\ child # None /\ ~child.del
  /\ \E s \in {"failed", "succeeded"} :
       /\ child.st = "active" \/ (child.st = "failed" /\ s = "succeeded")
       /\ child' = [st |-> s, del |-> FALSE]
  /\ UNCHANGED moved

Rerun ==
  /\ moved
  /\ child # None /\ ~child.del
  /\ \E s \in Report : child' = [st |-> s, del |-> FALSE]
  /\ UNCHANGED moved

Delete ==
  /\ child # None /\ ~child.del
  /\ child' \in {[child EXCEPT !.del = TRUE], None}
  /\ UNCHANGED moved

Release ==
  /\ child # None /\ child.del
  /\ child' = None
  /\ UNCHANGED moved

Move == moved' = TRUE /\ UNCHANGED child

Next == Create \/ Outcome \/ Rerun \/ Delete \/ Release \/ Move

Spec == Init /\ [][Next]_<<child, moved>>
=============================================================================
