------------------------------ MODULE SignalDesk ------------------------------
(***************************************************************************)
(* What the alerts of one source, symbol and mode promise about its        *)
(* signals: one at a time is watched, a better one takes its place, and    *)
(* only the one that is watched is ever acted upon, once.                  *)
(***************************************************************************)
CONSTANT Signal

VARIABLE fate

Fate == {"new", "watched", "acted", "replaced", "dropped"}

DeskTypeOK == fate \in [Signal -> Fate]

Init == fate = [s \in Signal |-> "new"]

\* s takes the place of the signal that is watched, if there is one.
Watch(s) ==
  /\ fate[s] = "new"
  /\ fate' = [t \in Signal |-> IF t = s THEN "watched"
                               ELSE IF fate[t] = "watched" THEN "replaced" ELSE fate[t]]

Act(s) ==
  /\ fate[s] = "watched"
  /\ fate' = [fate EXCEPT ![s] = "acted"]

Drop(s) ==
  /\ fate[s] \in {"new", "watched"}
  /\ fate' = [fate EXCEPT ![s] = "dropped"]

Next == \E s \in Signal : Watch(s) \/ Act(s) \/ Drop(s)

Spec == Init /\ [][Next]_fate
=============================================================================
