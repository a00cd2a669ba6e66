------------------------------ MODULE SlotPool ------------------------------
(***************************************************************************)
(* What the subagent registry promises about active turns: a pool of slots *)
(* with a limit that may be changed at run time. A child takes a slot only *)
(* while fewer than limit slots are taken, keeps it until it gives it up,  *)
(* and lowering the limit takes no slot away.                              *)
(***************************************************************************)
EXTENDS Naturals, FiniteSets

CONSTANTS Agents, InitialLimit, Limits

VARIABLES active, limit

Init == active = {} /\ limit = InitialLimit

Acquire(a) ==
    /\ a \notin active /\ Cardinality(active) < limit
    /\ active' = active \cup {a}
    /\ UNCHANGED limit

Release(a) ==
    /\ a \in active
    /\ active' = active \ {a}
    /\ UNCHANGED limit

SetLimit(n) ==
    /\ limit' = IF n > 1 THEN n ELSE 1
    /\ UNCHANGED active

Next ==
    \/ \E a \in Agents : Acquire(a) \/ Release(a)
    \/ \E n \in Limits : SetLimit(n)

Spec == Init /\ [][Next]_<<active, limit>>

=============================================================================
