---------------------------- MODULE MediaService ----------------------------
(***************************************************************************)
(* What a media resource promises the thread that calls it: calls are      *)
(* performed in the order they were made, each at most once, an answer is  *)
(* the answer to the call in progress, and a call that fails ends the      *)
(* service: nothing is asked of the resource after it.                     *)
(***************************************************************************)
EXTENDS Naturals

VARIABLES
    usable,    \* calls reach the resource
    busy,      \* a call is in progress
    calls,     \* how many calls were sent to the resource
    ran,       \* how many of them the resource has performed
    answered   \* the number of the call whose answer was taken last

vars == <<usable, busy, calls, ran, answered>>

Init == ~usable /\ ~busy /\ calls = 0 /\ ran = 0 /\ answered = 0

\* Opening is the first call: it is what makes the service usable.
Open ==
    /\ calls = 0 /\ calls' = 1 /\ usable' = TRUE /\ busy' = TRUE
    /\ UNCHANGED <<ran, answered>>

Invoke ==
    /\ usable /\ ~busy /\ busy' = TRUE /\ calls' = calls + 1
    /\ UNCHANGED <<usable, ran, answered>>

\* Also after the service has ended: what was sent may still be performed.
Run ==
    /\ ran < calls /\ ran' = ran + 1
    /\ UNCHANGED <<usable, busy, calls, answered>>

\* A resource that could not be opened answers, too, and is then unusable.
Answer ==
    /\ busy /\ ran = calls /\ answered' = calls /\ busy' = FALSE
    /\ usable' \in IF calls = 1 THEN BOOLEAN ELSE {usable}
    /\ UNCHANGED <<calls, ran>>

End ==
    /\ usable /\ usable' = FALSE /\ busy' = FALSE
    /\ UNCHANGED <<calls, ran, answered>>

Next == Open \/ Invoke \/ Run \/ Answer \/ End

Spec == Init /\ [][Next]_vars

=============================================================================
