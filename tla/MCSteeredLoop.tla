--------------------------- MODULE MCSteeredLoop ---------------------------
(***************************************************************************)
(* SteeredLoop in the ways hosts wire it.                                  *)
(***************************************************************************)
EXTENDS SteeredLoop

Wired(preempts, closes, reporting) ==
    [preempts |-> preempts, closes |-> closes, reports |-> reporting]

\* The terminal, a native host, and a host with reporting subagents that does
\* not preempt requests.
SeparateHosts ==
    {Wired(TRUE, FALSE, FALSE), Wired(TRUE, TRUE, FALSE), Wired(FALSE, FALSE, TRUE)}

\* A host that preempts requests while subagents report to its loop.
PreemptingParent == {Wired(TRUE, FALSE, TRUE)}

\* The worker is killed anywhere but between the acknowledgement of a response's
\* inputs and the assignment that records it.
SafePoints ==
    {"ready", "submit", "steered", "returned", "complete", "tools", "closing"}

=============================================================================
