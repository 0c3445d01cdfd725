--------------------------- MODULE CheckAdmission ---------------------------
(***************************************************************************)
(* What Registry.CheckAll promises about the user code it runs             *)
(* (docs/health-readiness.md, "The Registry"): whatever calls overlap, at  *)
(* most MaxConcurrent checkers execute at one moment, and never two for    *)
(* the same registered client.  A checker in progress is a pair of the     *)
(* CheckAll call and the client.  How calls, workers, slots and permits    *)
(* achieve it is the business of RegistryChecks, which implements this.    *)
(***************************************************************************)
EXTENDS Naturals, FiniteSets

CONSTANTS Calls, Clients, MaxConcurrent

VARIABLE running

Init == running = {}

Begin(k, c) ==
    /\ Cardinality(running) < MaxConcurrent
    /\ \A t \in running : t[2] # c
    /\ running' = running \union {<<k, c>>}

End(k, c) ==
    /\ <<k, c>> \in running
    /\ running' = running \ {<<k, c>>}

Next == \E k \in Calls, c \in Clients : Begin(k, c) \/ End(k, c)

Spec == Init /\ [][Next]_running
=============================================================================
