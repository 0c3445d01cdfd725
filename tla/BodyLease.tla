----------------------------- MODULE BodyLease -----------------------------
(***************************************************************************)
(* What the wrapper of a final response body promises, and what            *)
(* HttpExecution takes for granted as one step (FinishBody): the           *)
(* execution's contexts are released once, by then no callback is left     *)
(* registered on them, and a Close, or a Read or Write that failed, does   *)
(* not return before.                                                      *)
(***************************************************************************)
EXTENDS Naturals

CONSTANT Users

VARIABLES
    releases,   \* how often the contexts were released
    armed,      \* a callback is registered with the context
    answered    \* the users whose finishing call has returned

vars == <<releases, armed, answered>>

Init == releases = 0 /\ armed = FALSE /\ answered = {}

Arm == releases = 0 /\ ~armed /\ armed' = TRUE /\ UNCHANGED <<releases, answered>>
Disarm == armed /\ armed' = FALSE /\ UNCHANGED <<releases, answered>>
Finish == releases = 0 /\ ~armed /\ releases' = 1 /\ UNCHANGED <<armed, answered>>
Answer(u) == releases = 1 /\ answered' = answered \union {u} /\ UNCHANGED <<releases, armed>>

Next == Arm \/ Disarm \/ Finish \/ \E u \in Users : Answer(u)

Spec == Init /\ [][Next]_vars
=============================================================================
