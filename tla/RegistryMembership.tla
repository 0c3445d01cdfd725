------------------------ MODULE RegistryMembership -------------------------
(***************************************************************************)
(* What Registry promises of its membership (the comments of RegisterAll   *)
(* and CloseIdleConnections): batches are registered whole or not at all,  *)
(* members are never replaced or removed, and whoever lists the members    *)
(* sees them as they are at one instant.                                   *)
(***************************************************************************)
CONSTANTS Names, Callers, Readers, NoEntry

VARIABLES
    offered,    \* per caller: the validated batch, name by name
    members,    \* the registered entries
    seen        \* per reader: the members it works from, or none of them

Nothing == [n \in Names |-> NoEntry]

Init ==
    /\ offered = [c \in Callers |-> Nothing]
    /\ members = Nothing
    /\ seen = [r \in Readers |-> Nothing]

Offer(c) ==
    /\ offered' = [offered EXCEPT ![c] = offered'[c]]
    /\ UNCHANGED <<members, seen>>

Register(c) ==
    /\ offered[c] # Nothing
    /\ \A n \in Names : offered[c][n] # NoEntry => members[n] = NoEntry
    /\ members' = [n \in Names |-> IF offered[c][n] # NoEntry THEN offered[c][n] ELSE members[n]]
    /\ UNCHANGED <<offered, seen>>

List(r) ==
    /\ \/ seen' = [seen EXCEPT ![r] = members]
       \/ \E n \in Names : seen' = [seen EXCEPT ![r] = [Nothing EXCEPT ![n] = members[n]]]
       \/ seen' = [seen EXCEPT ![r] = Nothing]
    /\ UNCHANGED <<offered, members>>

Next == \/ \E c \in Callers : Offer(c) \/ Register(c)
        \/ \E r \in Readers : List(r)

Spec == Init /\ [][Next]_<<offered, members, seen>>
=============================================================================
