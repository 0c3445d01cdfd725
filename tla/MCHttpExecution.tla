-------------------------- MODULE MCHttpExecution --------------------------
(***************************************************************************)
(* The TLC instance of HttpExecution: the execution policies considered.   *)
(***************************************************************************)
EXTENDS HttpExecution

\* Every way to authorize, or not, the repetition of a request with a body.
RepetitionPolicies ==
    {p \in Policy : /\ p.total /\ p.attempt /\ ~p.crossOrigin /\ p.body # "none"
                    /\ p.listed /\ p.timeouts /\ p.transport = "all"}

\* Requests that may leave their origin.
CrossOriginPolicies ==
    {p \in Policy : /\ p.total /\ ~p.attempt /\ p.crossOrigin /\ p.body # "once"
                    /\ p.safety = "default" /\ ~p.idempotent
                    /\ p.listed /\ p.timeouts /\ p.transport = "all"}

\* Every combination of timeouts.
TimeoutPolicies ==
    {p \in Policy : /\ p.safety = "default" /\ p.idempotent /\ ~p.crossOrigin
                    /\ p.listed /\ p.timeouts /\ p.transport = "default"
                    /\ p.body = "replayable"}

\* Every retry policy.
GatePolicies ==
    {p \in Policy : /\ p.safety = "default" /\ p.idempotent /\ ~p.crossOrigin /\ ~p.callback
                    /\ p.body = "replayable" /\ ~p.total}

MCPolicies ==
    RepetitionPolicies \union CrossOriginPolicies \union TimeoutPolicies \union GatePolicies
=============================================================================
