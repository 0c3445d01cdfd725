------------------------ MODULE ReadinessProjection ------------------------
(***************************************************************************)
(* How one snapshot of the registered clients becomes an opskit status,    *)
(* readiness and named checks (readiness.go, opskit.go).  A snapshot is a  *)
(* function from client names to [policy, state].  Health states are the   *)
(* four of health.go and "other", which a disabled or a custom sanitizer   *)
(* may let through.  Labels, messages and timestamps are left out.         *)
(***************************************************************************)

States == {"unknown", "healthy", "degraded", "unhealthy", "other"}
Policies == {"required", "optional", "degraded_allowed", "informational"}
ClientView == [policy : Policies, state : States]

\* normalizeReadinessPolicy: "" is the zero value.
NotNormalized(policy) == policy
Normalized(policy) == IF policy = "" THEN "optional" ELSE policy

BlocksReadiness(policy) == policy \in {"required", "degraded_allowed"}
ParticipatesInReadiness(policy) == policy # "informational"

ReadinessSatisfied(policy, state) ==
    \/ ~BlocksReadiness(policy)
    \/ state = "healthy"
    \/ policy = "degraded_allowed" /\ state = "degraded"

-----------------------------------------------------------------------------
\* Registry.Status
Unsatisfied(view) ==
    {n \in DOMAIN view : ~ReadinessSatisfied(view[n].policy, view[n].state)}

StatusOf(view) ==
    IF DOMAIN view = {} THEN "unknown"
    ELSE IF \E n \in Unsatisfied(view) : view[n].state # "unknown" THEN "not_ready"
    ELSE IF Unsatisfied(view) # {} THEN "unknown"
    ELSE IF \E n \in DOMAIN view : view[n].state # "healthy" THEN "degraded"
    ELSE "ready"

\* Registry.Readiness: the items are the participating clients.
Items(view) == {n \in DOMAIN view : ParticipatesInReadiness(view[n].policy)}

ItemReady(client) ==
    IF BlocksReadiness(client.policy) THEN ReadinessSatisfied(client.policy, client.state)
                                      ELSE client.state = "healthy"

ReadinessOf(view) ==
    /\ DOMAIN view # {}
    /\ \A n \in Items(view) : BlocksReadiness(view[n].policy) => ItemReady(view[n])

\* opskitNamedClientCheck: what CheckAll reports of one client.
CheckReadyIgnoringPolicy(client) == client.state \in {"healthy", "degraded"}
CheckReady(client) ==
    \/ client.state = "healthy"
    \/ client.state = "degraded" /\ ReadinessSatisfied(client.policy, "degraded")
    \/ client.state \notin {"healthy", "degraded"} /\ ~BlocksReadiness(client.policy)

CheckState(client) ==
    CASE client.state = "healthy" -> "ready"
      [] client.state = "degraded" -> "degraded"
      [] client.state \notin {"healthy", "degraded"} /\ ~BlocksReadiness(client.policy) -> "degraded"
      [] client.state = "unhealthy" /\ BlocksReadiness(client.policy) -> "not_ready"
      [] OTHER -> "unknown"

-----------------------------------------------------------------------------
\* Over one snapshot the operator is told one story: the status is ready or degraded
\* exactly when readiness is granted, exactly when every client's check counts as ready;
\* and it is plainly ready exactly when every client's check is in state ready.
Agreement(view) ==
    /\ StatusOf(view) \in {"ready", "degraded"} <=> ReadinessOf(view)
    /\ ReadinessOf(view) <=> DOMAIN view # {} /\ \A n \in DOMAIN view : CheckReady(view[n])
    /\ StatusOf(view) = "ready" <=>
          DOMAIN view # {} /\ \A n \in DOMAIN view : CheckState(view[n]) = "ready"
=============================================================================
