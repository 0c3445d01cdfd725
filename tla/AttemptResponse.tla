-------------------------- MODULE AttemptResponse --------------------------
(***************************************************************************)
(* What becomes of the response of an attempt, at the grain HttpExecution  *)
(* leaves out (do.go 363-433 and 607-683, response_cleanup.go).            *)
(*                                                                         *)
(* A response the execution returns gets its body wrapped: the wrapper is  *)
(* finished by the calls of its users and by a callback on the attempt's   *)
(* context, concurrently, and releases the contexts.  A response that will *)
(* be retried is drained, closed, and followed by a delay.                 *)
(*                                                                         *)
(* The contexts form a chain: the request's is derived from the attempt's, *)
(* and the attempt's from the total one.                                   *)
(***************************************************************************)
EXTENDS RetryDelay, FiniteSets

CONSTANTS
    Users,       \* goroutines that may use the returned body
    Callback,    \* the goroutine context.AfterFunc starts
    DrainLimit,  \* maxDiscardedResponseBodyBytes
    FinalPlans,  \* what is known of responses that are returned
    RetryPlans   \* what is known of responses that are retried

ASSUME AttemptResponseAssumption == Callback \notin Users /\ DrainLimit \in Nat

Contexts == {"total", "attempt", "request"}
Under(c) == CASE c = "total" -> Contexts [] c = "attempt" -> {"attempt", "request"} [] OTHER -> {c}

\* What is decided before: owned are the contexts that the execution derived
\* with a timeout, deadlines the ones that have a deadline of their own.
FinalPlan == [owned : SUBSET {"total", "attempt"}, deadlines : SUBSET Contexts, wrapped : BOOLEAN]
RetryPlan == [owned : SUBSET {"total", "attempt"}, deadlines : SUBSET Contexts,
              body : BOOLEAN, linked : BOOLEAN, drainable : BOOLEAN,
              rejected : BOOLEAN, retryNumber : Nat, cfg : RetryConfig, headers : Seq(HeaderValue)]
ASSUME PlansAssumption ==
    /\ \A plan \in FinalPlans : plan.owned \subseteq plan.deadlines
    /\ RetryPlans \subseteq RetryPlan
    /\ \A plan \in RetryPlans : plan.owned \subseteq plan.deadlines /\ ValidRetry(plan.cfg)

\* What is used of math.Pow: no power is negative, and those of a multiplier that is at
\* least one do not fall.
ASSUME PowersAssumption ==
    \A plan \in RetryPlans : \A n \in {plan.retryNumber, plan.retryNumber + 1} \ {0} :
        /\ Pow(plan.cfg.multiplier, n - 1) \in Nat
        /\ plan.cfg.multiplier >= 1 /\ n > 1 =>
              Pow(plan.cfg.multiplier, n - 2) <= Pow(plan.cfg.multiplier, n - 1)

Goroutines == Users \union {Callback}

VARIABLES
    plan,
    step,        \* where Client.do is
    over,        \* the contexts that have ended
    \* observedResponseBody and its callback
    callback,    \* "none", "armed" on the attempt's context, "fired" or "stopped"
    stop,        \* b.stop is set
    finished,    \* b.finished
    once,        \* b.once: "idle", "running" or "done"
    at,          \* where each goroutine is in finish
    releases,    \* how often complete ran
    \* the discarded response
    read,        \* bytes drained
    closed,      \* its body is closed
    delay        \* the selected delay

wrapper == <<callback, stop, finished, once, at, releases>>
discarded == <<read, closed, delay>>
vars == <<plan, step, over, wrapper, discarded>>

Init ==
    /\ \/ plan \in FinalPlans /\ step = "attach"
       \/ plan \in RetryPlans /\ step = "delay"
    /\ over = {}
    /\ callback = "none" /\ stop = FALSE /\ finished = FALSE /\ once = "idle"
    /\ at = [g \in Goroutines |-> "idle"] /\ releases = 0
    /\ read = 0 /\ closed = FALSE /\ delay = 0

Canceled(cs) == over' = over \union UNION {Under(c) : c \in cs}

\* The caller's context may be canceled; deadlines pass.
CallerCancels == "total" \notin over /\ Canceled({"total"}) /\ UNCHANGED <<plan, step, wrapper, discarded>>
DeadlinePasses(c) ==
    /\ c \in plan.deadlines \ over
    /\ Canceled({c})
    /\ UNCHANGED <<plan, step, wrapper, discarded>>

-----------------------------------------------------------------------------
(***************************************************************************)
(* A returned response.                                                    *)
(***************************************************************************)

\* Nothing to wrap: the attempt is canceled here, the total context by the
\* deferred call.
ReturnUnwrapped ==
    /\ step = "attach" /\ ~plan.wrapped
    /\ Canceled(plan.owned)
    /\ step' = "returned"
    /\ UNCHANGED <<plan, wrapper, discarded>>

\* context.AfterFunc on a context that is over starts the callback at once.
RegisterCallback ==
    /\ step = "attach" /\ plan.wrapped
    /\ IF "attempt" \in over
       THEN callback' = "fired" /\ at' = [at EXCEPT ![Callback] = "once"]
       ELSE callback' = "armed" /\ UNCHANGED at
    /\ step' = "setStop"
    /\ UNCHANGED <<plan, over, stop, finished, once, releases, discarded>>

Stopped == IF callback = "armed" THEN "stopped" ELSE callback

SetStop ==
    /\ step = "setStop"
    /\ IF finished THEN callback' = Stopped /\ UNCHANGED stop
                   ELSE stop' = TRUE /\ UNCHANGED callback
    /\ step' = "returned"
    /\ UNCHANGED <<plan, over, finished, once, at, releases, discarded>>

CallbackFires ==
    /\ callback = "armed" /\ "attempt" \in over
    /\ callback' = "fired"
    /\ at' = [at EXCEPT ![Callback] = "once"]
    /\ UNCHANGED <<plan, step, over, stop, finished, once, releases, discarded>>

\* Close, or a Read or Write that failed.
UserFinishes(u) ==
    /\ step = "returned" /\ plan.wrapped /\ at[u] = "idle"
    /\ at' = [at EXCEPT ![u] = "once"]
    /\ UNCHANGED <<plan, step, over, callback, stop, finished, once, releases, discarded>>

\* finish: sync.Once keeps every other caller until the first one is done.
PassesAtOnce(g) == once /= "idle"
PassesOnce(g) == once = "done"

EnterOnce(g) ==
    /\ at[g] = "once" /\ once = "idle"
    /\ once' = "running"
    /\ at' = [at EXCEPT ![g] = "mark"]
    /\ UNCHANGED <<plan, step, over, callback, stop, finished, releases, discarded>>

MarkFinished(g) ==
    /\ at[g] = "mark"
    /\ finished' = TRUE /\ stop' = FALSE
    /\ at' = [at EXCEPT ![g] = IF stop THEN "stop" ELSE "complete"]
    /\ UNCHANGED <<plan, step, over, callback, once, releases, discarded>>

CallStop(g) ==
    /\ at[g] = "stop"
    /\ callback' = Stopped
    /\ at' = [at EXCEPT ![g] = "complete"]
    /\ UNCHANGED <<plan, step, over, stop, finished, once, releases, discarded>>

Complete(g) ==
    /\ at[g] = "complete"
    /\ releases' = releases + 1
    /\ Canceled(plan.owned)
    /\ once' = "done"
    /\ at' = [at EXCEPT ![g] = "leave"]
    /\ UNCHANGED <<plan, step, callback, stop, finished, discarded>>

Leave(g) ==
    /\ at[g] = "leave" \/ (at[g] = "once" /\ PassesOnce(g))
    /\ at' = [at EXCEPT ![g] = "returned"]
    /\ UNCHANGED <<plan, step, over, callback, stop, finished, once, releases, discarded>>

FinishStep(g) == EnterOnce(g) \/ MarkFinished(g) \/ CallStop(g) \/ Complete(g) \/ Leave(g)

-----------------------------------------------------------------------------
(***************************************************************************)
(* A retried response.                                                     *)
(***************************************************************************)
SelectDelay ==
    /\ step = "delay"
    /\ \E offset \in Offsets(plan.cfg) :
          delay' = SelectedDelay(plan.cfg, PolicyDelay(plan.cfg, plan.retryNumber, offset),
                                 plan.rejected, plan.headers)
    /\ step' = "discard"
    /\ UNCHANGED <<plan, over, wrapper, read, closed>>

\* discardedResponseDrainContext: the contexts it looks at, whether one bounds
\* the drain, and the one with the earlier deadline.
DrainContexts == {"attempt"} \union (IF plan.linked THEN {"request"} ELSE {})
HasDeadline(c) == \E d \in plan.deadlines : c \in Under(d)
DrainsWhileLive == DrainContexts \intersect over = {}
MayDrain == DrainsWhileLive /\ \E c \in DrainContexts : HasDeadline(c)
DrainContext == IF plan.linked /\ "request" \in plan.deadlines THEN "request" ELSE "attempt"

\* The body is closed by the deferred call, the attempt is canceled, and the
\* delay begins.
DrainEnds ==
    /\ closed' = plan.body
    /\ Canceled(plan.owned \intersect {"attempt"})
    /\ step' = "wait"
    /\ UNCHANGED <<plan, wrapper, delay>>

StartDrain ==
    /\ step = "discard" /\ plan.body /\ MayDrain /\ plan.drainable
    /\ step' = "drain"
    /\ UNCHANGED <<plan, over, wrapper, discarded>>
DiscardUndrained ==
    /\ step = "discard" /\ ~(plan.body /\ MayDrain /\ plan.drainable)
    /\ DrainEnds /\ UNCHANGED read

\* A byte arrives, or the read fails: at the end of the body, because the
\* context of the drain is over, or because the transport notices that its
\* request's context is.
MoreToDrain == read <= DrainLimit
DrainByte ==
    /\ step = "drain" /\ MoreToDrain /\ DrainContext \notin over
    /\ read' = read + 1
    /\ UNCHANGED <<plan, step, over, wrapper, closed, delay>>
BodyEnds == step = "drain" /\ MoreToDrain /\ DrainEnds /\ UNCHANGED read
DrainStops ==
    /\ step = "drain"
    /\ ~MoreToDrain \/ DrainContext \in over \/ "request" \in over
    /\ DrainEnds /\ UNCHANGED read

\* waitForRetryDelay.
WaitInterrupted ==
    /\ step = "wait" /\ "total" \in over
    /\ step' = "ended" /\ Canceled(plan.owned)
    /\ UNCHANGED <<plan, wrapper, discarded>>
DelayElapses ==
    /\ step = "wait" /\ (delay <= 0 => "total" \notin over)
    /\ step' = "next"
    /\ UNCHANGED <<plan, over, wrapper, discarded>>

-----------------------------------------------------------------------------
\* All is done that can be.
Terminated ==
    /\ step \in {"returned", "ended", "next"}
    /\ over = Contexts
    /\ \A g \in Goroutines : at[g] \in {"idle", "returned"}
    /\ UNCHANGED vars

Next ==
    \/ CallerCancels \/ \E c \in Contexts : DeadlinePasses(c)
    \/ ReturnUnwrapped \/ RegisterCallback \/ SetStop \/ CallbackFires
    \/ \E u \in Users : UserFinishes(u)
    \/ \E g \in Goroutines : FinishStep(g)
    \/ SelectDelay \/ StartDrain \/ DiscardUndrained
    \/ DrainByte \/ BodyEnds \/ DrainStops
    \/ WaitInterrupted \/ DelayElapses
    \/ Terminated

\* Goroutines and timers proceed.  Users need not finish the body, the caller
\* need not cancel, and the server need not send or end the body.
Fairness ==
    /\ \A c \in Contexts : WF_vars(DeadlinePasses(c))
    /\ WF_vars(ReturnUnwrapped \/ RegisterCallback \/ SetStop)
    /\ WF_vars(CallbackFires)
    /\ \A g \in Goroutines : WF_vars(FinishStep(g))
    /\ WF_vars(SelectDelay \/ StartDrain \/ DiscardUndrained \/ DrainStops)
    /\ WF_vars(WaitInterrupted \/ DelayElapses)

Spec == Init /\ [][Next]_vars /\ Fairness

-----------------------------------------------------------------------------
(***************************************************************************)
(* The wrapper keeps the promise HttpExecution takes for one step: the     *)
(* contexts are released once, with no callback left on them, and no       *)
(* finishing call returns before that (do.go 644-667).                     *)
(***************************************************************************)
Lease == INSTANCE BodyLease WITH armed <- callback = "armed",
                                 answered <- {u \in Users : at[u] = "returned"}
LeaseSpec == Lease!Spec

(***************************************************************************)
(* The delay selected from a policy and a server (retry.go 235-333, do.go  *)
(* 389-402), whatever overflows on the way: it is a duration, at most the  *)
(* largest the configuration allows; a delay the server asked for is       *)
(* waited out as far as the configuration allows; and with a multiplier of *)
(* at least one, base delays do not shrink.                                *)
(***************************************************************************)
Exact(header) == LargerOf(0, IF header.kind = "seconds" THEN header.value * Second ELSE header.value)
Representable(header) == header.kind /= "malformed" /\ Exact(header) <= MaxDuration
ServerAsks == {Exact(plan.headers[i]) : i \in
                 {i \in DOMAIN plan.headers : /\ plan.rejected /\ plan.cfg.respect
                                              /\ Representable(plan.headers[i])
                                              /\ \A j \in 1..i - 1 : ~Representable(plan.headers[j])}}
DelayWithinLimits ==
    step = "discard" =>
        /\ delay \in 0..MaxDuration
        /\ delay <= LargerOf(IF plan.cfg.maxBackoff > 0 THEN plan.cfg.maxBackoff ELSE MaxDuration,
                             plan.cfg.maxRetryAfter)
        /\ \A asked \in ServerAsks : delay >= SmallerOf(asked, plan.cfg.maxRetryAfter)
        /\ plan.cfg.multiplier >= 1 =>
               BaseRetryDelay(plan.cfg, plan.retryNumber)
                   <= BaseRetryDelay(plan.cfg, plan.retryNumber + 1)

(***************************************************************************)
(* A response's fate is settled: once a returned body's context is over,   *)
(* or a call has begun to finish it, the contexts are released and the     *)
(* call returns; and a retried response, whatever its server sends, is     *)
(* closed and waited for until the next attempt begins or the execution    *)
(* ends.                                                                   *)
(***************************************************************************)
FateSettled ==
    /\ (callback /= "none" /\ "attempt" \in over) ~> releases = 1
    /\ \A u \in Users : at[u] = "once" ~> at[u] = "returned"
    /\ step = "discard" ~> (step \in {"next", "ended"} /\ closed = plan.body)
=============================================================================
