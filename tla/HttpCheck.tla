----------------------------- MODULE HttpCheck -----------------------------
(***************************************************************************)
(* Health checks of one HTTP client: Client.Check (httpclient/check.go)    *)
(* with its own timeout, one execution, the draining of the answer and the *)
(* recording of the assessment (internal/healthrecord), against readers of *)
(* Client.Health, which project staleness when they read.                  *)
(*                                                                         *)
(* Two clocks: real time only advances; the wall clock, which time.Now     *)
(* shows and stamps are made of (UTC strips the monotonic reading), also   *)
(* jumps.  Client.do is HttpExecution's subject: here it is a step that    *)
(* returns one of its results, and returns for certain once its context is *)
(* over (HttpExecution!BoundedExecutionEnds).                              *)
(***************************************************************************)
EXTENDS Integers

CONSTANTS
    Configs,            \* the check configurations considered, a subset of CheckConfig
    DefaultTimeout,     \* DefaultCheckTimeout
    DefaultStaleAfter,  \* DefaultCheckStaleAfter
    Checkers,           \* goroutines that call Check
    MaxTime,            \* bound on real time
    MaxStep,            \* how far the wall clock is ever off from real time
    MaxShift            \* how far a custom sanitizer moves a timestamp

\* A duration field and its Disable flag.
Setting == [value : Int, disabled : BOOLEAN]
CheckConfig == [
    enabled    : BOOLEAN,
    timeout    : Setting,
    staleAfter : Setting,
    attempt    : BOOLEAN,       \* the client has an attempt timeout
    custom     : BOOLEAN]       \* the client has a HealthSanitizer of its own

\* configvalue.Duration: the error, and the value; a disabled duration is 0.
DurationRefused(setting) == setting.value < 0 \/ (setting.disabled /\ setting.value > 0)
DurationAsSet(setting, default) == setting.value
Duration(setting, default) ==
    IF setting.disabled THEN 0 ELSE IF setting.value = 0 THEN default ELSE setting.value

\* normalizeCheckConfig: values without Enabled are an error.
Unset == [value |-> 0, disabled |-> FALSE]
Valid(cfg) ==
    IF cfg.enabled THEN ~DurationRefused(cfg.timeout) /\ ~DurationRefused(cfg.staleAfter)
                   ELSE cfg.timeout = Unset /\ cfg.staleAfter = Unset

ASSUME CheckAssumption ==
    /\ \A cfg \in Configs : cfg.timeout.value \in Int /\ cfg.staleAfter.value \in Int
    /\ DefaultTimeout \in Nat \ {0} /\ DefaultStaleAfter \in Nat \ {0}
    /\ MaxTime \in Nat /\ MaxStep \in 0..99 /\ MaxShift \in Nat

VARIABLES
    config,     \* the client's valid check configuration
    cache,      \* Client.health
    real,       \* real time
    wall,       \* the wall clock
    check,      \* per checker: the check in progress
    reader,     \* one call of Client.Health
    stepped     \* how far the wall clock has been set back, in sum (history)

clocks == <<real, wall, stepped>>
vars == <<config, cache, clocks, check, reader>>

Timeout == IF config.enabled THEN Duration(config.timeout, DefaultTimeout) ELSE 0
StaleAfter == IF config.enabled THEN Duration(config.staleAfter, DefaultStaleAfter) ELSE 0

-----------------------------------------------------------------------------
(***************************************************************************)
(* Health.  checkedAt is a wall time or Never (the zero time).  Two fields *)
(* are history, read by no action: stamped, the wall time that Record gave *)
(* the health, and checked, the real time of the same moment.              *)
(***************************************************************************)
Never == -100
Known == {"healthy", "unhealthy"}   \* degraded is treated like unhealthy
Unknown == [state |-> "unknown", checkedAt |-> Never, stamped |-> 0, checked |-> 0]

\* What Client.do can return: an error, or a response and how it was classified.
Results == {"error", "success", "rejected", "unclassified"}
HasResponse(result) == result # "error"

\* The switch of Client.Check; "request": no execution took place.
Assessed(result) == IF result = "success" THEN "healthy" ELSE "unhealthy"

\* What UpdateHealth may store.  The default sanitizer, and none, leave a valid state
\* and a UTC timestamp as they are; a custom one returns any state and timestamp, or
\* panics.  Nobody reads the timestamp of an unknown health.
Sanitized(health) ==
    IF ~config.custom THEN {health}
    ELSE {Unknown} \union
         [state : Known,
          checkedAt : {Never} \union (health.stamped - MaxShift)..(health.stamped + MaxShift),
          stamped : {health.stamped}, checked : {health.checked}]

\* ProjectStaleness at wall time now.
StaleAtBoundary(health, now) ==
    IF \/ StaleAfter <= 0 \/ health.state = "unknown"
       \/ health.checkedAt # Never /\ health.checkedAt <= now /\ now - health.checkedAt < StaleAfter
    THEN health.state ELSE "unknown"
UnstampedIsCurrent(health, now) ==
    IF \/ StaleAfter <= 0 \/ health.state = "unknown" \/ health.checkedAt = Never
       \/ health.checkedAt <= now /\ now - health.checkedAt <= StaleAfter
    THEN health.state ELSE "unknown"
ProjectStaleness(health, now) ==
    IF \/ StaleAfter <= 0
       \/ health.state = "unknown"
       \/ /\ health.checkedAt # Never
          /\ health.checkedAt <= now
          /\ now - health.checkedAt <= StaleAfter
    THEN health.state
    ELSE "unknown"

-----------------------------------------------------------------------------
NoCheck == [pc |-> "idle", ctx |-> "none", result |-> "none", checkedAt |-> 0, checked |-> 0]

Init ==
    /\ config \in {cfg \in Configs : Valid(cfg)}
    /\ cache = Unknown
    /\ real = 0 /\ wall = 0 /\ stepped = 0
    /\ check = [k \in Checkers |-> NoCheck]
    /\ reader = [pc |-> "idle", health |-> Unknown, shown |-> "unknown"]

\* The wall clock moves with real time, or jumps.
Tick ==
    /\ real < MaxTime
    /\ real' = real + 1 /\ wall' = wall + 1
    /\ UNCHANGED <<config, cache, stepped, check, reader>>

ClockStep ==
    /\ \E to \in (real - MaxStep)..(real + MaxStep) :
          /\ wall' = to
          /\ stepped' = stepped + (IF to < wall THEN wall - to ELSE 0)
          /\ stepped' <= MaxStep
    /\ UNCHANGED <<config, cache, real, check, reader>>

-----------------------------------------------------------------------------
(***************************************************************************)
(* Client.Check.                                                           *)
(***************************************************************************)
Checking(k, pc) == check[k].pc = pc

\* A disabled check returns before anything else happens.
Disabled(k) ==
    /\ Checking(k, "idle") /\ ~config.enabled
    /\ check' = [check EXCEPT ![k].pc = "returned"]
    /\ UNCHANGED <<config, cache, clocks, reader>>

\* A nil context or a request that cannot be built is recorded as a failure.
RefuseRequest(k) ==
    /\ Checking(k, "idle") /\ config.enabled
    /\ check' = [check EXCEPT ![k] = [@ EXCEPT !.pc = "record", !.result = "request"]]
    /\ UNCHANGED <<config, cache, clocks, reader>>

Start(k) ==
    /\ Checking(k, "idle") /\ config.enabled
    /\ check' = [check EXCEPT ![k] = [@ EXCEPT !.pc = "executing", !.ctx = "live"]]
    /\ UNCHANGED <<config, cache, clocks, reader>>

ContextEnds(k) ==
    /\ check[k].ctx = "live"
    /\ check' = [check EXCEPT ![k].ctx = "over"]
    /\ UNCHANGED <<config, cache, clocks, reader>>

TimerFires(k) == Timeout > 0 /\ ContextEnds(k)
CallerCancels(k) == ContextEnds(k)

\* drainAndCloseResponse reads a body only under a live context that has a deadline,
\* and not every response qualifies.
DrainAnything(k) == TRUE
MayDrain(k) == check[k].ctx = "live" /\ (Timeout > 0 \/ config.attempt)

ExecutionReturns(k, result) ==
    /\ Checking(k, "executing")
    /\ \E pc \in IF HasResponse(result) /\ MayDrain(k) THEN {"draining", "closing"} ELSE {"closing"} :
          check' = [check EXCEPT ![k] = [@ EXCEPT !.pc = pc, !.result = result]]
    /\ UNCHANGED <<config, cache, clocks, reader>>

\* Its context is over: the execution returns the context's error.
ExecutionGivesUp(k) ==
    check[k].ctx = "over" /\ ExecutionReturns(k, "error")

\* The bounded read ends: end of the body, the limit, or an error.
DrainEnds(k) ==
    /\ Checking(k, "draining")
    /\ check' = [check EXCEPT ![k].pc = "closing"]
    /\ UNCHANGED <<config, cache, clocks, reader>>

\* The body is bound to its request's contexts: a blocked read fails when the check's
\* context or the attempt's is over.
DrainInterrupted(k) ==
    /\ check[k].ctx # "live" \/ config.attempt
    /\ DrainEnds(k)

\* From here on the context is only passed to the observer.
CloseBody(k) ==
    /\ Checking(k, "closing")
    /\ check' = [check EXCEPT ![k] = [@ EXCEPT !.pc = "record", !.ctx = "none"]]
    /\ UNCHANGED <<config, cache, clocks, reader>>

\* Record: the stamp, then sanitizer and cache, then the observer and the return.
Stamp(k) ==
    /\ Checking(k, "record")
    /\ check' = [check EXCEPT ![k] =
                    [@ EXCEPT !.pc = "update", !.checkedAt = wall, !.checked = real]]
    /\ UNCHANGED <<config, cache, clocks, reader>>

UpdateHealth(k) ==
    /\ Checking(k, "update")
    /\ cache' \in Sanitized([state |-> Assessed(check[k].result),
                             checkedAt |-> check[k].checkedAt,
                             stamped |-> check[k].checkedAt, checked |-> check[k].checked])
    /\ check' = [check EXCEPT ![k] = [NoCheck EXCEPT !.pc = "observe"]]
    /\ UNCHANGED <<config, clocks, reader>>

\* ObserveHealth, and the deferred cancel.
ReturnHealth(k) ==
    /\ Checking(k, "observe")
    /\ check' = [check EXCEPT ![k] = [NoCheck EXCEPT !.pc = "returned"]]
    /\ UNCHANGED <<config, cache, clocks, reader>>

CallAgain(k) ==
    /\ Checking(k, "returned")
    /\ check' = [check EXCEPT ![k] = NoCheck]
    /\ UNCHANGED <<config, cache, clocks, reader>>

-----------------------------------------------------------------------------
(***************************************************************************)
(* Client.Health: the cache under its lock, and then the clock.            *)
(***************************************************************************)
ReadCache ==
    /\ reader.pc = "idle"
    /\ reader' = [pc |-> "read", health |-> cache, shown |-> "unknown"]
    /\ UNCHANGED <<config, cache, clocks, check>>

Project ==
    /\ reader.pc = "read"
    /\ reader' = [pc |-> "idle", health |-> Unknown, shown |-> ProjectStaleness(reader.health, wall)]
    /\ UNCHANGED <<config, cache, clocks, check>>

-----------------------------------------------------------------------------
Step(k) ==
    \/ Disabled(k) \/ ExecutionGivesUp(k) \/ DrainInterrupted(k)
    \/ CloseBody(k) \/ Stamp(k) \/ UpdateHealth(k) \/ ReturnHealth(k)

Next ==
    \/ Tick \/ ClockStep
    \/ \E k \in Checkers :
          \/ Start(k) \/ RefuseRequest(k) \/ CallAgain(k) \/ Step(k) \/ DrainEnds(k)
          \/ \E result \in Results : ExecutionReturns(k, result)
          \/ TimerFires(k) \/ CallerCancels(k)
    \/ ReadCache \/ Project

Spec == Init /\ [][Next]_vars

\* Goroutines run, the timer fires, executions and reads end when their context is over;
\* sanitizers and observers return.  Nothing is assumed of the server or the caller.
Fairness ==
    \A k \in Checkers : WF_vars(Step(k)) /\ WF_vars(TimerFires(k))

FairSpec == Spec /\ Fairness

-----------------------------------------------------------------------------
\* The age of a health shown as current is bounded in real time: by StaleAfter, by how
\* far the clock was set back and by how far a sanitizer moved the timestamp forward,
\* whatever checks and readers interleave.
StaleHealthHidden ==
    [][reader.pc = "read" /\ reader'.pc = "idle" /\ reader'.shown # "unknown" /\ StaleAfter > 0 =>
          real - reader.health.checked <=
              StaleAfter + stepped + (reader.health.checkedAt - reader.health.stamped)]_vars

\* A health still within StaleAfter, the last instant included, is shown as it is - unless
\* the clock was moved or the sanitizer changed its timestamp.
CurrentHealthShown ==
    [][(/\ reader.pc = "read" /\ reader'.pc = "idle" /\ StaleAfter > 0
        /\ wall = real /\ reader.health.checkedAt = reader.health.checked
        /\ real - reader.health.checked <= StaleAfter)
       => reader'.shown = reader.health.state]_vars

\* A check with a timeout returns although the server never answers, never ends its body,
\* and the caller waits for ever; and a check without one never reads such a body at all.
BoundedCheckReturns ==
    \A k \in Checkers :
        /\ check[k].pc = "executing" /\ ~config.timeout.disabled ~> check[k].pc = "returned"
        /\ check[k].pc = "draining" ~> check[k].pc = "returned"
=============================================================================
