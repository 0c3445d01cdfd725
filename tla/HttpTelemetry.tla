--------------------------- MODULE HttpTelemetry ---------------------------
(***************************************************************************)
(* The telemetry around one HTTP operation: the observers it starts and    *)
(* ends (observer.go, otel/observer.go), the transports its requests pass  *)
(* (httpclient/propagation.go, internal/httpotel/transport.go) and the     *)
(* headers these inject (httpclient/context_headers.go).  Observers,       *)
(* propagators and the base transport are user code: each call may panic.  *)
(* Which responses are redirected or retried is HttpExecution's matter and *)
(* left open here.                                                         *)
(***************************************************************************)
EXTENDS Integers, Sequences, SequencesExt

CONSTANTS
    ObserverCount,  \* observers that MultiObserver composes
    Setups,         \* how clients are built, see Setup
    MaxAttempts,    \* bound on attempts
    MaxSends        \* bound on round trips: attempts and redirects

(***************************************************************************)
(* Layers are transports, outermost first: the default client has a        *)
(* "traced" one that injects with the client's propagators; any other      *)
(* client has a "propagating" one, perhaps around a "traced" one of the    *)
(* caller's that injects the trace on its own.                             *)
(*                                                                         *)
(* Propagators are "trace" (OpenTelemetry), "pair" (custom code that sets  *)
(* two headers) and "bound" (a context header binding, which may preserve  *)
(* what the caller has set).                                               *)
(***************************************************************************)
Setup == [layers : {<<"traced">>, <<"propagating">>, <<"propagating", "traced">>},
          propagators : Seq({"trace", "pair", "bound"}), preserve : BOOLEAN, callerSets : BOOLEAN]
ASSUME HttpTelemetryAssumption ==
    /\ ObserverCount \in Nat /\ MaxAttempts \in Nat \ {0} /\ MaxSends \in Nat \ {0}
    /\ Setups \subseteq Setup

HeaderNames == {"trace", "left", "right", "bound"}
Absent == 0    \* no such header
CallerSet == -1  \* the value the caller gave it

VARIABLES
    setup,
    at,            \* where the operation is; "unwind" and "panicked" after a panic of
                   \* the base transport, "end" and "done" otherwise
    started,       \* observers asked to start
    observations,  \* the observations they gave, in order
    context,       \* the operation's context: the last span derived into it
    spans,         \* identities given to spans and observations, in the order of their start
    open,          \* the spans and observations that have not ended
    over,          \* whose context has ended: "none", the "attempt" or the "operation"
    attempt, sends,
    resends,       \* operationState.resends
    handed,        \* requests handed to the base transport
    own,           \* the headers of the attempt's request
    frames,        \* the layers the request has entered
    requestBody,   \* "held", "sent" or "closed"
    response,      \* "none", "live" or "closed"
    failed,        \* the round trip has an error to return
    late           \* a context was over when the base transport answered

observing == <<started, observations, context>>
exchange == <<requestBody, response, failed, late>>
counters == <<attempt, sends, resends, handed>>
vars == <<setup, at, observing, spans, open, over, counters, own, frames, exchange>>

CallersHeaders ==
    [n \in HeaderNames |-> IF n = "bound" /\ setup.callerSets THEN CallerSet ELSE Absent]

Init ==
    /\ setup \in Setups
    /\ at = "observe"
    /\ started = 0 /\ observations = <<>> /\ context = 0 /\ spans = 0 /\ open = {}
    /\ over = "none"
    /\ attempt = 0 /\ sends = 0 /\ resends = 0 /\ handed = 0
    /\ own = CallersHeaders
    /\ frames = <<>>
    /\ requestBody = "held" /\ response = "none" /\ failed = FALSE /\ late = FALSE

\* The attempt times out; the operation does, or its caller cancels it.
AttemptEnds ==
    /\ over = "none" /\ attempt > 0
    /\ over' = "attempt"
    /\ UNCHANGED <<setup, at, observing, spans, open, counters, own, frames, exchange>>
OperationOver ==
    /\ over /= "operation"
    /\ over' = "operation"
    /\ UNCHANGED <<setup, at, observing, spans, open, counters, own, frames, exchange>>

-----------------------------------------------------------------------------
(***************************************************************************)
(* Observers.                                                              *)
(***************************************************************************)

\* StartOperation of one observer.  One that panics is passed over; one that
\* returns may have derived a context and may have given an observation.
StartPanics ==
    /\ at = "observe" /\ started < ObserverCount
    /\ started' = started + 1
    /\ UNCHANGED <<setup, at, observations, context, spans, open, over, counters, own, frames, exchange>>
StartReturns(derives, observes) ==
    /\ at = "observe" /\ started < ObserverCount
    /\ started' = started + 1
    /\ spans' = spans + 1
    /\ context' = IF derives THEN spans' ELSE context
    /\ observations' = IF observes THEN Append(observations, spans') ELSE observations
    /\ open' = IF observes THEN open \union {spans'} ELSE open
    /\ UNCHANGED <<setup, at, over, counters, own, frames, exchange>>

\* The deferred finishOperation: observations end in reverse order, whether or
\* not an End panics.
FirstToEnd == 1
NextToEnd == Len(observations)
EndObservation ==
    /\ at \in {"end", "unwind"} /\ observations /= <<>>
    /\ open' = open \ {observations[NextToEnd]}
    /\ observations' = RemoveAt(observations, NextToEnd)
    /\ UNCHANGED <<setup, at, started, context, spans, over, counters, own, frames, exchange>>
OperationEnds ==
    /\ at \in {"end", "unwind"} /\ observations = <<>>
    /\ at' = IF at = "end" THEN "done" ELSE "panicked"
    /\ UNCHANGED <<setup, observing, spans, open, over, counters, own, frames, exchange>>

-----------------------------------------------------------------------------
(***************************************************************************)
(* Sending a request: an attempt, or a redirect within one.                *)
(***************************************************************************)
Send(n) ==
    /\ sends < MaxSends
    /\ sends' = sends + 1
    /\ attempt' = n
    /\ own' = IF n = attempt THEN own ELSE CallersHeaders
    /\ over' = IF n /= attempt /\ over = "attempt" THEN "none" ELSE over
    /\ requestBody' = "held" /\ response' = "none" /\ failed' = FALSE /\ late' = FALSE
    /\ at' = "layer"
    /\ UNCHANGED <<setup, observing, spans, open, resends, handed, frames>>

FirstAttempt == at = "observe" /\ started = ObserverCount /\ Send(1)
Refused ==
    /\ at = "observe" /\ started = ObserverCount /\ over = "operation"
    /\ at' = "end"
    /\ UNCHANGED <<setup, observing, spans, open, over, counters, own, frames, exchange>>

\* A layer is entered with a clone of the headers.  A traced one takes the
\* next resend count and starts a span.
Depth == Len(frames)
Layer == setup.layers[Depth]
Entering == setup.layers[Depth + 1]
HeadersAbove == IF frames = <<>> THEN own ELSE Last(frames).headers

EnterLayer ==
    /\ at = "layer" /\ Depth < Len(setup.layers)
    /\ LET traced == Entering = "traced"
           ctx == IF traced THEN spans + 1 ELSE context
       IN  /\ frames' = Append(frames, [headers |-> HeadersAbove, ctx |-> ctx, injected |-> {},
                                        next |-> 1, resend |-> IF traced THEN resends ELSE 0])
           /\ spans' = IF traced THEN spans + 1 ELSE spans
           /\ open' = IF traced THEN open \union {ctx} ELSE open
           /\ resends' = IF traced THEN resends + 1 ELSE resends
    /\ at' = "inject"
    /\ UNCHANGED <<setup, observing, over, attempt, sends, handed, own, exchange>>

Propagators == IF Depth = 2 THEN <<"trace">> ELSE setup.propagators
Frame == Last(frames)
Propagator == Propagators[Frame.next]

\* What one propagator has written when it returns, and perhaps when it panics.
Writes(p) ==
    CASE p = "trace" -> [n \in {"trace"} |-> Frame.ctx]
      [] p = "pair" -> [n \in {"left", "right"} |-> sends]
      [] p = "bound" -> [n \in {"bound"} |-> sends]
Overlaid(headers, written) ==
    [n \in HeaderNames |-> IF n \in DOMAIN written THEN written[n] ELSE headers[n]]

\* contextHeaderPropagator: a binding that preserves leaves a present header.
Preserves(p, headers) == p = "bound" /\ setup.preserve /\ headers["bound"] /= Absent

\* injectHeaderSafely and injectSafely put a backup back after a panic.
\* A binding whose provider panics, has no value or an unusable one writes nothing.
AfterPanic(before, partly) == before

\* The layers inject into clones: the attempt's request keeps its headers.
SharedHeaders(injected) == injected
OwnHeaders(injected) == own

InjectStep(headers, injected) ==
    /\ frames' = [frames EXCEPT ![Depth] =
                    [Frame EXCEPT !.headers = headers, !.injected = injected, !.next = @ + 1]]
    /\ own' = OwnHeaders(headers)
    /\ UNCHANGED <<setup, at, observing, spans, open, over, counters, exchange>>
Injecting == at = "inject" /\ Frame.next <= Len(Propagators)

InjectReturns ==
    /\ Injecting
    /\ IF Preserves(Propagator, Frame.headers)
       THEN InjectStep(Frame.headers, Frame.injected)
       ELSE InjectStep(Overlaid(Frame.headers, Writes(Propagator)), Frame.injected \union {Propagator})
InjectPanics ==
    /\ Injecting
    /\ \E written \in SUBSET DOMAIN Writes(Propagator) :
          InjectStep(AfterPanic(Frame.headers,
                                Overlaid(Frame.headers, [n \in written |-> Writes(Propagator)[n]])),
                     Frame.injected)

\* With all injected, the layer hands the request on unless the context is over.
HandOn ==
    /\ at = "inject" /\ Frame.next > Len(Propagators) /\ over = "none"
    /\ IF Depth < Len(setup.layers)
       THEN at' = "layer" /\ UNCHANGED handed
       ELSE at' = "base" /\ handed' = handed + 1
    /\ UNCHANGED <<setup, observing, spans, open, over, attempt, sends, resends, own, frames, exchange>>
HoldBack ==
    /\ at = "inject" /\ Frame.next > Len(Propagators) /\ over /= "none"
    /\ requestBody' = "closed" /\ failed' = TRUE
    /\ at' = "leave"
    /\ UNCHANGED <<setup, observing, spans, open, over, counters, own, frames, response, late>>

\* The base transport answers with a response, an error, both, or neither.
BaseAnswers(responds, fails) ==
    /\ at = "base"
    /\ requestBody' = "sent"
    /\ response' = IF responds THEN "live" ELSE "none"
    /\ failed' = fails
    /\ late' = (over /= "none")
    /\ at' = "check"
    /\ UNCHANGED <<setup, observing, spans, open, over, counters, own, frames>>

\* It panics: no layer recovers or has deferred anything, the span of a traced one
\* included, so what runs next is the deferred finishOperation of Client.do.
BasePanics ==
    /\ at = "base"
    /\ requestBody' = "sent"
    /\ at' = "unwind"
    /\ UNCHANGED <<setup, observing, spans, open, over, counters, own, frames, response, failed, late>>

\* What each layer makes of the answer from below.
Closed == IF response = "live" THEN "closed" ELSE response
RejectsErrorsOnly == failed
Rejects == over /= "none" \/ failed
CheckAnswer ==
    /\ at = "check"
    /\ IF Rejects THEN response' = Closed /\ failed' = TRUE
       ELSE failed' = (response = "none") /\ UNCHANGED response
    /\ at' = "leave"
    /\ UNCHANGED <<setup, observing, spans, open, over, counters, own, frames, requestBody, late>>
LeaveLayer ==
    /\ at = "leave" /\ frames /= <<>>
    /\ open' = IF Layer = "traced" THEN open \ {Frame.ctx} ELSE open
    /\ frames' = Front(frames)
    /\ at' = IF Depth = 1 THEN "answered" ELSE "check"
    /\ UNCHANGED <<setup, observing, spans, over, counters, own, exchange>>

\* net/http closes the response of a redirect it follows, Client.do the one it
\* retries and any whose context is over.
Redirect == at = "answered" /\ ~failed /\ Send(attempt)
Retry == at = "answered" /\ over /= "operation" /\ attempt < MaxAttempts /\ Send(attempt + 1)
Finish ==
    /\ at = "answered"
    /\ response' = IF over /= "none" THEN Closed ELSE response
    /\ failed' = (failed \/ over /= "none")
    /\ at' = "end"
    /\ UNCHANGED <<setup, observing, spans, open, over, counters, own, frames, requestBody, late>>

Terminated == at \in {"done", "panicked"} /\ over = "operation" /\ UNCHANGED vars

Next ==
    \/ AttemptEnds \/ OperationOver
    \/ StartPanics \/ \E derives, observes \in BOOLEAN : StartReturns(derives, observes)
    \/ FirstAttempt \/ Refused \/ EnterLayer \/ InjectReturns \/ InjectPanics \/ HandOn \/ HoldBack
    \/ \E responds, fails \in BOOLEAN : BaseAnswers(responds, fails)
    \/ BasePanics \/ CheckAnswer \/ LeaveLayer \/ Redirect \/ Retry \/ Finish
    \/ EndObservation \/ OperationEnds
    \/ Terminated

Spec == Init /\ [][Next]_vars

-----------------------------------------------------------------------------
(***************************************************************************)
(* What reaches the base transport are the caller's headers and, over      *)
(* them, the injections that this round trip completed, whole: nothing of  *)
(* an earlier attempt or redirect, and no half of an injection that        *)
(* panicked (propagation.go 112-149, transport.go 142-143).  The trace     *)
(* names a span that has not ended or the operation's context, and the     *)
(* resend count covers every request sent before (httpotel/context.go).    *)
(***************************************************************************)
Injected(p) == \E l \in DOMAIN frames : p \in frames[l].injected
LastToInject(p, l) ==
    p \in frames[l].injected /\ \A k \in DOMAIN frames : p \in frames[k].injected => k <= l
WireHeaders ==
    at = "base" =>
        LET wire == Frame.headers
        IN  /\ wire["left"] = wire["right"]
            /\ wire["left"] = IF Injected("pair") THEN sends ELSE Absent
            /\ wire["bound"] = IF Injected("bound") THEN sends ELSE CallersHeaders["bound"]
            /\ IF Injected("trace")
               THEN \E l \in DOMAIN frames : LastToInject("trace", l) /\ wire["trace"] = frames[l].ctx
               ELSE wire["trace"] = Absent
            /\ wire["trace"] \in open \union {Absent, context}
            /\ (setup.preserve /\ setup.callerSets) => wire["bound"] = CallerSet
            /\ Layer = "traced" => Frame.resend \in handed - 1..sends - 1

(***************************************************************************)
(* Spans and observations nest: each ends after all that started later,    *)
(* and when the operation ends every one of them has ended, whichever      *)
(* observers and propagators panicked (observer.go 270-320, transport.go   *)
(* 132-178).  If the base transport panicked, exactly the spans of the     *)
(* round trip it panicked in are never ended (transport.go 176 is not      *)
(* deferred, do.go 221 is), and the observations still all end, in the     *)
(* reverse of their order.                                                 *)
(***************************************************************************)
Traced == {frames[l].ctx : l \in {k \in DOMAIN frames : setup.layers[k] = "traced"}}
Abandoned == IF at \in {"unwind", "panicked"} THEN Traced ELSE {}
SpansNest ==
    /\ [](at \in {"done", "panicked"} => open = Abandoned)
    /\ [][\/ open' = open
          \/ open' = open \union {spans'} /\ spans' = spans + 1
          \/ \E s \in open \ Abandoned : /\ open' = open \ {s}
                                        /\ \A t \in open \ Abandoned : t <= s]_vars

(***************************************************************************)
(* Through every layer and whenever a context ends, a round trip returns   *)
(* either a live response or an error with the response closed, the latter *)
(* if the transport answered too late, and leaves no request body unread   *)
(* and unclosed (propagation.go 133-163, transport.go 145-162).            *)
(***************************************************************************)
NothingLeaks ==
    /\ at = "answered" => /\ requestBody /= "held"
                          /\ failed <=> response /= "live"
                          /\ late => failed
    /\ at \in {"end", "done"} => (response = "live" => ~failed)
=============================================================================
