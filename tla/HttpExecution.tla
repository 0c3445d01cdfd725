--------------------------- MODULE HttpExecution ---------------------------
(***************************************************************************)
(* One logical HTTP operation: Client.do (httpclient/do.go) with its       *)
(* attempts, retry gates, request-body replay, redirect policy and the     *)
(* lease of the final response body, against an environment of three       *)
(* nested contexts that may end at any point, a transport that answers     *)
(* anything, and user callbacks.                                           *)
(*                                                                         *)
(* pc names the statement of do that runs next:                            *)
(*                                                                         *)
(*   start       validation, StartOperation                                *)
(*   loop        the head of the attempt loop                              *)
(*   prepare     requestForAttempt;  getBody: inside GetBody               *)
(*   inject      the header propagator, before every RoundTrip             *)
(*   roundTrip   waiting for the transport                                 *)
(*   redirect    inside CheckRedirect                                      *)
(*   responded   http.Client.Do has returned;  classify: the classifier    *)
(*   decide      the attempt is recorded, the retry gates are next         *)
(*   discard     drainAndCloseResponse;  waiting: waitForRetryDelay        *)
(*   returned    the result is the caller's                                *)
(*                                                                         *)
(* net/http and the transport are external: what they may answer, and that *)
(* they own a request body handed to them, is read off how do.go and       *)
(* propagation.go use them.                                                *)
(***************************************************************************)
EXTENDS Naturals

CONSTANTS
    MaxAttempts,    \* RetryConfig.MaxAttempts
    RedirectLimit,  \* requests per attempt before the default limit (10 in do.go)
    Policies        \* the executions considered, a subset of Policy

Attempts == 1..MaxAttempts

\* An execution's policy and the facts about its request that the gates consult.
Policy == [
    safety     : {"default", "never", "idempotent"},    \* RetrySafety
    idempotent : BOOLEAN,               \* methodIsIdempotent(request.Method)
    listed     : BOOLEAN,               \* the method is in RetryConfig.Methods
    timeouts   : BOOLEAN,               \* RetryConfig.RetryTimeouts
    transport  : {"none", "default", "all"},            \* TransportRetryMode
    body       : {"none", "once", "replayable"},        \* request body and GetBody
    total      : BOOLEAN,               \* a total timeout is configured
    attempt    : BOOLEAN,               \* an attempt timeout is configured
    callback   : BOOLEAN,               \* the http.Client has a CheckRedirect
    crossOrigin : BOOLEAN]              \* AllowCrossOrigin

ASSUME MaxAttemptsAssumption == MaxAttempts \in Nat \ {0}
ASSUME RedirectLimitAssumption == RedirectLimit \in Nat \ {0}
ASSUME PoliciesAssumption == Policies \subseteq Policy

VARIABLES
    policy,     \* fixed when the operation is called
    pc,
    ctx,        \* the caller's, the total and the attempt's context
    number,     \* attemptNumber
    original,   \* who is responsible for the caller's request body
    replay,     \* the same for the body that GetBody made for this attempt
    via,        \* requests of this attempt
    method,     \* of the current request: the original one, get after a rewrite, or
                \* the original one that a callback restored after a rewrite
    target,     \* origin of the current request
    hop,        \* the redirect net/http proposes
    reply,      \* err and status of the attempt in hand
    responses,  \* per attempt: the body of the response Do returned
    log,        \* per attempt: the recorded outcome and failure class
    lease,      \* observedResponseBody: none, attached, finished
    \* History, read by no action.
    sent,       \* transmissions with the method original (2: more than one)
    strayed     \* a request left the configured origin without permission

request == <<original, replay>>
chain == <<via, method, target, hop>>
history == <<sent, strayed>>
vars == <<policy, pc, ctx, number, request, chain, reply, responses, log, lease, history>>

-----------------------------------------------------------------------------
(***************************************************************************)
(* Contexts.  "absent": no timeout is configured, the parent is used.      *)
(* "released": ended by its cancel function, its timer is gone.  The end   *)
(* of a parent ends its children.                                          *)
(***************************************************************************)
Ended == {"canceled", "timeout"}
TotalCtx == IF ctx.total = "absent" THEN ctx.caller ELSE ctx.total
AttemptCtx == IF ctx.attempt = "absent" THEN TotalCtx ELSE ctx.attempt
Over(x) == x # "live"

Inherit(x, cause) == IF x = "live" THEN cause ELSE x
Cancel(x) == Inherit(x, "released")
AttemptReleased(c) == [c EXCEPT !.attempt = Cancel(@)]
TotalReleased(c) == [c EXCEPT !.total = Cancel(@),
                              !.attempt = IF c.total = "live" THEN Cancel(@) ELSE @]
AllReleased(c) == TotalReleased(AttemptReleased(c))

-----------------------------------------------------------------------------
(***************************************************************************)
(* Classification (classifyOutcome, classifyFailure, failure.Network) and  *)
(* the retry gates.                                                        *)
(***************************************************************************)
Errors == {"canceled", "timeout", "tls", "dnsNotFound", "dns", "connection", "noResponse",
           "refused"}
Statuses == {"success", "retryable", "other"}   \* 2xx, in RetryConfig.StatusCodes, neither
Verdicts == {"accepted", "rejected", "invalid"}
Outcomes == {"success", "response_rejected", "timeout", "canceled", "execution_error"}
Classes == {"none", "policy", "canceled", "timeout", "tls", "name_resolution",
            "connection", "transport", "remote_response"}
NoReply == [err |-> "none", status |-> "other"]
Unlogged == [outcome |-> "none", class |-> "none"]

OutcomeOf(err) == IF err \in Ended THEN err ELSE "execution_error"
ClassOf(err) ==
    CASE err = "refused" -> "policy"
      [] err \in {"dns", "dnsNotFound"} -> "name_resolution"
      [] err = "noResponse" -> "transport"
      [] OTHER -> err
Failure(err) == [outcome |-> OutcomeOf(err), class |-> ClassOf(err)]
Classified(verdict) ==
    CASE verdict = "accepted" -> [outcome |-> "success", class |-> "none"]
      [] verdict = "rejected" -> [outcome |-> "response_rejected", class |-> "remote_response"]
      [] OTHER -> [outcome |-> "execution_error", class |-> "policy"]

\* retryAuthorizationFor(m, RetrySafety).allowsRetry()
Authorized(m) ==
    \/ policy.safety = "idempotent"
    \/ policy.safety = "default" /\ (policy.idempotent \/ m = "get")

Replayable == policy.body # "once"

\* TransportRetryMode.allows
TransportAllows(class, err) ==
    \/ policy.transport = "all"
    \/ /\ policy.transport = "default"
       /\ err \notin {"noResponse", "dnsNotFound"}
       /\ class \in {"name_resolution", "connection", "transport"}

\* RetryConfig.shouldRetry
ShouldRetry(entry) ==
    /\ policy.listed
    /\ \/ entry.outcome = "response_rejected" /\ reply.status = "retryable"
       \/ entry.outcome = "timeout" /\ policy.timeouts
       \/ entry.outcome = "execution_error" /\ TransportAllows(entry.class, reply.err)

RetryOnceTooOften(entry) ==
    /\ entry.outcome # "success" /\ number <= MaxAttempts /\ ~Over(TotalCtx)
    /\ reply.err # "refused" /\ entry.class # "policy" /\ Authorized("original")
    /\ Replayable /\ ShouldRetry(entry)
RetryPolicyFailures(entry) ==
    /\ entry.outcome # "success" /\ number < MaxAttempts /\ ~Over(TotalCtx)
    /\ reply.err # "refused" /\ Authorized("original") /\ Replayable /\ ShouldRetry(entry)

Retry(entry) ==
    /\ entry.outcome # "success"
    /\ number < MaxAttempts
    /\ ~Over(TotalCtx)
    /\ reply.err # "refused"
    /\ entry.class # "policy"
    /\ Authorized("original")
    /\ Replayable
    /\ ShouldRetry(entry)

-----------------------------------------------------------------------------
TypeOK ==
    /\ policy \in Policies
    /\ pc \in {"start", "loop", "prepare", "getBody", "inject", "roundTrip", "redirect",
               "responded", "classify", "decide", "discard", "waiting", "returned"}
    /\ ctx \in [caller : {"live"} \union Ended,
                total : {"absent", "live", "released"} \union Ended,
                attempt : {"absent", "live", "released"} \union Ended]
    /\ number \in Attempts
    /\ original \in {"absent", "held", "handed", "closed"}
    /\ replay \in {"absent", "held", "handed", "closed"}
    /\ via \in 0..RedirectLimit + 1
    /\ method \in {"original", "get", "restored"}
    /\ target \in {"base", "other"}
    /\ hop \in [preserving : BOOLEAN, target : {"base", "other"}]
    /\ reply \in [err : Errors \union {"none"}, status : Statuses]
    /\ responses \in [Attempts -> {"none", "empty", "open", "closed"}]
    /\ log \in [Attempts -> [outcome : Outcomes, class : Classes] \union {Unlogged}]
    /\ lease \in {"none", "attached", "finished"}
    /\ sent \in 0..2
    /\ strayed \in BOOLEAN

NoHop == [preserving |-> FALSE, target |-> "base"]

Init ==
    /\ policy \in Policies
    /\ pc = "start"
    /\ ctx = [caller |-> "live", total |-> "absent", attempt |-> "absent"]
    /\ number = 1
    /\ original = IF policy.body = "none" THEN "absent" ELSE "held"
    /\ replay = "absent"
    /\ via = 0 /\ method = "original" /\ target = "base" /\ hop = NoHop
    /\ reply = NoReply
    /\ responses = [n \in Attempts |-> "none"]
    /\ log = [n \in Attempts |-> Unlogged]
    /\ lease = "none"
    /\ sent = 0
    /\ strayed = FALSE

Closed(body) == IF body \in {"held", "open"} THEN "closed" ELSE body

\* The result carries an error and no response: the deferred functions of do run.
ReturnError ==
    /\ pc' = "returned"
    /\ ctx' = AllReleased(ctx)
    /\ original' = Closed(original)
    /\ UNCHANGED <<policy, number, chain, reply, responses, log, lease, history>>

-----------------------------------------------------------------------------
(***************************************************************************)
(* The environment: the caller's context and the two timers.               *)
(***************************************************************************)
InUse == pc # "returned" \/ lease = "attached"

CallerEnds(cause) ==
    /\ InUse /\ ctx.caller = "live"
    /\ ctx' = [caller |-> cause, total |-> Inherit(ctx.total, cause),
               attempt |-> Inherit(ctx.attempt, cause)]
    /\ UNCHANGED <<policy, pc, number, request, chain, reply, responses, log, lease, history>>

TotalExpires ==
    /\ ctx.total = "live"
    /\ ctx' = [ctx EXCEPT !.total = "timeout", !.attempt = Inherit(@, "timeout")]
    /\ UNCHANGED <<policy, pc, number, request, chain, reply, responses, log, lease, history>>

AttemptExpires ==
    /\ ctx.attempt = "live"
    /\ ctx' = [ctx EXCEPT !.attempt = "timeout"]
    /\ UNCHANGED <<policy, pc, number, request, chain, reply, responses, log, lease, history>>

-----------------------------------------------------------------------------
(***************************************************************************)
(* Before an attempt.                                                      *)
(***************************************************************************)
\* Invalid options, an invalid request or a foreign origin: no attempt is made.
Refuse ==
    /\ pc = "start"
    /\ ReturnError
    /\ UNCHANGED replay

StartOperation ==
    /\ pc = "start"
    /\ pc' = "loop"
    /\ ctx' = [ctx EXCEPT !.total = IF policy.total THEN ctx.caller ELSE "absent"]
    /\ UNCHANGED <<policy, number, request, chain, reply, responses, log, lease, history>>

TotalOver ==
    /\ pc = "loop" /\ Over(TotalCtx)
    /\ ReturnError
    /\ UNCHANGED replay

StartAttempt ==
    /\ pc = "loop" /\ ~Over(TotalCtx)
    /\ pc' = "prepare"
    /\ ctx' = [ctx EXCEPT !.attempt = IF policy.attempt THEN TotalCtx ELSE "absent"]
    /\ replay' = "absent"
    /\ via' = 0 /\ method' = "original" /\ target' = "base" /\ hop' = NoHop
    /\ reply' = NoReply
    /\ UNCHANGED <<policy, number, original, responses, log, lease, history>>

\* requestForAttempt up to GetBody.
Prepare ==
    /\ pc = "prepare"
    /\ \/ /\ Over(AttemptCtx) \/ (number > 1 /\ policy.body = "once")
          /\ ReturnError
       \/ /\ ~Over(AttemptCtx)
          /\ \/ /\ number = 1 /\ pc' = "inject"
                /\ original' = IF original = "held" THEN "handed" ELSE original
             \/ number > 1 /\ policy.body = "none" /\ pc' = "inject" /\ UNCHANGED original
             \/ number > 1 /\ policy.body = "replayable" /\ pc' = "getBody" /\ UNCHANGED original
          /\ UNCHANGED <<policy, ctx, number, chain, reply, responses, log, lease, history>>
    /\ UNCHANGED replay

\* What becomes of a recreated body that arrives late or with an error.
LateBodyForgotten(body) == body
LateBody(body) == Closed(body)

GetBodyReturns ==
    /\ pc = "getBody"
    /\ \E body \in {"absent", "held"}, failed \in BOOLEAN :
          IF Over(AttemptCtx) \/ failed \/ body = "absent"
          THEN /\ replay' = LateBody(body)
               /\ ReturnError
          ELSE /\ replay' = "handed"
               /\ pc' = "inject"
               /\ UNCHANGED <<policy, ctx, number, original, chain, reply, responses, log,
                              lease, history>>

-----------------------------------------------------------------------------
(***************************************************************************)
(* http.Client.Do: one or several RoundTrips.  The propagator is user code *)
(* that runs before each; afterwards the context is read again.            *)
(***************************************************************************)
\* Do returns err, or the response with this body and status.
DoReturns(err, body, status) ==
    /\ pc' = "responded"
    /\ reply' = [err |-> err, status |-> status]
    /\ responses' = [responses EXCEPT ![number] = body]
    /\ UNCHANGED <<policy, ctx, number, request, chain, log, lease, history>>

Transmit ==
    /\ pc = "inject" /\ ~Over(AttemptCtx)
    /\ pc' = "roundTrip"
    /\ via' = via + 1
    /\ sent' = IF method = "original" /\ sent < 2 THEN sent + 1 ELSE sent
    /\ strayed' = (strayed \/ (target = "other" /\ ~policy.crossOrigin))
    /\ UNCHANGED <<policy, ctx, number, request, method, target, hop, reply, responses, log,
                   lease>>

InjectedLate ==
    /\ pc = "inject" /\ Over(AttemptCtx)
    /\ DoReturns(AttemptCtx, "none", "other")

\* propagatingRoundTripper closes a response whose context is over.
Respond ==
    /\ pc = "roundTrip"
    /\ \E body \in {"empty", "open"}, status \in Statuses :
          IF Over(AttemptCtx) THEN DoReturns(AttemptCtx, Closed(body), "other")
                              ELSE DoReturns("none", body, status)

TransportFails ==
    /\ pc = "roundTrip"
    /\ \E err \in Errors \ {"refused"} : DoReturns(err, "none", "other")

\* A transport that honors its context.
TransportGivesUp ==
    /\ pc = "roundTrip" /\ Over(AttemptCtx)
    /\ DoReturns(AttemptCtx, "none", "other")

\* net/http proposes a redirect; a 307 or 308 only if the body can be sent again.
\* The bound on via only matters if a CheckRedirect callback lifts the default limit.
ProposeRedirect ==
    /\ pc = "roundTrip" /\ ~Over(AttemptCtx) /\ via <= RedirectLimit
    /\ \E preserving \in BOOLEAN, to \in {"base", "other"} :
          /\ preserving => Replayable
          /\ hop' = [preserving |-> preserving, target |-> to]
    /\ pc' = "redirect"
    /\ UNCHANGED <<policy, ctx, number, request, via, method, target, reply, responses, log,
                   lease, history>>

\* The response status is saved before the callback runs, so erasing
\* Request.Response in the callback does not hide that the method is preserved.
PreservesAfterCallback(erased) == hop.preserving /\ ~erased
Preserves(erased) == hop.preserving

\* The origin is validated after the callback, which may have rewritten the URL.
OriginBeforeCallback(rewritten) == hop.target
OriginToValidate(rewritten) == rewritten

\* The method net/http puts into the upcoming request: 301, 302 and 303 rewrite it.
UpcomingMethod == IF hop.preserving /\ method # "get" THEN "original" ELSE "get"

\* A callback may set another method on the upcoming request; the original one that it
\* sets after a 301, 302 or 303 is a restored one.
Requested(wanted) == IF wanted = "original" /\ ~hop.preserving THEN "restored" ELSE wanted

MayFollow(erased, rewritten, wanted) ==
    /\ policy.callback \/ via < RedirectLimit
    /\ ~Over(AttemptCtx)
    /\ policy.crossOrigin \/ OriginToValidate(rewritten) = "base"
    /\ Preserves(erased) => Authorized(wanted)

\* The CheckRedirect that executionHTTPClient composes, after the callback allowed
\* the redirect and changed whatever it likes in the upcoming request.  net/http has
\* closed the body when a redirect is refused.
CheckRedirect ==
    /\ pc = "redirect"
    /\ \E erased \in BOOLEAN, rewritten \in {"base", "other"}, wanted \in {"original", "get"} :
          /\ policy.callback \/ (~erased /\ rewritten = hop.target /\ wanted = UpcomingMethod)
          /\ IF MayFollow(erased, rewritten, wanted)
             THEN /\ pc' = "inject"
                  /\ method' = Requested(wanted)
                  /\ target' = rewritten
                  /\ hop' = NoHop
                  /\ UNCHANGED <<policy, ctx, number, request, via, reply, responses, log,
                                 lease, history>>
             ELSE DoReturns("refused", "closed", "other")

\* The callback refuses, or returns http.ErrUseLastResponse.
CallbackStops ==
    /\ pc = "redirect" /\ policy.callback
    /\ \/ DoReturns("refused", "closed", "other")
       \/ \E body \in {"empty", "open"} : DoReturns("none", body, "other")

-----------------------------------------------------------------------------
(***************************************************************************)
(* After Do: the context decides first, then the classifier, then the      *)
(* context again.  Either way the attempt is recorded and observed.        *)
(***************************************************************************)
Record(entry) ==
    /\ pc' = "decide"
    /\ log' = [log EXCEPT ![number] = entry]
    /\ UNCHANGED <<policy, ctx, number, request, chain, lease, history>>

\* What becomes of a response that is not going to be the caller's.
RejectedBodyForgotten(body) == body
RejectedBody(body) == Closed(body)

RejectLateResult ==
    /\ reply' = [err |-> AttemptCtx, status |-> "other"]
    /\ responses' = [responses EXCEPT ![number] = RejectedBody(@)]
    /\ Record(Failure(AttemptCtx))

CheckAttempt ==
    /\ pc = "responded"
    /\ \/ Over(AttemptCtx) /\ RejectLateResult
       \/ /\ ~Over(AttemptCtx) /\ reply.err # "none"
          /\ Record(Failure(reply.err))
          /\ UNCHANGED <<reply, responses>>
       \/ /\ ~Over(AttemptCtx) /\ reply.err = "none"
          /\ pc' = "classify"
          /\ UNCHANGED <<policy, ctx, number, request, chain, reply, responses, log, lease,
                         history>>

LateVerdictStands == FALSE
VerdictTooLate == Over(AttemptCtx)

Classify ==
    /\ pc = "classify"
    /\ IF VerdictTooLate
       THEN RejectLateResult
       ELSE /\ \E verdict \in Verdicts : Record(Classified(verdict))
            /\ UNCHANGED <<reply, responses>>

-----------------------------------------------------------------------------
(***************************************************************************)
(* Retry or return.                                                        *)
(***************************************************************************)
\* attachResponseLifecycle
HandsOverBody == reply.err = "none" /\ responses[number] = "open"

\* The deferred totalCancel, run although the body was handed over.
TotalCanceledOnReturn(c) == IF HandsOverBody THEN TotalReleased(c) ELSE AllReleased(c)
OnReturn(c) == IF HandsOverBody THEN c ELSE AllReleased(c)

Return ==
    /\ pc = "decide" /\ ~Retry(log[number])
    /\ pc' = "returned"
    /\ ctx' = OnReturn(ctx)
    /\ lease' = IF HandsOverBody THEN "attached" ELSE "none"
    /\ UNCHANGED <<policy, number, request, chain, reply, responses, log, history>>

DecideRetry ==
    /\ pc = "decide" /\ Retry(log[number])
    /\ pc' = "discard"
    /\ UNCHANGED <<policy, ctx, number, request, chain, reply, responses, log, lease, history>>

\* drainAndCloseResponse reads a bounded part, or nothing, and always closes.
Discard ==
    /\ pc = "discard"
    /\ pc' = "waiting"
    /\ responses' = [responses EXCEPT ![number] = RejectedBody(@)]
    /\ ctx' = AttemptReleased(ctx)
    /\ UNCHANGED <<policy, number, request, chain, reply, log, lease, history>>

DelayElapses ==
    /\ pc = "waiting"
    /\ pc' = "loop"
    /\ number' = number + 1
    /\ UNCHANGED <<policy, ctx, request, chain, reply, responses, log, lease, history>>

DelayInterrupted ==
    /\ pc = "waiting" /\ Over(TotalCtx)
    /\ ReturnError
    /\ UNCHANGED replay

-----------------------------------------------------------------------------
(***************************************************************************)
(* The response body in the caller's hands.  Whoever is first of Close, a  *)
(* Read or Write error and the end of the attempt's context finishes it    *)
(* (one step here, a sync.Once and a mutex in observedResponseBody).       *)
(***************************************************************************)
FinishBody ==
    /\ lease' = "finished"
    /\ ctx' = AllReleased(ctx)
    /\ UNCHANGED <<policy, pc, number, request, chain, reply, log, history>>

CallerCloses ==
    /\ lease = "attached"
    /\ responses' = [responses EXCEPT ![number] = "closed"]
    /\ FinishBody

CallerReadsToEnd ==
    /\ lease = "attached"
    /\ FinishBody /\ UNCHANGED responses

NoAfterFunc == FALSE
AfterFuncDue == Over(AttemptCtx)

ContextFinishesBody ==
    /\ lease = "attached" /\ AfterFuncDue
    /\ FinishBody /\ UNCHANGED responses

-----------------------------------------------------------------------------
UserCode == Transmit \/ InjectedLate \/ GetBodyReturns \/ CheckRedirect \/ CallbackStops \/ Classify
Statement ==
    \/ StartOperation \/ TotalOver \/ StartAttempt \/ Prepare
    \/ CheckAttempt \/ Return \/ DecideRetry \/ Discard
Timer == TotalExpires \/ AttemptExpires \/ DelayElapses \/ DelayInterrupted
Transport == Respond \/ TransportFails \/ ProposeRedirect

\* The operation is over and nobody holds a body: the only state to stop in.
Quiet == pc = "returned" /\ lease # "attached" /\ UNCHANGED vars

Next ==
    \/ Refuse \/ Statement \/ UserCode \/ Timer \/ Transport \/ TransportGivesUp
    \/ \E cause \in Ended : CallerEnds(cause)
    \/ CallerCloses \/ CallerReadsToEnd \/ ContextFinishesBody
    \/ Quiet

Spec == Init /\ [][Next]_vars

\* Go runs a goroutine that can proceed and fires timers; the contracts of the
\* callbacks and of http.RoundTripper are that they return, the transport at the
\* latest when its context is over.  Callers need not close bodies.
Fairness ==
    /\ WF_vars(Statement) /\ WF_vars(UserCode) /\ WF_vars(TransportGivesUp)
    /\ WF_vars(TotalExpires) /\ WF_vars(AttemptExpires)
    /\ WF_vars(DelayElapses \/ DelayInterrupted)
    /\ WF_vars(ContextFinishesBody)

FairSpec == Spec /\ Fairness

-----------------------------------------------------------------------------
(***************************************************************************)
(* Safety.                                                                 *)
(***************************************************************************)
RepetitionPermitted ==
    \/ policy.safety = "idempotent"
    \/ policy.safety = "default" /\ policy.idempotent

\* Retries and 307/308 redirects, in any combination, transmit an operation with its own
\* method again only if the method is idempotent or the caller said so, and never under
\* RetrySafetyNever: neither a CheckRedirect callback that erases Request.Response nor
\* one that restored the method on an earlier redirect opens these two gates.
RepeatedOnlyIfAuthorized == sent > 1 => RepetitionPermitted

\* The same of every redirect: whatever a permissive CheckRedirect callback does to the
\* upcoming request, an unauthorized method is not transmitted again (docs/usage.md).
\* The code does not keep this: it validates 307 and 308 only, so that a callback which
\* restores Request.Method after a 301, 302 or 303 repeats the operation.
CallbackCannotBypassSafety ==
    pc = "roundTrip" /\ (sent > 1 \/ method = "restored") => RepetitionPermitted

\* Without AllowCrossOrigin no request reaches another origin, whatever redirects
\* servers propose and callbacks rewrite.
OriginRespected == ~strayed

\* Bodies are not lost: while do runs at most the response in hand is open, after it
\* returned only the one whose lifecycle the caller received; and every request body,
\* the caller's and the recreated one, was handed to the transport or closed.
BodiesAccountedFor ==
    /\ \A n \in Attempts : responses[n] = "open" =>
          n = number /\ (pc = "returned" => lease \in {"attached", "finished"})
    /\ pc = "returned" => "held" \notin {original, replay}

\* The contexts last exactly as long as they are needed: after the return they are
\* released unless the caller holds an unfinished body, and as long as the caller does,
\* Clientkit has not canceled them (do.go, cancelTotalOnReturn and release).
ContextsMatchUse ==
    pc = "returned" =>
        IF lease = "attached" THEN "released" \notin {ctx.total, ctx.attempt}
                              ELSE "live" \notin {ctx.total, ctx.attempt}

\* Only attempts that may be repeated have a successor: not accepted ones, not policy
\* failures (classifier panics, refused redirects), not canceled ones.
FinalOutcomesAreFinal ==
    \A n \in Attempts : n < number =>
        log[n].outcome \in {"response_rejected", "timeout", "execution_error"}
        /\ log[n].class # "policy"

\* Whatever do reports after it read its contexts is consistent with them: a result
\* that came in after its context had ended is never recorded as a response.
LateResultsRejected ==
    [][log' # log /\ Over(AttemptCtx) => log'[number].outcome \in Ended]_vars

-----------------------------------------------------------------------------
(***************************************************************************)
(* Liveness: if any timeout is configured, or the caller gives up, the     *)
(* operation returns and what it holds is released, even if the server     *)
(* never answers and the caller never closes the body.                     *)
(***************************************************************************)
Bounded == policy.total \/ policy.attempt \/ ctx.caller # "live"

BoundedExecutionEnds == (Bounded /\ pc # "start") ~> (pc = "returned" /\ lease # "attached")
=============================================================================
