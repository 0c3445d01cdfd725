------------------------ MODULE HttpExecutionProofs ------------------------
(***************************************************************************)
(* Proofs about HttpExecution, for every number of attempts, every         *)
(* redirect limit and every set of policies.                               *)
(***************************************************************************)
EXTENDS HttpExecution, TLAPS

(***************************************************************************)
(* Contexts and types.                                                     *)
(*                                                                         *)
(* Types alone are not inductive: the error of a late result is the        *)
(* attempt's context, which is an error only if Clientkit has not released *)
(* it.  ControlInv says, by program counter, when it may have, and how far *)
(* the two loops, of attempts and of redirects, can be.                    *)
(***************************************************************************)
ControlInv ==
  /\ ctx.total = "released" => pc = "returned" /\ lease # "attached"
  /\ ctx.attempt = "released" =>
        pc \in {"waiting", "loop"} \/ (pc = "returned" /\ lease # "attached")
  /\ pc = "returned" /\ lease # "attached" => ctx.total # "live" /\ ctx.attempt # "live"
  /\ lease # "none" => pc = "returned"
  /\ pc \in {"discard", "waiting"} => number < MaxAttempts
  /\ pc \in {"prepare", "getBody", "inject", "redirect"} => via <= RedirectLimit

ContextInv == TypeOK /\ ControlInv

Contexts == [caller : {"live"} \union Ended,
             total : {"absent", "live", "released"} \union Ended,
             attempt : {"absent", "live", "released"} \union Ended]

LEMMA CtxType == TypeOK => ctx \in Contexts
  BY DEF TypeOK, Contexts

\* Releasing keeps a context well-typed and leaves neither timer running.
LEMMA ReleasedContexts ==
  ASSUME NEW c \in Contexts
  PROVE  /\ AttemptReleased(c) \in Contexts
         /\ AttemptReleased(c).total = c.total
         /\ AttemptReleased(c).attempt # "live"
         /\ AllReleased(c) \in Contexts
         /\ AllReleased(c).total # "live" /\ AllReleased(c).attempt # "live"
<1> DEFINE a == AttemptReleased(c)
<1>1. /\ a \in Contexts /\ a.total = c.total /\ a.attempt # "live"
  BY DEF AttemptReleased, Cancel, Inherit, Contexts, Ended
<1>2. ASSUME NEW x \in Contexts, x.attempt # "live"
      PROVE  /\ TotalReleased(x) \in Contexts
             /\ TotalReleased(x).total # "live" /\ TotalReleased(x).attempt # "live"
  BY <1>2 DEF TotalReleased, Cancel, Inherit, Contexts, Ended
<1> QED
  BY <1>1, <1>2 DEF AllReleased

\* While an attempt uses its context, the context is live or over for a reason.
LEMMA AttemptCtxValue ==
  ASSUME ContextInv, pc \notin {"waiting", "loop", "returned"}
  PROVE  AttemptCtx \in {"live"} \union Ended
  BY DEF ContextInv, TypeOK, ControlInv, AttemptCtx, TotalCtx, Ended

LEMMA TotalCtxValue ==
  ASSUME ContextInv, pc # "returned"
  PROVE  TotalCtx \in {"live"} \union Ended
  BY DEF ContextInv, TypeOK, ControlInv, TotalCtx, Ended

LEMMA ConstantFacts ==
  /\ MaxAttempts \in Nat /\ MaxAttempts >= 1 /\ 1 \in Attempts
  /\ RedirectLimit \in Nat /\ RedirectLimit >= 1
  BY MaxAttemptsAssumption, RedirectLimitAssumption DEF Attempts

LEMMA ContextInit == Init => ContextInv
<1> SUFFICES ASSUME Init PROVE ContextInv
  OBVIOUS
<1>1. /\ ctx \in Contexts /\ number \in Attempts /\ via \in 0..RedirectLimit + 1
      /\ original \in {"absent", "held", "handed", "closed"}
  BY ConstantFacts DEF Init, Contexts, Ended
<1>2. /\ hop \in [preserving : BOOLEAN, target : {"base", "other"}]
      /\ reply \in [err : Errors \union {"none"}, status : Statuses]
  BY DEF Init, NoHop, NoReply, Statuses
<1>3. /\ responses \in [Attempts -> {"none", "empty", "open", "closed"}]
      /\ log \in [Attempts -> [outcome : Outcomes, class : Classes] \union {Unlogged}]
  <2>1. /\ responses = [n \in Attempts |-> "none"]
        /\ log = [n \in Attempts |-> Unlogged]
    BY DEF Init
  <2> QED
    BY <2>1
<1>4. sent \in 0..2 /\ strayed \in BOOLEAN
  <2>1. sent \in 0..2
    BY DEF Init
  <2>2. strayed \in BOOLEAN
    BY Zenon DEF Init
  <2> QED
    BY <2>1, <2>2
<1>5. TypeOK
  BY <1>1, <1>2, <1>3, <1>4 DEF Init, TypeOK, Contexts
<1> QED
  BY <1>5 DEF Init, ContextInv, ControlInv

-----------------------------------------------------------------------------
\* Every failing return releases everything.
LEMMA ReturnErrorInv ==
  ASSUME ContextInv, ReturnError, replay' \in {"absent", "held", "handed", "closed"},
         pc # "returned"
  PROVE  ContextInv'
<1>1. ctx' \in Contexts /\ ctx'.total # "live" /\ ctx'.attempt # "live"
  BY CtxType, ReleasedContexts DEF ContextInv, ReturnError
<1>2. original' \in {"absent", "held", "handed", "closed"}
  BY DEF ReturnError, Closed, ContextInv, TypeOK
<1>3. TypeOK'
  BY <1>1, <1>2 DEF ReturnError, ContextInv, TypeOK, Contexts, chain, history
<1>4. lease = "none"
  BY DEF ContextInv, ControlInv
<1>5. ControlInv'
  BY <1>1, <1>4 DEF ReturnError, ControlInv
<1> QED
  BY <1>3, <1>5 DEF ContextInv

LEMMA DoReturnsInv ==
  ASSUME ContextInv, pc \in {"inject", "roundTrip", "redirect"},
         NEW err \in Errors \union {"none"}, NEW body \in {"none", "empty", "open", "closed"},
         NEW status \in Statuses, DoReturns(err, body, status)
  PROVE  ContextInv'
<1>1. reply' \in [err : Errors \union {"none"}, status : Statuses]
  BY DEF DoReturns
<1>2. responses' \in [Attempts -> {"none", "empty", "open", "closed"}]
  BY DEF DoReturns, ContextInv, TypeOK
<1>3. TypeOK'
  BY <1>1, <1>2 DEF DoReturns, ContextInv, TypeOK, request, chain, history
<1>4. ControlInv'
  BY DEF DoReturns, ContextInv, ControlInv
<1> QED
  BY <1>3, <1>4 DEF ContextInv

LEMMA RecordInv ==
  ASSUME ContextInv, pc \in {"responded", "classify"},
         NEW entry \in [outcome : Outcomes, class : Classes], Record(entry),
         reply' \in [err : Errors \union {"none"}, status : Statuses],
         responses' \in [Attempts -> {"none", "empty", "open", "closed"}]
  PROVE  ContextInv'
<1>1. log' \in [Attempts -> [outcome : Outcomes, class : Classes] \union {Unlogged}]
  BY DEF Record, ContextInv, TypeOK
<1>2. TypeOK'
  BY <1>1 DEF Record, ContextInv, TypeOK, request, chain, history
<1>3. ControlInv'
  BY DEF Record, ContextInv, ControlInv
<1> QED
  BY <1>2, <1>3 DEF ContextInv

LEMMA ClosedType ==
  ASSUME TypeOK
  PROVE  [responses EXCEPT ![number] = RejectedBody(@)]
            \in [Attempts -> {"none", "empty", "open", "closed"}]
  BY DEF TypeOK, RejectedBody, Closed

LEMMA FailureType ==
  ASSUME NEW err \in Errors
  PROVE  /\ Failure(err) \in [outcome : Outcomes, class : Classes]
         /\ err \in Ended => Failure(err).outcome \in Ended
  BY DEF Failure, Errors, Outcomes, Classes, OutcomeOf, ClassOf, Ended

LEMMA LateResultInv ==
  ASSUME ContextInv, pc \in {"responded", "classify"}, Over(AttemptCtx), RejectLateResult
  PROVE  ContextInv' /\ log'[number].outcome \in Ended
<1>1. AttemptCtx \in Ended
  BY AttemptCtxValue DEF Over
<1>2. AttemptCtx \in Errors
  BY <1>1 DEF Errors, Ended
<1>3. ContextInv'
  <2>1. reply' \in [err : Errors \union {"none"}, status : Statuses]
    BY <1>2 DEF RejectLateResult, Statuses
  <2>2. responses' \in [Attempts -> {"none", "empty", "open", "closed"}]
    BY ClosedType DEF RejectLateResult, ContextInv
  <2>3. Record(Failure(AttemptCtx))
    BY DEF RejectLateResult
  <2> QED
    BY <1>2, <2>1, <2>2, <2>3, FailureType, RecordInv
<1>4. log' = [log EXCEPT ![number] = Failure(AttemptCtx)]
  BY DEF RejectLateResult, Record
<1> QED
  BY <1>1, <1>2, <1>3, <1>4, FailureType DEF ContextInv, TypeOK

-----------------------------------------------------------------------------
(***************************************************************************)
(* One case per action.                                                    *)
(***************************************************************************)
LEMMA ContextEnvironment ==
  ASSUME ContextInv, NEW cause \in Ended, CallerEnds(cause) \/ TotalExpires \/ AttemptExpires
  PROVE  ContextInv'
<1>1. ctx \in Contexts
  BY CtxType DEF ContextInv
<1>2. ctx' \in Contexts
  <2>1. CASE CallerEnds(cause)
    BY <1>1, <2>1 DEF CallerEnds, Inherit, Contexts, Ended
  <2>2. CASE TotalExpires
    BY <1>1, <2>2 DEF TotalExpires, Inherit, Contexts, Ended
  <2>3. CASE AttemptExpires
    BY <1>1, <2>3 DEF AttemptExpires, Contexts, Ended
  <2> QED
    BY <2>1, <2>2, <2>3
<1>3. /\ ctx'.total = "released" <=> ctx.total = "released"
      /\ ctx'.attempt = "released" <=> ctx.attempt = "released"
      /\ ctx.total # "live" => ctx'.total # "live"
      /\ ctx.attempt # "live" => ctx'.attempt # "live"
  <2>1. CASE CallerEnds(cause)
    BY <1>1, <2>1 DEF CallerEnds, Inherit, Contexts, Ended
  <2>2. CASE TotalExpires
    BY <1>1, <2>2 DEF TotalExpires, Inherit, Contexts, Ended
  <2>3. CASE AttemptExpires
    BY <1>1, <2>3 DEF AttemptExpires, Contexts, Ended
  <2> QED
    BY <2>1, <2>2, <2>3
<1>4. UNCHANGED <<policy, pc, number, request, chain, reply, responses, log, lease, history>>
  BY DEF CallerEnds, TotalExpires, AttemptExpires
<1>5. TypeOK'
  BY <1>2, <1>4 DEF ContextInv, TypeOK, Contexts, request, chain, history
<1>6. ControlInv'
  BY <1>3, <1>4 DEF ContextInv, ControlInv, chain
<1> QED
  BY <1>5, <1>6 DEF ContextInv

LEMMA ContextBeforeAttempt ==
  ASSUME ContextInv, Refuse \/ StartOperation \/ TotalOver \/ StartAttempt \/ Prepare \/ GetBodyReturns
  PROVE  ContextInv'
<1> USE DEF request, chain, history
<1>1. CASE Refuse
  BY <1>1, ReturnErrorInv DEF Refuse, ContextInv, TypeOK
<1>2. CASE StartOperation
  <2>1. ctx' \in Contexts /\ ctx'.total # "released" /\ ctx'.attempt = ctx.attempt
    BY <1>2, CtxType DEF StartOperation, ContextInv, Contexts, Ended
  <2>2. ControlInv'
    BY <1>2, <2>1 DEF StartOperation, ContextInv, ControlInv
  <2>3. TypeOK'
    BY <1>2, <2>1 DEF StartOperation, ContextInv, TypeOK, Contexts
  <2> QED
    BY <2>2, <2>3 DEF ContextInv
<1>3. CASE TotalOver
  BY <1>3, ReturnErrorInv DEF TotalOver, ContextInv, TypeOK
<1>4. CASE StartAttempt
  <2>1. TotalCtx \in {"live"} \union Ended
    BY <1>4, TotalCtxValue DEF StartAttempt
  <2>2. ctx' \in Contexts /\ ctx'.total = ctx.total /\ ctx'.attempt # "released"
    BY <1>4, <2>1, CtxType DEF StartAttempt, ContextInv, Contexts, Ended
  <2>3. ControlInv'
    BY <1>4, <2>2, ConstantFacts DEF StartAttempt, ContextInv, ControlInv
  <2>4. /\ hop' \in [preserving : BOOLEAN, target : {"base", "other"}]
        /\ reply' \in [err : Errors \union {"none"}, status : Statuses]
    BY <1>4 DEF StartAttempt, NoHop, NoReply, Statuses
  <2>5. TypeOK'
    BY <1>4, <2>2, <2>4, ConstantFacts DEF StartAttempt, ContextInv, TypeOK, Contexts
  <2> QED
    BY <2>3, <2>5 DEF ContextInv
<1>5. CASE Prepare
  <2>1. CASE ReturnError
    BY <1>5, <2>1, ReturnErrorInv DEF Prepare, ContextInv, TypeOK
  <2>2. CASE ~ReturnError
    <3>1. /\ pc' \in {"inject", "getBody"} /\ pc = "prepare"
          /\ original' \in {"absent", "held", "handed", "closed"}
          /\ UNCHANGED <<policy, ctx, number, chain, reply, responses, log, lease, history, replay>>
      BY <1>5, <2>2 DEF Prepare, ContextInv, TypeOK
    <3> QED
      BY <3>1 DEF ContextInv, TypeOK, ControlInv
  <2> QED
    BY <2>1, <2>2
<1>6. CASE GetBodyReturns
  <2>1. PICK body \in {"absent", "held"}, failed \in BOOLEAN :
          IF Over(AttemptCtx) \/ failed \/ body = "absent"
          THEN replay' = LateBody(body) /\ ReturnError
          ELSE /\ replay' = "handed" /\ pc' = "inject"
               /\ UNCHANGED <<policy, ctx, number, original, chain, reply, responses, log,
                              lease, history>>
    BY <1>6 DEF GetBodyReturns
  <2>2. CASE Over(AttemptCtx) \/ failed \/ body = "absent"
    BY <1>6, <2>1, <2>2, ReturnErrorInv DEF GetBodyReturns, LateBody, Closed
  <2>3. CASE ~(Over(AttemptCtx) \/ failed \/ body = "absent")
    BY <1>6, <2>1, <2>3 DEF GetBodyReturns, ContextInv, TypeOK, ControlInv
  <2> QED
    BY <2>2, <2>3
<1> QED
  BY <1>1, <1>2, <1>3, <1>4, <1>5, <1>6

LEMMA ContextDo ==
  ASSUME ContextInv,
         \/ Transmit \/ InjectedLate \/ Respond \/ TransportFails \/ TransportGivesUp
         \/ ProposeRedirect \/ CheckRedirect \/ CallbackStops
  PROVE  ContextInv'
<1> USE DEF request, chain, history
<1>1. Over(AttemptCtx) /\ pc \in {"inject", "roundTrip"} => AttemptCtx \in Errors
  BY AttemptCtxValue DEF Over, Errors, Ended
<1>2. /\ "none" \in Errors \union {"none"} /\ "refused" \in Errors
      /\ "other" \in Statuses /\ Errors \ {"refused"} \subseteq Errors
  BY DEF Errors, Statuses
<1>3. CASE Transmit
  <2>1. via' \in 0..RedirectLimit + 1
    BY <1>3, ConstantFacts DEF Transmit, ContextInv, TypeOK, ControlInv
  <2> QED
    BY <1>3, <2>1 DEF Transmit, ContextInv, TypeOK, ControlInv
<1>4. CASE InjectedLate
  BY <1>1, <1>2, <1>4, DoReturnsInv DEF InjectedLate
<1>5. CASE Respond
  <2>1. PICK body \in {"empty", "open"}, status \in Statuses :
          IF Over(AttemptCtx) THEN DoReturns(AttemptCtx, Closed(body), "other")
                              ELSE DoReturns("none", body, status)
    BY <1>5 DEF Respond
  <2>2. Closed(body) \in {"none", "empty", "open", "closed"}
    BY DEF Closed
  <2> QED
    BY <1>1, <1>2, <1>5, <2>1, <2>2, DoReturnsInv DEF Respond
<1>6. CASE TransportFails
  BY <1>2, <1>6, DoReturnsInv DEF TransportFails
<1>7. CASE TransportGivesUp
  BY <1>1, <1>2, <1>7, DoReturnsInv DEF TransportGivesUp
<1>8. CASE ProposeRedirect
  BY <1>8 DEF ProposeRedirect, ContextInv, TypeOK, ControlInv
<1>9. CASE CheckRedirect
  <2>1. PICK erased \in BOOLEAN, rewritten \in {"base", "other"}, wanted \in {"original", "get"} :
          /\ policy.callback \/ wanted = UpcomingMethod
          /\ IF MayFollow(erased, rewritten, wanted)
             THEN /\ pc' = "inject" /\ method' = Requested(wanted) /\ target' = rewritten
                  /\ hop' = NoHop
                  /\ UNCHANGED <<policy, ctx, number, request, via, reply, responses, log,
                                 lease, history>>
             ELSE DoReturns("refused", "closed", "other")
    BY <1>9 DEF CheckRedirect
  <2>2. CASE MayFollow(erased, rewritten, wanted)
    <3>1. /\ pc = "redirect" /\ pc' = "inject" /\ target' = rewritten /\ hop' = NoHop
          /\ method' = Requested(wanted)
          /\ UNCHANGED <<policy, ctx, number, request, via, reply, responses, log, lease, history>>
      BY <1>9, <2>1, <2>2 DEF CheckRedirect
    <3>2. hop' \in [preserving : BOOLEAN, target : {"base", "other"}]
      BY <3>1 DEF NoHop
    <3>3. method' \in {"original", "get", "restored"} /\ target' \in {"base", "other"}
      BY <3>1 DEF Requested
    <3>4. TypeOK'
      BY <3>1, <3>2, <3>3 DEF ContextInv, TypeOK
    <3>5. ControlInv'
      BY <3>1 DEF ContextInv, ControlInv
    <3> QED
      BY <3>4, <3>5 DEF ContextInv
  <2>3. CASE ~MayFollow(erased, rewritten, wanted)
    BY <1>2, <1>9, <2>1, <2>3, DoReturnsInv DEF CheckRedirect
  <2> QED
    BY <2>2, <2>3
<1>10. CASE CallbackStops
  BY <1>2, <1>10, DoReturnsInv DEF CallbackStops
<1> QED
  BY <1>3, <1>4, <1>5, <1>6, <1>7, <1>8, <1>9, <1>10

LEMMA ContextAfterDo ==
  ASSUME ContextInv, CheckAttempt \/ Classify
  PROVE  ContextInv'
<1> USE DEF request, chain, history
<1>1. CASE (pc = "responded" \/ pc = "classify") /\ Over(AttemptCtx) /\ RejectLateResult
  BY <1>1, LateResultInv
<1>2. CASE /\ pc = "responded" /\ reply.err # "none" /\ Record(Failure(reply.err))
           /\ UNCHANGED <<reply, responses>>
  <2>1. reply.err \in Errors
    BY <1>2 DEF ContextInv, TypeOK
  <2>2. /\ reply' \in [err : Errors \union {"none"}, status : Statuses]
        /\ responses' \in [Attempts -> {"none", "empty", "open", "closed"}]
    BY <1>2 DEF ContextInv, TypeOK
  <2> QED
    BY <1>2, <2>1, <2>2, FailureType, RecordInv
<1>3. CASE /\ pc = "responded" /\ pc' = "classify"
           /\ UNCHANGED <<policy, ctx, number, request, chain, reply, responses, log, lease,
                          history>>
  BY <1>3 DEF ContextInv, TypeOK, ControlInv
<1>4. CASE /\ pc = "classify" /\ UNCHANGED <<reply, responses>>
           /\ \E verdict \in Verdicts : Record(Classified(verdict))
  <2>1. PICK verdict \in Verdicts : Record(Classified(verdict))
    BY <1>4
  <2>2. Classified(verdict) \in [outcome : Outcomes, class : Classes]
    BY DEF Classified, Verdicts, Outcomes, Classes
  <2>3. /\ reply' \in [err : Errors \union {"none"}, status : Statuses]
        /\ responses' \in [Attempts -> {"none", "empty", "open", "closed"}]
    BY <1>4 DEF ContextInv, TypeOK
  <2> QED
    BY <1>4, <2>1, <2>2, <2>3, RecordInv
<1> QED
  BY <1>1, <1>2, <1>3, <1>4 DEF CheckAttempt, Classify, VerdictTooLate

LEMMA ContextAfterAttempt ==
  ASSUME ContextInv, Return \/ DecideRetry \/ Discard \/ DelayElapses \/ DelayInterrupted
  PROVE  ContextInv'
<1> USE DEF request, chain, history
<1>1. CASE Return
  <2>1. ctx \in Contexts /\ ctx' = OnReturn(ctx) /\ pc = "decide" /\ pc' = "returned"
    BY <1>1, CtxType DEF Return, ContextInv
  <2>2. ctx' \in Contexts
    BY <2>1, ReleasedContexts DEF OnReturn
  <2>3. IF HandsOverBody THEN ctx' = ctx ELSE ctx'.total # "live" /\ ctx'.attempt # "live"
    BY <2>1, ReleasedContexts DEF OnReturn
  <2>4. ControlInv'
    BY <1>1, <2>1, <2>3 DEF Return, ContextInv, ControlInv
  <2>5. TypeOK'
    BY <1>1, <2>2 DEF Return, ContextInv, TypeOK, Contexts
  <2> QED
    BY <2>4, <2>5 DEF ContextInv
<1>2. CASE DecideRetry
  BY <1>2 DEF DecideRetry, Retry, ContextInv, TypeOK, ControlInv
<1>3. CASE Discard
  <2>1. ctx' \in Contexts /\ ctx'.total = ctx.total
    BY <1>3, CtxType, ReleasedContexts DEF Discard, ContextInv
  <2>2. ControlInv'
    BY <1>3, <2>1 DEF Discard, ContextInv, ControlInv
  <2>3. responses' \in [Attempts -> {"none", "empty", "open", "closed"}]
    BY <1>3, ClosedType DEF Discard, ContextInv
  <2>4. TypeOK'
    BY <1>3, <2>1, <2>3 DEF Discard, ContextInv, TypeOK, Contexts
  <2> QED
    BY <2>2, <2>4 DEF ContextInv
<1>4. CASE DelayElapses
  <2>1. number' \in Attempts
    BY <1>4, ConstantFacts DEF DelayElapses, ContextInv, TypeOK, ControlInv, Attempts
  <2> QED
    BY <1>4, <2>1 DEF DelayElapses, ContextInv, TypeOK, ControlInv
<1>5. CASE DelayInterrupted
  BY <1>5, ReturnErrorInv DEF DelayInterrupted, ContextInv, TypeOK
<1> QED
  BY <1>1, <1>2, <1>3, <1>4, <1>5

LEMMA ContextBody ==
  ASSUME ContextInv, CallerCloses \/ CallerReadsToEnd \/ ContextFinishesBody
  PROVE  ContextInv'
<1> USE DEF request, chain, history
<1>1. /\ lease = "attached" /\ lease' = "finished" /\ ctx' = AllReleased(ctx)
      /\ UNCHANGED <<policy, pc, number, request, chain, reply, log, history>>
  BY DEF CallerCloses, CallerReadsToEnd, ContextFinishesBody, FinishBody
<1>2. ctx' \in Contexts /\ ctx'.total # "live" /\ ctx'.attempt # "live"
  BY <1>1, CtxType, ReleasedContexts DEF ContextInv
<1>3. responses' \in [Attempts -> {"none", "empty", "open", "closed"}]
  BY DEF CallerCloses, CallerReadsToEnd, ContextFinishesBody, ContextInv, TypeOK
<1>4. TypeOK'
  BY <1>1, <1>2, <1>3 DEF ContextInv, TypeOK, Contexts
<1>5. ControlInv'
  BY <1>1, <1>2 DEF ContextInv, ControlInv
<1> QED
  BY <1>4, <1>5 DEF ContextInv

LEMMA ContextUnchanged ==
  ASSUME ContextInv, UNCHANGED vars
  PROVE  ContextInv'
BY DEF ContextInv, TypeOK, ControlInv, vars, request, chain, history

\* The groups of Next, one disjunct each.
Environment == TotalExpires \/ AttemptExpires \/ \E cause \in Ended : CallerEnds(cause)
BeforeAttempt == Refuse \/ StartOperation \/ TotalOver \/ StartAttempt \/ Prepare \/ GetBodyReturns
InDo == \/ Transmit \/ InjectedLate \/ Respond \/ TransportFails \/ TransportGivesUp
        \/ ProposeRedirect \/ CheckRedirect \/ CallbackStops
AfterDo == CheckAttempt \/ Classify
AfterAttempt == Return \/ DecideRetry \/ Discard \/ DelayElapses \/ DelayInterrupted
BodySteps == CallerCloses \/ CallerReadsToEnd \/ ContextFinishesBody

LEMMA NextCases ==
  ASSUME [Next]_vars
  PROVE  Environment \/ BeforeAttempt \/ InDo \/ AfterDo \/ AfterAttempt \/ BodySteps
         \/ UNCHANGED vars
BY DEF Next, Statement, UserCode, Timer, Transport, Quiet, Environment, BeforeAttempt, InDo,
       AfterDo, AfterAttempt, BodySteps

LEMMA ContextStep ==
  ASSUME ContextInv, [Next]_vars
  PROVE  ContextInv'
<1>1. CASE Environment
  <2>1. "canceled" \in Ended
    BY DEF Ended
  <2> QED
    BY <1>1, <2>1, ContextEnvironment DEF Environment
<1>2. CASE BeforeAttempt
  BY <1>2, ContextBeforeAttempt DEF BeforeAttempt
<1>3. CASE InDo
  BY <1>3, ContextDo DEF InDo
<1>4. CASE AfterDo
  BY <1>4, ContextAfterDo DEF AfterDo
<1>5. CASE AfterAttempt
  BY <1>5, ContextAfterAttempt DEF AfterAttempt
<1>6. CASE BodySteps
  BY <1>6, ContextBody DEF BodySteps
<1> QED
  BY <1>1, <1>2, <1>3, <1>4, <1>5, <1>6, NextCases, ContextUnchanged

\* The values of every variable of do stay in their types, and what the program
\* counter says of the contexts, the lease and the two loops is always so.
THEOREM ContextInvariant == Spec => []ContextInv
<1>1. ContextInv /\ [Next]_vars => ContextInv'
  BY ContextStep
<1> QED
  BY ContextInit, <1>1, PTL DEF Spec

\* Client.do's state is well-typed.
THEOREM TypeCorrect == Spec => []TypeOK
<1>1. ContextInv => TypeOK
  BY DEF ContextInv
<1> QED
  BY ContextInvariant, <1>1, PTL

\* cancelTotalOnReturn and the attempt's release run exactly when the result does not
\* hand a body to the caller, or once that body is finished.
THEOREM ContextsReleased == Spec => []ContextsMatchUse
<1>1. ContextInv => ContextsMatchUse
  BY DEF ContextInv, ControlInv, ContextsMatchUse
<1> QED
  BY ContextInvariant, <1>1, PTL

-----------------------------------------------------------------------------
(***************************************************************************)
(* Frames: the policy is fixed, only a transmission changes the history,   *)
(* only the two readings of the attempt's context write the log.           *)
(***************************************************************************)
LEMMA ReturnErrorFrame ==
  ASSUME ReturnError
  PROVE  UNCHANGED <<policy, log, sent, strayed, target, method, number>>
BY DEF ReturnError, chain, history

LEMMA DoReturnsFrame ==
  ASSUME NEW err, NEW body, NEW status, DoReturns(err, body, status)
  PROVE  /\ UNCHANGED <<policy, log, sent, strayed, target, method, number>>
         /\ pc' = "responded"
BY DEF DoReturns, chain, history

LEMMA EnvironmentFrame ==
  ASSUME Environment
  PROVE  UNCHANGED <<policy, pc, number, request, chain, reply, responses, log, lease, history>>
BY DEF Environment, TotalExpires, AttemptExpires, CallerEnds

LEMMA BeforeAttemptFrame ==
  ASSUME BeforeAttempt
  PROVE  UNCHANGED <<policy, log, sent, strayed, number>> /\ method' \in {method, "original"}
<1> USE DEF chain, history
<1>1. CASE Refuse \/ TotalOver
  BY <1>1, ReturnErrorFrame DEF Refuse, TotalOver
<1>2. CASE StartOperation \/ StartAttempt
  BY <1>2 DEF StartOperation, StartAttempt
<1>3. CASE Prepare
  BY <1>3, ReturnErrorFrame DEF Prepare
<1>4. CASE GetBodyReturns
  BY <1>4, ReturnErrorFrame DEF GetBodyReturns
<1> QED
  BY <1>1, <1>2, <1>3, <1>4 DEF BeforeAttempt

\* A step inside Do ends Do, transmits, waits for CheckRedirect or follows a redirect.
LEMMA InDoCases ==
  ASSUME InDo
  PROVE  /\ UNCHANGED <<policy, log, number>>
         /\ \/ Transmit
            \/ /\ pc' = "responded" /\ UNCHANGED <<sent, strayed, target, method>>
            \/ /\ pc' = "redirect" /\ UNCHANGED <<sent, strayed, target, method>>
            \/ /\ pc = "redirect" /\ pc' = "inject" /\ UNCHANGED <<sent, strayed>>
               /\ \E erased \in BOOLEAN, wanted \in {"original", "get"} :
                     /\ policy.callback \/ wanted = UpcomingMethod
                     /\ MayFollow(erased, target', wanted)
                     /\ method' = Requested(wanted)
<1> USE DEF chain, history
<1>1. CASE Transmit
  BY <1>1 DEF Transmit
<1>2. CASE InjectedLate \/ Respond \/ TransportFails \/ TransportGivesUp \/ CallbackStops
  BY <1>2, DoReturnsFrame DEF InjectedLate, Respond, TransportFails, TransportGivesUp, CallbackStops
<1>3. CASE ProposeRedirect
  BY <1>3 DEF ProposeRedirect
<1>4. CASE CheckRedirect
  <2>1. PICK erased \in BOOLEAN, rewritten \in {"base", "other"}, wanted \in {"original", "get"} :
          /\ policy.callback \/ wanted = UpcomingMethod
          /\ IF MayFollow(erased, rewritten, wanted)
             THEN /\ pc' = "inject" /\ method' = Requested(wanted) /\ target' = rewritten
                  /\ hop' = NoHop
                  /\ UNCHANGED <<policy, ctx, number, request, via, reply, responses, log,
                                 lease, history>>
             ELSE DoReturns("refused", "closed", "other")
    BY <1>4 DEF CheckRedirect
  <2>2. CASE MayFollow(erased, rewritten, wanted)
    <3>1. /\ pc' = "inject" /\ method' = Requested(wanted) /\ target' = rewritten
          /\ UNCHANGED <<policy, log, number, sent, strayed>>
      BY <2>1, <2>2
    <3>2. MayFollow(erased, target', wanted) /\ pc = "redirect"
      BY <1>4, <2>2, <3>1 DEF CheckRedirect
    <3> QED
      BY <2>1, <3>1, <3>2
  <2>3. CASE ~MayFollow(erased, rewritten, wanted)
    BY <2>1, <2>3, DoReturnsFrame
  <2> QED
    BY <2>2, <2>3
<1> QED
  BY <1>1, <1>2, <1>3, <1>4 DEF InDo

LEMMA AfterDoFrame ==
  ASSUME AfterDo
  PROVE  /\ UNCHANGED <<policy, number, sent, strayed, target, method>>
         /\ pc' \in {"classify", "decide"}
<1> QED
  BY DEF AfterDo, CheckAttempt, Classify, RejectLateResult, Record, chain, history

LEMMA AfterAttemptFrame ==
  ASSUME AfterAttempt
  PROVE  UNCHANGED <<policy, log, sent, strayed, target, method>>
<1>1. CASE DelayInterrupted
  BY <1>1, ReturnErrorFrame DEF DelayInterrupted
<1>2. CASE Return \/ DecideRetry \/ Discard \/ DelayElapses
  BY <1>2 DEF Return, DecideRetry, Discard, DelayElapses, chain, history
<1> QED
  BY <1>1, <1>2 DEF AfterAttempt

LEMMA BodyFrame ==
  ASSUME BodySteps
  PROVE  UNCHANGED <<policy, pc, number, request, chain, reply, log, history>>
BY DEF BodySteps, CallerCloses, CallerReadsToEnd, ContextFinishesBody, FinishBody

LEMMA PolicyFixed == [Next]_vars => policy' = policy
BY NextCases, EnvironmentFrame, BeforeAttemptFrame, InDoCases, AfterDoFrame, AfterAttemptFrame,
   BodyFrame DEF vars

-----------------------------------------------------------------------------
(***************************************************************************)
(* Late results.                                                           *)
(***************************************************************************)
LEMMA LateStep ==
  ASSUME ContextInv, [Next]_vars, log' # log, Over(AttemptCtx)
  PROVE  log'[number].outcome \in Ended
<1>1. AfterDo
  BY NextCases, EnvironmentFrame, BeforeAttemptFrame, InDoCases, AfterAttemptFrame, BodyFrame
     DEF vars
<1>2. pc \in {"responded", "classify"} /\ RejectLateResult
  BY <1>1 DEF AfterDo, CheckAttempt, Classify, VerdictTooLate
<1> QED
  BY <1>2, LateResultInv

\* Whatever Do answered or the classifier said, an attempt whose context had ended when
\* do read it again is recorded as timed out or canceled.
THEOREM LateResultsAreRejected == Spec => LateResultsRejected
<1>1. ContextInv /\ [Next]_vars => [log' # log /\ Over(AttemptCtx) => log'[number].outcome \in Ended]_vars
  BY LateStep
<1> QED
  BY ContextInvariant, <1>1, PTL DEF Spec, LateResultsRejected

-----------------------------------------------------------------------------
(***************************************************************************)
(* The origin policy: a request on its way to another origin is permitted. *)
(***************************************************************************)
OriginInv == ~strayed /\ (target # "base" => policy.crossOrigin)

LEMMA OriginStep ==
  ASSUME OriginInv, [Next]_vars
  PROVE  OriginInv'
<1> USE DEF chain, history
<1>1. policy' = policy
  BY PolicyFixed
<1>2. CASE Transmit
  BY <1>1, <1>2, Zenon DEF OriginInv, Transmit
<1>3. CASE UNCHANGED <<strayed, target>>
  BY <1>1, <1>3, Zenon DEF OriginInv
<1>4. CASE strayed' = strayed /\ (target' = "base" \/ policy.crossOrigin)
  BY <1>1, <1>4, Zenon DEF OriginInv
<1>5. CASE BeforeAttempt
  <2>1. CASE StartAttempt
    BY <1>4, <1>5, <2>1, BeforeAttemptFrame DEF StartAttempt
  <2>2. CASE Refuse \/ TotalOver \/ StartOperation \/ Prepare \/ GetBodyReturns
    BY <1>3, <2>2, ReturnErrorFrame
       DEF Refuse, TotalOver, StartOperation, Prepare, GetBodyReturns
  <2> QED
    BY <1>5, <2>1, <2>2 DEF BeforeAttempt
<1>6. CASE InDo
  <2>1. ASSUME NEW erased \in BOOLEAN, NEW wanted, MayFollow(erased, target', wanted)
        PROVE  target' = "base" \/ policy.crossOrigin
    BY <2>1 DEF MayFollow, OriginToValidate
  <2> QED
    BY <1>2, <1>3, <1>4, <1>6, <2>1, InDoCases
<1> QED
  BY <1>3, <1>5, <1>6, NextCases, EnvironmentFrame, AfterDoFrame, AfterAttemptFrame, BodyFrame
     DEF vars

\* Without AllowCrossOrigin no chain of redirects, rewritten by any callback, makes
\* Clientkit send a request to another origin.
THEOREM OriginIsRespected == Spec => []OriginRespected
<1>1. Init => OriginInv
  BY Zenon DEF Init, OriginInv
<1>2. OriginInv /\ [Next]_vars => OriginInv'
  BY OriginStep
<1>3. OriginInv => OriginRespected
  BY Zenon DEF OriginInv, OriginRespected
<1> QED
  BY <1>1, <1>2, <1>3, PTL DEF Spec

-----------------------------------------------------------------------------
(***************************************************************************)
(* Proofs of what the retry gates and the redirect policy of HttpExecution *)
(* guarantee together: which attempts have a successor, how often the      *)
(* original method is transmitted, and where every body ends.              *)
(***************************************************************************)

(***************************************************************************)
(* Repeated transmissions.  Three paths lead to a second one: a retry, a   *)
(* redirect that preserves the method and a callback that restores it.     *)
(* The invariant says that whoever is on one of the first two after a      *)
(* first transmission has passed the same gate, and that nobody is on the  *)
(* third without a callback.                                               *)
(***************************************************************************)
BetweenAttempts == {"start", "loop", "prepare", "getBody", "discard", "waiting"}
MayRepeat == sent = 0 \/ Authorized("original")

RepeatInv ==
  /\ sent > 1 => Authorized("original")
  /\ pc \in BetweenAttempts => MayRepeat
  /\ pc = "inject" /\ method = "original" => MayRepeat
  /\ method = "restored" => policy.callback

LEMMA AuthorizedUnchanged ==
  ASSUME policy' = policy
  PROVE  Authorized("original")' <=> Authorized("original")
BY DEF Authorized

LEMMA RepeatInDo ==
  ASSUME TypeOK, RepeatInv, InDo
  PROVE  RepeatInv'
<1>1. policy' = policy
  BY InDoCases
<1>2. CASE Transmit
  <2>1. /\ pc = "inject" /\ pc' = "roundTrip" /\ sent \in Nat
        /\ sent' = IF method = "original" /\ sent < 2 THEN sent + 1 ELSE sent
        /\ method' = method
    BY <1>2 DEF Transmit, TypeOK
  <2>2. sent' > 1 => Authorized("original")
    BY <2>1 DEF RepeatInv, MayRepeat
  <2> QED
    BY <1>1, <2>1, <2>2, AuthorizedUnchanged DEF RepeatInv, BetweenAttempts
<1>3. CASE pc' \in {"responded", "redirect"} /\ sent' = sent /\ method' = method
  BY <1>1, <1>3, AuthorizedUnchanged DEF RepeatInv, BetweenAttempts
<1>4. ASSUME NEW erased \in BOOLEAN, NEW wanted \in {"original", "get"},
             policy.callback \/ wanted = UpcomingMethod,
             MayFollow(erased, target', wanted),
             pc' = "inject", sent' = sent, method' = Requested(wanted)
      PROVE  RepeatInv'
  <2>1. method' = "original" => hop.preserving /\ wanted = "original"
    BY <1>4 DEF Requested
  <2>2. method' = "original" => Authorized("original")
    BY <1>4, <2>1 DEF MayFollow, Preserves
  <2>3. method' = "restored" => policy.callback
    BY <1>4 DEF Requested, UpcomingMethod
  <2> QED
    BY <1>1, <1>4, <2>2, <2>3, AuthorizedUnchanged DEF RepeatInv, MayRepeat, BetweenAttempts
<1> QED
  BY <1>2, <1>3, <1>4, InDoCases

LEMMA RepeatStep ==
  ASSUME TypeOK, RepeatInv, [Next]_vars
  PROVE  RepeatInv'
<1> USE DEF request, chain, history
<1>1. policy' = policy
  BY PolicyFixed
<1>2. CASE /\ sent' = sent /\ pc' \notin BetweenAttempts \union {"inject"}
           /\ method' = method
  BY <1>1, <1>2, AuthorizedUnchanged DEF RepeatInv
<1>3. CASE sent' = sent /\ pc \in BetweenAttempts /\ method' \in {method, "original"}
  BY <1>1, <1>3, AuthorizedUnchanged DEF RepeatInv, MayRepeat
<1>4. CASE UNCHANGED <<sent, pc, method>>
  BY <1>1, <1>4, AuthorizedUnchanged DEF RepeatInv, MayRepeat
<1>5. CASE BeforeAttempt
  <2>1. pc \in BetweenAttempts
    BY <1>5 DEF BeforeAttempt, BetweenAttempts, Refuse, StartOperation, TotalOver, StartAttempt,
                Prepare, GetBodyReturns
  <2> QED
    BY <1>3, <1>5, <2>1, BeforeAttemptFrame
<1>6. CASE AfterDo
  BY <1>2, <1>6, AfterDoFrame DEF BetweenAttempts
<1>7. CASE AfterAttempt
  <2>1. CASE Return
    BY <1>2, <2>1 DEF Return, BetweenAttempts
  <2>2. CASE DecideRetry
    <3>1. Authorized("original") /\ pc' = "discard" /\ sent' = sent /\ method' = method
      BY <2>2 DEF DecideRetry, Retry
    <3> QED
      BY <1>1, <3>1, AuthorizedUnchanged DEF RepeatInv, MayRepeat
  <2>3. CASE Discard \/ DelayElapses \/ DelayInterrupted
    <3>1. pc \in BetweenAttempts
      BY <2>3 DEF Discard, DelayElapses, DelayInterrupted, BetweenAttempts
    <3> QED
      BY <1>3, <1>7, <3>1, AfterAttemptFrame
  <2> QED
    BY <1>7, <2>1, <2>2, <2>3 DEF AfterAttempt
<1>8. CASE InDo
  BY <1>8, RepeatInDo
<1> QED
  BY <1>4, <1>5, <1>6, <1>7, <1>8, NextCases, EnvironmentFrame, BodyFrame DEF vars

LEMMA RepeatInvariant == Spec => []RepeatInv
<1>1. Init => RepeatInv
  BY DEF Init, RepeatInv, MayRepeat
<1>2. TypeOK /\ RepeatInv /\ [Next]_vars => RepeatInv'
  BY RepeatStep
<1> QED
  BY TypeCorrect, <1>1, <1>2, PTL DEF Spec

\* However retries, 307 or 308 redirects and callbacks that restore the method combine,
\* the gates of do and validateRedirectReplay transmit the original method twice only if
\* RetrySafety and the method permit it.
THEOREM RepetitionIsAuthorized == Spec => []RepeatedOnlyIfAuthorized
<1>1. RepeatInv => RepeatedOnlyIfAuthorized
  BY DEF RepeatInv, RepeatedOnlyIfAuthorized, RepetitionPermitted, Authorized
<1> QED
  BY <1>1, RepeatInvariant, PTL

\* Without a caller's CheckRedirect the documented guarantee holds of every redirect: the
\* callback that restores Request.Method is the only way around validateRedirectReplay.
THEOREM OnlyCallbacksBypassSafety == Spec => [](policy.callback \/ CallbackCannotBypassSafety)
<1>1. RepeatInv => policy.callback \/ CallbackCannotBypassSafety
  BY DEF RepeatInv, CallbackCannotBypassSafety, RepetitionPermitted, Authorized
<1> QED
  BY <1>1, RepeatInvariant, PTL

-----------------------------------------------------------------------------
(***************************************************************************)
(* Final outcomes.  The gates let an attempt through to the delay only if  *)
(* its entry is repeatable; the next attempt begins only after the delay.  *)
(***************************************************************************)
Repeatable(entry) ==
  /\ entry.outcome \in {"response_rejected", "timeout", "execution_error"}
  /\ entry.class # "policy"

FinalInv ==
  /\ \A n \in Attempts : n < number => Repeatable(log[n])
  /\ pc \in {"discard", "waiting"} => Repeatable(log[number])

LEMMA FinalStep ==
  ASSUME TypeOK, FinalInv, [Next]_vars
  PROVE  FinalInv'
<1> USE DEF request, chain, history
<1>1. CASE UNCHANGED <<log, number>> /\ pc' \notin {"discard", "waiting"}
  BY <1>1 DEF FinalInv
<1>2. CASE UNCHANGED <<log, number, pc>>
  BY <1>2 DEF FinalInv
<1>3. CASE BeforeAttempt
  <2>1. pc' \in {"loop", "prepare", "getBody", "inject", "returned"}
    BY <1>3 DEF BeforeAttempt, Refuse, StartOperation, TotalOver, StartAttempt, Prepare,
                GetBodyReturns, ReturnError
  <2> QED
    BY <1>1, <1>3, <2>1, BeforeAttemptFrame
<1>4. CASE InDo
  <2>1. pc' \in {"roundTrip", "responded", "redirect", "inject"}
    BY <1>4, InDoCases DEF Transmit
  <2> QED
    BY <1>1, <1>4, <2>1, InDoCases
<1>5. CASE AfterDo
  <2>1. \A n \in Attempts : n # number => log'[n] = log[n]
    BY <1>5 DEF AfterDo, CheckAttempt, Classify, RejectLateResult, Record, TypeOK
  <2>2. \A n \in Attempts : n < number => n # number
    BY DEF TypeOK, Attempts
  <2> QED
    BY <1>5, <2>1, <2>2, AfterDoFrame DEF FinalInv
<1>6. CASE AfterAttempt
  <2>1. CASE Return
    BY <1>1, <2>1 DEF Return
  <2>2. CASE DecideRetry
    <3>1. /\ pc' = "discard" /\ UNCHANGED <<log, number>>
          /\ log[number].class # "policy" /\ ShouldRetry(log[number])
      BY <2>2 DEF DecideRetry, Retry
    <3>2. Repeatable(log[number])
      BY <3>1 DEF ShouldRetry, Repeatable
    <3> QED
      BY <3>1, <3>2 DEF FinalInv
  <2>3. CASE Discard
    BY <2>3 DEF Discard, FinalInv
  <2>4. CASE DelayElapses
    <3>1. pc = "waiting" /\ pc' = "loop" /\ number' = number + 1 /\ log' = log
      BY <2>4 DEF DelayElapses
    <3>2. \A n \in Attempts : n < number + 1 => n < number \/ n = number
      BY DEF TypeOK, Attempts
    <3> QED
      BY <3>1, <3>2 DEF FinalInv
  <2>5. CASE DelayInterrupted
    BY <1>1, <2>5, ReturnErrorFrame DEF DelayInterrupted, ReturnError
  <2> QED
    BY <1>6, <2>1, <2>2, <2>3, <2>4, <2>5 DEF AfterAttempt
<1> QED
  BY <1>2, <1>3, <1>4, <1>5, <1>6, NextCases, EnvironmentFrame, BodyFrame DEF vars

\* An attempt that succeeded, was canceled or failed by policy is the last one.
THEOREM FinalOutcomesStay == Spec => []FinalOutcomesAreFinal
<1>1. Init => FinalInv
  BY DEF Init, FinalInv, Attempts
<1>2. TypeOK /\ FinalInv /\ [Next]_vars => FinalInv'
  BY FinalStep
<1>3. FinalInv => FinalOutcomesAreFinal
  BY DEF FinalInv, FinalOutcomesAreFinal, Repeatable
<1> QED
  BY TypeCorrect, <1>1, <1>2, <1>3, PTL DEF Spec

-----------------------------------------------------------------------------
(***************************************************************************)
(* Bodies.  While do runs an open response body is the one in hand, and    *)
(* only between Do and the decision; an unsent request body is the         *)
(* caller's, before the first attempt has handed it over.                  *)
(***************************************************************************)
InHand ==
  \/ pc \in {"responded", "classify", "decide", "discard"} /\ reply.err = "none"
  \/ pc = "returned" /\ lease # "none"

BodyInv ==
  /\ \A n \in Attempts : responses[n] = "open" => n = number /\ InHand
  /\ original = "held" => number = 1 /\ pc \in {"start", "loop", "prepare"}
  /\ replay # "held"

LEMMA BodyReturnError ==
  ASSUME BodyInv, ReturnError, replay' # "held",
         pc \in {"start", "loop", "prepare", "getBody", "waiting"}
  PROVE  BodyInv'
<1>1. \A n \in Attempts : responses[n] # "open"
  BY DEF BodyInv, InHand
<1>2. original' # "held" /\ responses' = responses
  BY DEF ReturnError, Closed
<1> QED
  BY <1>1, <1>2 DEF BodyInv

LEMMA BodyDoReturns ==
  ASSUME TypeOK, BodyInv, pc \in {"inject", "roundTrip", "redirect"},
         NEW err, NEW body, NEW status, DoReturns(err, body, status),
         body = "open" => err = "none"
  PROVE  BodyInv'
<1>1. \A n \in Attempts : responses[n] # "open"
  BY DEF BodyInv, InHand
<1>2. /\ pc' = "responded" /\ reply'.err = err /\ number' = number
      /\ original' = original /\ replay' = replay
      /\ responses' = [responses EXCEPT ![number] = body]
  BY DEF DoReturns, request
<1>3. \A n \in Attempts : responses'[n] = "open" => n = number /\ err = "none"
  BY <1>1, <1>2 DEF TypeOK
<1> QED
  BY <1>2, <1>3 DEF BodyInv, InHand

LEMMA BodyBeforeAttempt ==
  ASSUME TypeOK, BodyInv, BeforeAttempt
  PROVE  BodyInv'
<1> USE DEF request, chain, history
<1>1. pc \in {"start", "loop", "prepare", "getBody"} /\ \A n \in Attempts : responses[n] # "open"
  BY DEF BeforeAttempt, Refuse, StartOperation, TotalOver, StartAttempt, Prepare,
         GetBodyReturns, BodyInv, InHand
<1>2. CASE Refuse \/ TotalOver
  BY <1>1, <1>2, BodyReturnError DEF Refuse, TotalOver, BodyInv
<1>3. CASE StartOperation \/ StartAttempt
  BY <1>1, <1>3 DEF StartOperation, StartAttempt, BodyInv
<1>4. CASE Prepare
  <2>1. CASE ReturnError
    BY <1>1, <1>4, <2>1, BodyReturnError DEF Prepare, BodyInv
  <2>2. CASE ~ReturnError
    <3>1. original' # "held" /\ UNCHANGED <<responses, replay>>
      BY <1>4, <2>2 DEF Prepare, BodyInv
    <3> QED
      BY <1>1, <3>1 DEF BodyInv
  <2> QED
    BY <2>1, <2>2
<1>5. CASE GetBodyReturns
  <2>1. PICK body \in {"absent", "held"}, failed \in BOOLEAN :
          IF Over(AttemptCtx) \/ failed \/ body = "absent"
          THEN replay' = LateBody(body) /\ ReturnError
          ELSE /\ replay' = "handed" /\ pc' = "inject"
               /\ UNCHANGED <<policy, ctx, number, original, chain, reply, responses, log,
                              lease, history>>
    BY <1>5 DEF GetBodyReturns
  <2>2. CASE Over(AttemptCtx) \/ failed \/ body = "absent"
    BY <1>1, <2>1, <2>2, BodyReturnError DEF LateBody, Closed
  <2>3. CASE ~(Over(AttemptCtx) \/ failed \/ body = "absent")
    <3>1. original # "held"
      BY <1>5 DEF GetBodyReturns, BodyInv
    <3> QED
      BY <1>1, <2>1, <2>3, <3>1 DEF BodyInv
  <2> QED
    BY <2>2, <2>3
<1> QED
  BY <1>2, <1>3, <1>4, <1>5 DEF BeforeAttempt

LEMMA BodyInDo ==
  ASSUME TypeOK, BodyInv, InDo
  PROVE  BodyInv'
<1> USE DEF request, chain, history
<1>1. /\ pc \in {"inject", "roundTrip", "redirect"} /\ original # "held"
      /\ \A n \in Attempts : responses[n] # "open"
  BY DEF InDo, Transmit, InjectedLate, Respond, TransportFails, TransportGivesUp,
         ProposeRedirect, CheckRedirect, CallbackStops, BodyInv, InHand
<1>2. CASE UNCHANGED <<original, replay, responses>>
  BY <1>1, <1>2 DEF BodyInv
<1>3. CASE Transmit \/ ProposeRedirect
  BY <1>2, <1>3 DEF Transmit, ProposeRedirect
<1>4. CASE InjectedLate \/ TransportFails \/ TransportGivesUp
  BY <1>1, <1>4, BodyDoReturns DEF InjectedLate, TransportFails, TransportGivesUp
<1>5. CASE Respond
  <2>1. PICK body \in {"empty", "open"}, status \in Statuses :
          IF Over(AttemptCtx) THEN DoReturns(AttemptCtx, Closed(body), "other")
                              ELSE DoReturns("none", body, status)
    BY <1>5 DEF Respond
  <2>2. Closed(body) # "open"
    BY DEF Closed
  <2> QED
    BY <1>1, <2>1, <2>2, BodyDoReturns
<1>6. CASE CheckRedirect
  <2>1. PICK erased \in BOOLEAN, rewritten \in {"base", "other"}, wanted \in {"original", "get"} :
          /\ policy.callback \/ wanted = UpcomingMethod
          /\ IF MayFollow(erased, rewritten, wanted)
             THEN /\ pc' = "inject" /\ method' = Requested(wanted) /\ target' = rewritten
                  /\ hop' = NoHop
                  /\ UNCHANGED <<policy, ctx, number, request, via, reply, responses, log,
                                 lease, history>>
             ELSE DoReturns("refused", "closed", "other")
    BY <1>6 DEF CheckRedirect
  <2>2. CASE MayFollow(erased, rewritten, wanted)
    BY <1>2, <2>1, <2>2
  <2>3. CASE ~MayFollow(erased, rewritten, wanted)
    BY <1>1, <2>1, <2>3, BodyDoReturns
  <2> QED
    BY <2>2, <2>3
<1>7. CASE CallbackStops
  BY <1>1, <1>7, BodyDoReturns DEF CallbackStops
<1> QED
  BY <1>3, <1>4, <1>5, <1>6, <1>7 DEF InDo

\* The body of the attempt in hand is closed; no other one is open.
LEMMA BodyRejected ==
  ASSUME TypeOK, BodyInv, responses' = [responses EXCEPT ![number] = RejectedBody(@)]
  PROVE  \A n \in Attempts : responses'[n] # "open"
BY DEF TypeOK, BodyInv, RejectedBody, Closed

LEMMA BodyAfterDo ==
  ASSUME TypeOK, BodyInv, AfterDo
  PROVE  BodyInv'
<1> USE DEF request, chain, history
<1>1. /\ pc \in {"responded", "classify"} /\ original # "held"
      /\ pc' \in {"classify", "decide"} /\ UNCHANGED <<number, original, replay>>
  BY DEF AfterDo, CheckAttempt, Classify, RejectLateResult, Record, BodyInv
<1>2. CASE RejectLateResult
  <2>1. \A n \in Attempts : responses'[n] # "open"
    BY <1>2, BodyRejected DEF RejectLateResult
  <2> QED
    BY <1>1, <2>1 DEF BodyInv
<1>3. CASE UNCHANGED <<reply, responses>>
  BY <1>1, <1>3 DEF BodyInv, InHand
<1> QED
  BY <1>2, <1>3 DEF AfterDo, CheckAttempt, Classify

LEMMA BodyAfterAttempt ==
  ASSUME TypeOK, BodyInv, AfterAttempt
  PROVE  BodyInv'
<1> USE DEF request, chain, history
<1>1. pc \in {"decide", "discard", "waiting"} /\ original # "held" /\ replay # "held"
  BY DEF AfterAttempt, Return, DecideRetry, Discard, DelayElapses, DelayInterrupted, BodyInv
<1>2. CASE Return
  BY <1>1, <1>2 DEF Return, HandsOverBody, BodyInv, InHand
<1>3. CASE DecideRetry
  BY <1>1, <1>3 DEF DecideRetry, BodyInv, InHand
<1>4. CASE Discard
  <2>1. \A n \in Attempts : responses'[n] # "open"
    BY <1>4, BodyRejected DEF Discard
  <2> QED
    BY <1>1, <1>4, <2>1 DEF Discard, BodyInv
<1>5. CASE DelayElapses
  BY <1>1, <1>5 DEF DelayElapses, BodyInv, InHand
<1>6. CASE DelayInterrupted
  BY <1>1, <1>6, BodyReturnError DEF DelayInterrupted
<1> QED
  BY <1>2, <1>3, <1>4, <1>5, <1>6 DEF AfterAttempt

LEMMA BodyFinishes ==
  ASSUME TypeOK, BodyInv, BodySteps
  PROVE  BodyInv'
<1> USE DEF request, chain, history
<1>1. /\ lease' = "finished" /\ lease = "attached"
      /\ UNCHANGED <<pc, number, original, replay, reply>>
  BY DEF BodySteps, CallerCloses, CallerReadsToEnd, ContextFinishesBody, FinishBody
<1>2. \A n \in Attempts : responses'[n] = "open" => responses[n] = "open"
  BY DEF BodySteps, CallerCloses, CallerReadsToEnd, ContextFinishesBody, TypeOK
<1> QED
  BY <1>1, <1>2 DEF BodyInv, InHand

LEMMA BodyStep ==
  ASSUME TypeOK, BodyInv, [Next]_vars
  PROVE  BodyInv'
<1>1. CASE UNCHANGED <<pc, number, request, reply, responses, lease>>
  BY <1>1 DEF BodyInv, InHand, request
<1> QED
  BY <1>1, NextCases, EnvironmentFrame, BodyBeforeAttempt, BodyInDo, BodyAfterDo,
     BodyAfterAttempt, BodyFinishes DEF vars

\* No response body stays open behind do's back, and no request body, the caller's or
\* a recreated one, is left to nobody.
THEOREM BodiesAreAccountedFor == Spec => []BodiesAccountedFor
<1>1. Init => BodyInv
  BY DEF Init, BodyInv
<1>2. TypeOK /\ BodyInv /\ [Next]_vars => BodyInv'
  BY BodyStep
<1>3. TypeOK /\ BodyInv => BodiesAccountedFor
  BY DEF TypeOK, BodyInv, InHand, BodiesAccountedFor
<1> QED
  BY TypeCorrect, <1>1, <1>2, <1>3, PTL DEF Spec
=============================================================================
