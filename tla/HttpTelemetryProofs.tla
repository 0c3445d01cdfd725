------------------------ MODULE HttpTelemetryProofs ------------------------
(***************************************************************************)
(* Proofs about HttpTelemetry, for any number of observers, attempts and   *)
(* round trips, any propagators in any order, and every stack of           *)
(* transports.                                                             *)
(***************************************************************************)
EXTENDS HttpTelemetry, SequenceTheorems, TLAPS

(***************************************************************************)
(* Responses and request bodies.                                           *)
(*                                                                         *)
(* What a layer returns depends on what it was given by the one below, and *)
(* on a context that may have ended since.  LeakInv says what every place  *)
(* may hold; that a late answer implies an ended context is what makes the *)
(* check of each layer reject it.                                          *)
(***************************************************************************)
Unsent == {"observe", "layer", "inject", "base"}

LeakInv ==
    /\ failed \in BOOLEAN /\ late \in BOOLEAN
    /\ response \in {"none", "live", "closed"}
    /\ over \in {"none", "attempt", "operation"}
    /\ late => over /= "none"
    /\ at \in Unsent => response = "none" /\ ~failed /\ ~late
    /\ at \in {"check", "leave", "answered"} => requestBody /= "held"
    /\ at = "check" => (response = "closed" => failed)
    /\ at \in {"leave", "answered"} => (failed <=> response /= "live") /\ (late => failed)
    /\ at \in {"end", "done"} => (response = "live" => ~failed)

\* A propagator that returns and one that panics change the top frame, and nothing else but
\* what OwnHeaders says.
LEMMA InjectKeeps ==
    ASSUME InjectReturns \/ InjectPanics
    PROVE  /\ at = "inject"
           /\ own' = own
           /\ UNCHANGED <<setup, at, observing, spans, open, over, counters, exchange>>
<1>1. CASE InjectReturns
  BY <1>1 DEF InjectReturns, Injecting, InjectStep, OwnHeaders
<1>2. CASE InjectPanics
  BY <1>2 DEF InjectPanics, Injecting, InjectStep, OwnHeaders
<1> QED
  BY <1>1, <1>2

LEMMA LeakInit == Init => LeakInv
  BY DEF Init, LeakInv, Unsent

LEMMA LeakNext == ASSUME LeakInv, [Next]_vars PROVE LeakInv'
<1> USE DEF LeakInv, exchange, Unsent
<1>1. CASE AttemptEnds \/ OperationOver
  BY <1>1 DEF AttemptEnds, OperationOver
<1>2. CASE StartPanics \/ \E derives, observes \in BOOLEAN : StartReturns(derives, observes)
  BY <1>2 DEF StartPanics, StartReturns
<1>3. CASE FirstAttempt \/ Redirect \/ Retry
  BY <1>3 DEF FirstAttempt, Redirect, Retry, Send
<1>4. CASE Refused \/ EnterLayer
  BY <1>4 DEF Refused, EnterLayer
<1>12. CASE InjectReturns \/ InjectPanics
  BY <1>12, InjectKeeps
<1>5. CASE HandOn
  BY <1>5 DEF HandOn
<1>6. CASE HoldBack
  BY <1>6 DEF HoldBack
<1>7. CASE \E responds, fails \in BOOLEAN : BaseAnswers(responds, fails)
  BY <1>7 DEF BaseAnswers
<1>13. CASE BasePanics
  BY <1>13 DEF BasePanics
<1>8. CASE CheckAnswer
  BY <1>8 DEF CheckAnswer, Rejects, Closed
<1>9. CASE LeaveLayer
  BY <1>9 DEF LeaveLayer
<1>10. CASE Finish
  BY <1>10 DEF Finish, Closed
<1>11. CASE EndObservation \/ OperationEnds \/ Terminated \/ UNCHANGED vars
  BY <1>11 DEF EndObservation, OperationEnds, Terminated, vars
<1> QED
  BY <1>1, <1>2, <1>3, <1>4, <1>5, <1>6, <1>7, <1>8, <1>9, <1>10, <1>11, <1>12,
     <1>13 DEF Next

\* NothingLeaks: a round trip returns a live response or an error, never both, and no
\* request body is left behind (propagation.go, transport.go).
THEOREM NothingEverLeaks == Spec => []NothingLeaks
<1>1. LeakInv => NothingLeaks
  BY DEF LeakInv, NothingLeaks
<1> QED
  BY <1>1, LeakInit, LeakNext, PTL DEF Spec

-----------------------------------------------------------------------------
(***************************************************************************)
(* The layers a request is in, and the spans that are open.                *)
(*                                                                         *)
(* What is open are the observations, in the order of their identities,    *)
(* and above them the span of the traced layer if the request is in it, or *)
(* was when the base transport panicked.                                   *)
(***************************************************************************)
Within == {"layer", "inject", "base", "check", "leave", "unwind", "panicked"}
FrameType == [headers : [HeaderNames -> Int], ctx : Nat,
              injected : SUBSET {"trace", "pair", "bound"}, next : Nat \ {0}, resend : Nat]

FrameInv ==
    /\ setup \in Setup
    /\ frames \in Seq(FrameType) /\ Len(frames) <= Len(setup.layers)
    /\ own = CallersHeaders
    /\ at \in Within \union {"observe", "answered", "end", "done"}
    /\ at \notin Within => frames = <<>>
    /\ at = "layer" => Len(frames) < Len(setup.layers)
    /\ at \in {"inject", "check", "leave"} => Len(frames) > 0
    /\ at = "base" => Len(frames) = Len(setup.layers)

CountInv ==
    /\ spans \in Nat /\ context \in Nat /\ context <= spans
    /\ started \in Nat /\ sends \in Nat /\ resends \in Nat /\ handed \in Nat

Observed == {observations[i] : i \in DOMAIN observations}

StackInv ==
    /\ observations \in Seq(1..spans)
    /\ \A i, j \in DOMAIN observations : i < j => observations[i] < observations[j]
    /\ at \in {"done", "panicked"} => observations = <<>>
    /\ Traced \subseteq 1..spans
    /\ \A o \in Observed, t \in Traced : o < t
    /\ open = Observed \union Traced

\* Only the innermost layer is traced.
LEMMA TracedIsInnermost ==
    ASSUME setup \in Setup
    PROVE  /\ Len(setup.layers) \in {1, 2}
           /\ DOMAIN setup.layers = 1..Len(setup.layers)
           /\ \A l \in DOMAIN setup.layers : setup.layers[l] = "traced" => l = Len(setup.layers)
           /\ setup.propagators \in Seq({"trace", "pair", "bound"})
           /\ setup.preserve \in BOOLEAN /\ setup.callerSets \in BOOLEAN
<1>1. /\ setup.propagators \in Seq({"trace", "pair", "bound"})
      /\ setup.preserve \in BOOLEAN /\ setup.callerSets \in BOOLEAN
      /\ setup.layers \in {<<"traced">>, <<"propagating">>, <<"propagating", "traced">>}
  BY DEF Setup
<1>2. CASE setup.layers = <<"traced">>
  BY <1>1, <1>2
<1>3. CASE setup.layers = <<"propagating">>
  BY <1>1, <1>3
<1>4. CASE setup.layers = <<"propagating", "traced">>
  BY <1>1, <1>4
<1> QED
  BY <1>1, <1>2, <1>3, <1>4

LEMMA TopFrame ==
    ASSUME FrameInv, frames /= <<>>
    PROVE  /\ Depth \in 1..Len(setup.layers) /\ Depth \in DOMAIN frames
           /\ DOMAIN frames = 1..Depth
           /\ Frame = frames[Depth] /\ Frame \in FrameType
<1>1. Len(setup.layers) \in Nat
  BY TracedIsInnermost DEF FrameInv
<1>2. Len(frames) \in Nat /\ Len(frames) > 0 /\ DOMAIN frames = 1..Len(frames)
  BY DEF FrameInv
<1>3. Frame = frames[Depth]
  BY DEF Frame, Last, Depth
<1> QED
  BY <1>1, <1>2, <1>3 DEF FrameInv, Depth

LEMMA CallersHeadersTyped == CallersHeaders \in [HeaderNames -> Int]
  BY DEF CallersHeaders, CallerSet, Absent

\* A layer is entered with the headers of the one above it.
LEMMA EnterTyped ==
    ASSUME FrameInv, CountInv, EnterLayer
    PROVE  \E f \in FrameType :
              /\ frames' = Append(frames, f)
              /\ f.headers = HeadersAbove /\ f.injected = {}
              /\ f.ctx = IF Entering = "traced" THEN spans + 1 ELSE context
              /\ f.resend = IF Entering = "traced" THEN resends ELSE 0
<1>1. HeadersAbove \in [HeaderNames -> Int]
  <2>1. CASE frames = <<>>
    BY <2>1, CallersHeadersTyped DEF HeadersAbove, FrameInv
  <2>2. CASE frames /= <<>>
    BY <2>2, TopFrame DEF HeadersAbove, FrameType, Frame
  <2> QED
    BY <2>1, <2>2
<1> DEFINE traced == Entering = "traced"
           f == [headers |-> HeadersAbove, ctx |-> IF traced THEN spans + 1 ELSE context,
                 injected |-> {}, next |-> 1, resend |-> IF traced THEN resends ELSE 0]
<1>2. f \in FrameType
  BY <1>1 DEF FrameType, CountInv
<1>3. frames' = Append(frames, f)
  BY DEF EnterLayer
<1> QED
  BY <1>2, <1>3

\* An injection completes and is recorded whole, or leaves the headers as they were.
Untouched(headers, injected) == headers = Frame.headers /\ injected = Frame.injected
Completed(headers, injected) ==
    /\ headers = Overlaid(Frame.headers, Writes(Propagator))
    /\ injected = Frame.injected \union {Propagator}
    /\ ~Preserves(Propagator, Frame.headers)

LEMMA InjectTyped ==
    ASSUME FrameInv, CountInv, InjectReturns \/ InjectPanics
    PROVE  /\ frames /= <<>> /\ Propagator \in {"trace", "pair", "bound"}
           /\ \E headers \in [HeaderNames -> Int], injected \in SUBSET {"trace", "pair", "bound"} :
                 /\ frames' = [frames EXCEPT ![Depth] =
                      [Frame EXCEPT !.headers = headers, !.injected = injected, !.next = @ + 1]]
                 /\ Untouched(headers, injected) \/ Completed(headers, injected)
<1>1. at = "inject" /\ frames /= <<>>
  BY InjectKeeps DEF FrameInv
<1>2. Frame \in FrameType
  BY <1>1, TopFrame
<1>3. Propagators \in Seq({"trace", "pair", "bound"})
  <2>1. setup.propagators \in Seq({"trace", "pair", "bound"})
    BY TracedIsInnermost DEF FrameInv
  <2>2. <<"trace">> \in Seq({"trace", "pair", "bound"})
    OBVIOUS
  <2> QED
    BY <2>1, <2>2 DEF Propagators
<1>4. Frame.next \in Nat \ {0} /\ Frame.next <= Len(Propagators)
  BY <1>2 DEF InjectReturns, InjectPanics, Injecting, FrameType
<1>5. Propagator \in {"trace", "pair", "bound"}
  BY <1>3, <1>4 DEF Propagator
<1>6. Overlaid(Frame.headers, Writes(Propagator)) \in [HeaderNames -> Int]
  <2>1. Frame.headers \in [HeaderNames -> Int] /\ Frame.ctx \in Int /\ sends \in Int
    BY <1>2 DEF FrameType, CountInv
  <2>2. \A n \in DOMAIN Writes(Propagator) : Writes(Propagator)[n] \in Int
    BY <1>5, <2>1 DEF Writes
  <2> QED
    BY <2>1, <2>2 DEF Overlaid
<1>7. Frame.headers \in [HeaderNames -> Int] /\ Frame.injected \in SUBSET {"trace", "pair", "bound"}
  BY <1>2 DEF FrameType
<1>8. CASE InjectReturns
  <2>1. CASE Preserves(Propagator, Frame.headers)
    BY <1>1, <1>5, <1>7, <1>8, <2>1 DEF InjectReturns, InjectStep, Untouched
  <2>2. CASE ~Preserves(Propagator, Frame.headers)
    <3>1. InjectStep(Overlaid(Frame.headers, Writes(Propagator)), Frame.injected \union {Propagator})
      BY <1>8, <2>2 DEF InjectReturns
    <3>2. Completed(Overlaid(Frame.headers, Writes(Propagator)), Frame.injected \union {Propagator})
      BY <2>2 DEF Completed
    <3>3. Frame.injected \union {Propagator} \in SUBSET {"trace", "pair", "bound"}
      BY <1>5, <1>7
    <3> QED
      BY <1>1, <1>5, <1>6, <3>1, <3>2, <3>3 DEF InjectStep
  <2> QED
    BY <2>1, <2>2
<1>9. CASE InjectPanics
  <2>1. InjectStep(Frame.headers, Frame.injected)
    BY <1>9 DEF InjectPanics, AfterPanic
  <2> QED
    BY <1>1, <1>5, <1>7, <2>1 DEF InjectStep, Untouched
<1> QED
  BY <1>8, <1>9

\* Pointwise: the top frame's headers and injections change, its span and count do not.
LEMMA InjectAt ==
    ASSUME FrameInv, CountInv, InjectReturns \/ InjectPanics
    PROVE  \E headers \in [HeaderNames -> Int], injected \in SUBSET {"trace", "pair", "bound"} :
              /\ Untouched(headers, injected) \/ Completed(headers, injected)
              /\ frames' \in Seq(FrameType) /\ Len(frames') = Len(frames)
              /\ DOMAIN frames' = DOMAIN frames
              /\ \A l \in DOMAIN frames : /\ l /= Depth => frames'[l] = frames[l]
                                          /\ frames'[l].ctx = frames[l].ctx
                                          /\ frames'[l].resend = frames[l].resend
              /\ frames'[Depth].headers = headers /\ frames'[Depth].injected = injected
<1>1. PICK headers \in [HeaderNames -> Int], injected \in SUBSET {"trace", "pair", "bound"} :
         /\ frames' = [frames EXCEPT ![Depth] =
              [Frame EXCEPT !.headers = headers, !.injected = injected, !.next = @ + 1]]
         /\ Untouched(headers, injected) \/ Completed(headers, injected)
  BY InjectTyped
<1>2. /\ Frame = frames[Depth] /\ Frame \in FrameType
      /\ DOMAIN frames = 1..Depth /\ Depth \in DOMAIN frames
  BY InjectTyped, TopFrame
<1>3. PICK f : f = [Frame EXCEPT !.headers = headers, !.injected = injected, !.next = @ + 1]
  OBVIOUS
<1>4. /\ f \in FrameType /\ f.headers = headers /\ f.injected = injected
      /\ f.ctx = Frame.ctx /\ f.resend = Frame.resend
  <2>1. Frame.next + 1 \in Nat \ {0}
    BY <1>2 DEF FrameType
  <2>2. PICK n \in Nat \ {0} : f = [Frame EXCEPT !.headers = headers, !.injected = injected, !.next = n]
    BY <1>3, <2>1
  <2> QED
    BY <1>2, <2>2 DEF FrameType
<1>5. frames' = [frames EXCEPT ![Depth] = f]
  BY <1>1, <1>3
<1>6. frames \in Seq(FrameType)
  BY DEF FrameInv
<1>7. frames' \in Seq(FrameType) /\ Len(frames') = Len(frames) /\ DOMAIN frames' = DOMAIN frames
  BY <1>2, <1>4, <1>5, <1>6, ExceptSeq
<1>8. /\ \A l \in DOMAIN frames : l /= Depth => frames'[l] = frames[l]
      /\ frames'[Depth] = f
  BY <1>2, <1>5, <1>6
<1> QED
  BY <1>1, <1>2, <1>4, <1>7, <1>8

LEMMA EnterAt ==
    ASSUME FrameInv, CountInv, EnterLayer
    PROVE  \E f \in FrameType :
              /\ frames' \in Seq(FrameType) /\ Len(frames') = Len(frames) + 1
              /\ DOMAIN frames' = 1..Len(frames) + 1
              /\ \A l \in 1..Len(frames) : frames'[l] = frames[l]
              /\ frames'[Len(frames) + 1] = f
              /\ f.headers = HeadersAbove /\ f.injected = {}
              /\ f.ctx = IF Entering = "traced" THEN spans + 1 ELSE context
              /\ f.resend = IF Entering = "traced" THEN resends ELSE 0
<1>1. PICK f \in FrameType :
              /\ frames' = Append(frames, f)
              /\ f.headers = HeadersAbove /\ f.injected = {}
              /\ f.ctx = IF Entering = "traced" THEN spans + 1 ELSE context
              /\ f.resend = IF Entering = "traced" THEN resends ELSE 0
  BY EnterTyped
<1>2. frames \in Seq(FrameType)
  BY DEF FrameInv
<1>3. /\ frames' \in Seq(FrameType) /\ Len(frames') = Len(frames) + 1
      /\ \A l \in 1..Len(frames) : frames'[l] = frames[l]
      /\ frames'[Len(frames) + 1] = f
  BY <1>1, <1>2, AppendProperties
<1>4. DOMAIN frames' = 1..Len(frames) + 1
  BY <1>3
<1> QED
  BY <1>1, <1>3, <1>4

LEMMA LeaveAt ==
    ASSUME FrameInv, LeaveLayer
    PROVE  /\ frames /= <<>>
           /\ frames' \in Seq(FrameType) /\ Len(frames') = Depth - 1
           /\ DOMAIN frames' = 1..Depth - 1
           /\ \A l \in 1..Depth - 1 : frames'[l] = frames[l]
<1>1. frames /= <<>> /\ frames' = SubSeq(frames, 1, Depth - 1)
  BY DEF LeaveLayer, Front, Depth
<1>2. frames \in Seq(FrameType) /\ Depth \in Nat \ {0} /\ DOMAIN frames = 1..Depth
  BY <1>1, TopFrame DEF FrameInv
<1>3. \A l \in 1..Depth - 1 : frames[l] \in FrameType
  BY <1>2
<1>4. /\ SubSeq(frames, 1, Depth - 1) \in Seq(FrameType)
      /\ Len(SubSeq(frames, 1, Depth - 1)) = Depth - 1
      /\ \A l \in 1..Depth - 1 : SubSeq(frames, 1, Depth - 1)[l] = frames[l]
  BY <1>2, <1>3, SubSeqProperties
<1>5. DOMAIN frames' = 1..Depth - 1
  BY <1>1, <1>4
<1> QED
  BY <1>1, <1>4, <1>5

LEMMA FrameInit == Init => FrameInv /\ CountInv
<1> SUFFICES ASSUME Init PROVE FrameInv /\ CountInv
  OBVIOUS
<1>1. setup \in Setup /\ frames = <<>> /\ at = "observe" /\ own = CallersHeaders
  BY HttpTelemetryAssumption DEF Init
<1>2. Len(setup.layers) \in Nat
  BY <1>1, TracedIsInnermost
<1>3. frames \in Seq(FrameType) /\ Len(frames) = 0
  BY <1>1
<1>4. FrameInv
  BY <1>1, <1>2, <1>3 DEF FrameInv, Within
<1>5. CountInv
  BY DEF Init, CountInv
<1> QED
  BY <1>4, <1>5

LEMMA CountNext == ASSUME CountInv, FrameInv, [Next]_vars PROVE CountInv'
<1> USE DEF CountInv, observing, counters
<1>1. CASE StartPanics \/ \E derives, observes \in BOOLEAN : StartReturns(derives, observes)
  BY <1>1 DEF StartPanics, StartReturns
<1>2. CASE FirstAttempt \/ Redirect \/ Retry
  BY <1>2 DEF FirstAttempt, Redirect, Retry, Send
<1>3. CASE EnterLayer
  BY <1>3 DEF EnterLayer
<1>4. CASE InjectReturns \/ InjectPanics
  BY <1>4, InjectKeeps
<1>5. CASE HandOn
  BY <1>5 DEF HandOn
<1>6. CASE AttemptEnds \/ OperationOver \/ Refused \/ HoldBack \/ CheckAnswer \/ LeaveLayer \/ Finish
  BY <1>6 DEF AttemptEnds, OperationOver, Refused, HoldBack, CheckAnswer, LeaveLayer, Finish
<1>7. CASE BasePanics \/ \E responds, fails \in BOOLEAN : BaseAnswers(responds, fails)
  BY <1>7 DEF BaseAnswers, BasePanics
<1>8. CASE EndObservation \/ OperationEnds \/ Terminated \/ UNCHANGED vars
  BY <1>8 DEF EndObservation, OperationEnds, Terminated, vars
<1> QED
  BY <1>1, <1>2, <1>3, <1>4, <1>5, <1>6, <1>7, <1>8 DEF Next

LEMMA FrameNext == ASSUME CountInv, FrameInv, [Next]_vars PROVE FrameInv'
<1>0. /\ Len(frames) \in Nat /\ Len(setup.layers) \in Nat \ {0}
      /\ Len(<<>>) = 0 /\ (frames = <<>> <=> Len(frames) = 0)
  BY TracedIsInnermost DEF FrameInv
<1>c. UNCHANGED setup => CallersHeaders' = CallersHeaders
  BY DEF CallersHeaders
<1>1. CASE StartPanics \/ \E derives, observes \in BOOLEAN : StartReturns(derives, observes)
  BY <1>1, <1>c DEF StartPanics, StartReturns, FrameInv, Within
<1>2. CASE FirstAttempt \/ Redirect \/ Retry
  BY <1>0, <1>2, <1>c DEF FirstAttempt, Redirect, Retry, Send, FrameInv, Within
<1>3. CASE EnterLayer
  <2>1. /\ at' = "inject" /\ UNCHANGED <<setup, own>> /\ Len(frames) < Len(setup.layers)
    BY <1>3 DEF EnterLayer, Depth
  <2>2. frames' \in Seq(FrameType) /\ Len(frames') = Len(frames) + 1
    BY <1>3, EnterAt
  <2> QED
    BY <1>0, <1>c, <2>1, <2>2 DEF FrameInv, Within
<1>4. CASE InjectReturns \/ InjectPanics
  <2>1. /\ at = "inject" /\ UNCHANGED <<at, setup, own>>
    BY <1>4, InjectKeeps
  <2>2. frames' \in Seq(FrameType) /\ Len(frames') = Len(frames)
    BY <1>4, InjectAt
  <2> QED
    BY <1>0, <1>c, <2>1, <2>2 DEF FrameInv, Within
<1>5. CASE HandOn
  BY <1>0, <1>5, <1>c DEF HandOn, FrameInv, Within, Depth
<1>6. CASE AttemptEnds \/ OperationOver \/ Refused \/ HoldBack \/ CheckAnswer \/ Finish
  BY <1>0, <1>6, <1>c DEF AttemptEnds, OperationOver, Refused, HoldBack, CheckAnswer, Finish,
                          FrameInv, Within
<1>7. CASE BasePanics \/ \E responds, fails \in BOOLEAN : BaseAnswers(responds, fails)
  BY <1>0, <1>7, <1>c DEF BaseAnswers, BasePanics, FrameInv, Within
<1>8. CASE LeaveLayer
  <2>1. at' = (IF Depth = 1 THEN "answered" ELSE "check") /\ UNCHANGED <<setup, own>>
    BY <1>8 DEF LeaveLayer
  <2>2. frames' \in Seq(FrameType) /\ Len(frames') = Depth - 1 /\ Depth \in 1..Len(setup.layers)
    BY <1>8, LeaveAt, TopFrame
  <2> QED
    BY <1>0, <1>c, <2>1, <2>2 DEF FrameInv, Within
<1>9. CASE EndObservation \/ OperationEnds \/ Terminated \/ UNCHANGED vars
  BY <1>9, <1>c DEF EndObservation, OperationEnds, Terminated, vars, FrameInv, Within
<1> QED
  BY <1>1, <1>2, <1>3, <1>4, <1>5, <1>6, <1>7, <1>8, <1>9 DEF Next

-----------------------------------------------------------------------------
LEMMA ObservedTyped ==
    ASSUME StackInv
    PROVE  /\ Len(observations) \in Nat /\ DOMAIN observations = 1..Len(observations)
           /\ \A i \in 1..Len(observations) : observations[i] \in 1..spans
           /\ \A o \in Observed : o \in 1..spans
<1>1. observations \in Seq(1..spans)
  BY DEF StackInv
<1>2. /\ Len(observations) \in Nat /\ DOMAIN observations = 1..Len(observations)
      /\ \A i \in 1..Len(observations) : observations[i] \in 1..spans
  BY <1>1, LenProperties, ElementOfSeq
<1> QED
  BY <1>2 DEF Observed

\* The last observation is the newest, and taking it away leaves the others.
LEMMA EndAt ==
    ASSUME StackInv, CountInv, EndObservation
    PROVE  LET n == Len(observations)
           IN  /\ n \in Nat \ {0} /\ n \in DOMAIN observations
               /\ open' = open \ {observations[n]}
               /\ observations' \in Seq(1..spans)
               /\ DOMAIN observations' = 1..n - 1
               /\ \A i \in 1..n - 1 : observations'[i] = observations[i]
<1> DEFINE n == Len(observations)
<1>1. observations \in Seq(1..spans) /\ observations /= <<>>
  BY DEF StackInv, EndObservation
<1>2. n \in Nat \ {0} /\ n \in DOMAIN observations
  BY <1>1
<1>3. /\ open' = open \ {observations[n]}
      /\ observations' = SubSeq(observations, 1, n - 1) \o SubSeq(observations, n + 1, n)
  BY DEF EndObservation, NextToEnd, RemoveAt
<1>4. SubSeq(observations, n + 1, n) = <<>>
  BY <1>2, SubSeqEmpty
<1>5. /\ SubSeq(observations, 1, n - 1) \in Seq(1..spans)
      /\ Len(SubSeq(observations, 1, n - 1)) = n - 1
      /\ \A i \in 1..n - 1 : SubSeq(observations, 1, n - 1)[i] = observations[i]
  <2>1. \A i \in 1..n - 1 : observations[i] \in 1..spans
    <3>1. \A i \in 1..n - 1 : i \in 1..n
      BY <1>2
    <3> QED
      BY <3>1, ObservedTyped
  <2>2. n - 1 \in Int /\ (n - 1) - 1 + 1 = n - 1 /\ (1 <= n - 1 \/ n - 1 = 0)
    BY <1>2
  <2>3. \A i \in 1..n - 1 : 1 + i - 1 = i
    BY <1>2
  <2> QED
    BY <2>1, <2>2, <2>3, SubSeqProperties
<1>6. observations' = SubSeq(observations, 1, n - 1)
  BY <1>3, <1>4, <1>5, ConcatEmptySeq
<1>7. DOMAIN observations' = 1..n - 1
  BY <1>5, <1>6, <1>2
<1> QED
  BY <1>2, <1>3, <1>5, <1>6, <1>7

\* No span is traced outside of the layers.
LEMMA NoneTraced == ASSUME frames = <<>> PROVE Traced = {}
  BY DEF Traced

\* Steps that touch neither observers nor layers.
LEMMA StackSame ==
    ASSUME StackInv, UNCHANGED <<setup, observations, spans, open>>, Traced' = Traced,
           at' \in {"done", "panicked"} => at \in {"done", "panicked"}
    PROVE  StackInv'
  BY DEF StackInv, Observed

LEMMA StackInit == Init => StackInv
<1> SUFFICES ASSUME Init PROVE StackInv
  OBVIOUS
<1>1. observations = <<>> /\ frames = <<>> /\ open = {} /\ at = "observe"
  BY DEF Init
<1>2. Observed = {} /\ observations \in Seq(1..spans)
  BY <1>1 DEF Observed
<1> QED
  BY <1>1, <1>2, NoneTraced DEF StackInv

LEMMA StackStart ==
    ASSUME StackInv, FrameInv, CountInv, NEW derives, NEW observes, StartReturns(derives, observes)
    PROVE  StackInv'
<1>1. frames = <<>> /\ Traced' = Traced /\ Traced = {}
  BY NoneTraced DEF StartReturns, FrameInv, Within, Traced
<1>2. /\ spans \in Nat /\ spans' = spans + 1 /\ at' = "observe" /\ observations \in Seq(1..spans)
  BY DEF StartReturns, CountInv, StackInv
<1>3. observations \in Seq(1..spans')
  BY <1>2, SeqMonotonic
<1>4. CASE ~observes
  BY <1>1, <1>2, <1>3, <1>4 DEF StartReturns, StackInv, Observed
<1>5. CASE observes
  <2> DEFINE n == Len(observations)
  <2>1. observations' = Append(observations, spans') /\ open' = open \union {spans'}
    BY <1>5 DEF StartReturns
  <2>2. /\ observations' \in Seq(1..spans') /\ Len(observations') = n + 1
        /\ \A i \in 1..n : observations'[i] = observations[i]
        /\ observations'[n + 1] = spans'
    BY <1>2, <1>3, <2>1, AppendProperties
  <2>3. /\ n \in Nat /\ DOMAIN observations = 1..n /\ DOMAIN observations' = 1..n + 1
        /\ \A i \in 1..n : observations[i] \in 1..spans
    BY <1>2, <2>2
  <2>4. \A i, j \in DOMAIN observations' : i < j => observations'[i] < observations'[j]
    <3> SUFFICES ASSUME NEW i \in 1..n + 1, NEW j \in 1..n + 1, i < j
                 PROVE  observations'[i] < observations'[j]
      BY <2>3
    <3>1. i \in 1..n /\ observations'[i] = observations[i] /\ observations[i] < spans'
      BY <1>2, <2>2, <2>3
    <3>2. CASE j = n + 1
      BY <2>2, <3>1, <3>2
    <3>3. CASE j \in 1..n
      BY <2>2, <2>3, <3>1, <3>3 DEF StackInv
    <3> QED
      BY <2>3, <3>2, <3>3
  <2>5. Observed' = Observed \union {spans'}
    BY <2>2, <2>3 DEF Observed
  <2> QED
    BY <1>1, <1>2, <2>1, <2>2, <2>4, <2>5 DEF StackInv
<1> QED
  BY <1>4, <1>5

LEMMA StackEnd ==
    ASSUME StackInv, FrameInv, CountInv, EndObservation
    PROVE  /\ StackInv'
           /\ \E s \in open \ Abandoned : open' = open \ {s} /\ \A t \in open \ Abandoned : t <= s
<1> DEFINE n == Len(observations)
<1>1. /\ n \in Nat \ {0} /\ n \in DOMAIN observations
      /\ open' = open \ {observations[n]}
      /\ observations' \in Seq(1..spans)
      /\ DOMAIN observations' = 1..n - 1
      /\ \A i \in 1..n - 1 : observations'[i] = observations[i]
  BY EndAt
<1>2. /\ Traced' = Traced /\ Abandoned = Traced
      /\ at' \in {"end", "unwind"} /\ UNCHANGED spans
  BY NoneTraced DEF EndObservation, FrameInv, Within, Traced, Abandoned
<1>3. /\ DOMAIN observations = 1..n /\ \A i \in 1..n : observations[i] \in Nat
      /\ \A i, j \in DOMAIN observations : i < j => observations[i] < observations[j]
  <2>1. spans \in Nat /\ observations \in Seq(1..spans)
    BY DEF StackInv, CountInv
  <2>2. DOMAIN observations = 1..n /\ \A i \in 1..n : observations[i] \in 1..spans
    BY <2>1
  <2> QED
    BY <2>1, <2>2 DEF StackInv
<1>4. Observed' = Observed \ {observations[n]}
  <2>1. ASSUME NEW i \in 1..n - 1
        PROVE  i \in 1..n /\ observations[i] < observations[n]
    <3>1. i \in 1..n /\ n \in 1..n /\ i < n
      BY <1>1
    <3> QED
      BY <1>3, <3>1
  <2>2. Observed' = {observations[i] : i \in 1..n - 1}
    BY <1>1 DEF Observed
  <2>3. Observed = {observations[i] : i \in 1..n}
    BY <1>3 DEF Observed
  <2>4. \A i \in 1..n : i = n \/ i \in 1..n - 1
    BY <1>1
  <2>5. \A i \in 1..n - 1 : observations[i] /= observations[n]
    BY <1>1, <1>3, <2>1
  <2> QED
    BY <2>1, <2>2, <2>3, <2>4, <2>5
<1>5. \A t \in Observed : t <= observations[n]
  BY <1>1, <1>3 DEF Observed
<1>6. observations[n] \in open \ Abandoned /\ open \ Abandoned \subseteq Observed
  <2>1. observations[n] \in Observed /\ observations[n] \in Nat
    BY <1>1, <1>3 DEF Observed
  <2>2. observations[n] \notin Traced
    BY <2>1 DEF StackInv
  <2> QED
    BY <1>2, <2>1, <2>2 DEF StackInv
<1>7. StackInv'
  <2>1. open' = Observed' \union Traced'
    BY <1>1, <1>2, <1>4, <1>6 DEF StackInv
  <2> QED
    BY <1>1, <1>2, <1>3, <1>4, <2>1 DEF StackInv
<1> QED
  BY <1>1, <1>5, <1>6, <1>7

LEMMA StackEnter ==
    ASSUME StackInv, FrameInv, CountInv, EnterLayer
    PROVE  /\ StackInv'
           /\ open' = open \/ (open' = open \union {spans'} /\ spans' = spans + 1)
<1>1. PICK f \in FrameType :
              /\ DOMAIN frames' = 1..Len(frames) + 1
              /\ \A l \in 1..Len(frames) : frames'[l] = frames[l]
              /\ frames'[Len(frames) + 1] = f
              /\ f.ctx = IF Entering = "traced" THEN spans + 1 ELSE context
  BY EnterAt
<1>2. Len(frames) \in Nat /\ DOMAIN frames = 1..Len(frames) /\ spans \in Nat
  BY DEF FrameInv, CountInv
<1>3. /\ UNCHANGED <<setup, observations>> /\ at' = "inject"
      /\ spans' = IF Entering = "traced" THEN spans + 1 ELSE spans
      /\ open' = IF Entering = "traced" THEN open \union {spans + 1} ELSE open
      /\ Entering = setup.layers[Len(frames) + 1]
  BY DEF EnterLayer, observing, Entering, Depth
<1>4. Observed' = Observed
  BY <1>3 DEF Observed
<1>5. Traced' = Traced \union (IF Entering = "traced" THEN {spans + 1} ELSE {})
  BY <1>1, <1>2, <1>3 DEF Traced
<1>6. CASE Entering /= "traced"
  BY <1>3, <1>4, <1>5, <1>6 DEF StackInv
<1>7. CASE Entering = "traced"
  <2>1. observations' \in Seq(1..spans')
    BY <1>2, <1>3, <1>7, SeqMonotonic DEF StackInv
  <2>2. Observed \subseteq 1..spans
    BY ObservedTyped
  <2>3. Traced' \subseteq 1..spans'
    BY <1>2, <1>3, <1>5, <1>7 DEF StackInv
  <2>4. \A o \in Observed', t \in Traced' : o < t
    BY <1>2, <1>4, <1>5, <1>7, <2>2 DEF StackInv
  <2>5. open' = Observed' \union Traced'
    BY <1>3, <1>4, <1>5, <1>7 DEF StackInv
  <2> QED
    BY <1>3, <1>7, <2>1, <2>3, <2>4, <2>5 DEF StackInv
<1> QED
  BY <1>6, <1>7

LEMMA StackInject ==
    ASSUME StackInv, FrameInv, CountInv, InjectReturns \/ InjectPanics
    PROVE  StackInv'
<1>1. /\ DOMAIN frames' = DOMAIN frames
      /\ \A l \in DOMAIN frames : frames'[l].ctx = frames[l].ctx
  BY InjectAt
<1>2. UNCHANGED <<setup, at, observing, spans, open>>
  BY InjectKeeps
<1>3. Traced' = Traced
  BY <1>1, <1>2 DEF Traced
<1> QED
  BY <1>2, <1>3, StackSame DEF observing

LEMMA StackLeave ==
    ASSUME StackInv, FrameInv, CountInv, LeaveLayer
    PROVE  /\ StackInv'
           /\ \/ open' = open
              \/ \E s \in open \ Abandoned : open' = open \ {s} /\ \A t \in open \ Abandoned : t <= s
<1>1. /\ DOMAIN frames' = 1..Depth - 1
      /\ \A l \in 1..Depth - 1 : frames'[l] = frames[l]
  BY LeaveAt
<1>2. /\ Depth \in 1..Len(setup.layers) /\ DOMAIN frames = 1..Depth /\ Frame = frames[Depth]
  BY LeaveAt, TopFrame
<1>3. /\ UNCHANGED <<setup, observations, spans>> /\ at' \notin {"done", "panicked"}
      /\ open' = IF Layer = "traced" THEN open \ {Frame.ctx} ELSE open
      /\ Layer = setup.layers[Depth] /\ Abandoned = {}
  BY DEF LeaveLayer, observing, Layer, Abandoned
<1>4. Len(setup.layers) \in {1, 2} /\ DOMAIN setup.layers = 1..Len(setup.layers)
      /\ \A l \in DOMAIN setup.layers : setup.layers[l] = "traced" => l = Len(setup.layers)
  BY TracedIsInnermost DEF FrameInv
<1>5. \A l \in 1..Depth - 1 : setup.layers[l] /= "traced"
  BY <1>2, <1>4
<1>6. Traced' = {}
  BY <1>1, <1>3, <1>5 DEF Traced
<1>7. Observed' = Observed
  BY <1>3 DEF Observed
<1>8. CASE Layer /= "traced"
  <2>1. Traced = {}
    BY <1>2, <1>3, <1>5, <1>8 DEF Traced
  <2> QED
    BY <1>3, <1>6, <1>8, <2>1, StackSame
<1>9. CASE Layer = "traced"
  <2>1. Traced = {Frame.ctx}
    <3>1. {k \in DOMAIN frames : setup.layers[k] = "traced"} = {Depth}
      BY <1>2, <1>3, <1>4, <1>9
    <3> QED
      BY <1>2, <3>1 DEF Traced
  <2>2. /\ \A o \in Observed : o < Frame.ctx
        /\ Frame.ctx \in 1..spans /\ open = Observed \union {Frame.ctx}
        /\ \A o \in Observed : o \in 1..spans
    BY <2>1, ObservedTyped DEF StackInv
  <2>3. open' = Observed
    BY <1>3, <1>9, <2>2 DEF CountInv
  <2>4. \A t \in open : t <= Frame.ctx
    BY <2>2 DEF CountInv
  <2>5. StackInv'
    BY <1>3, <1>6, <1>7, <2>3 DEF StackInv
  <2> QED
    BY <1>3, <1>9, <2>2, <2>4, <2>5
<1> QED
  BY <1>8, <1>9

\* A step on the stack of spans and observations.
Nests ==
    \/ open' = open
    \/ open' = open \union {spans'} /\ spans' = spans + 1
    \/ \E s \in open \ Abandoned : open' = open \ {s} /\ \A t \in open \ Abandoned : t <= s

LEMMA StackNext ==
    ASSUME StackInv, FrameInv, CountInv, [Next]_vars
    PROVE  StackInv' /\ Nests
<1>1. CASE \E derives, observes \in BOOLEAN : StartReturns(derives, observes)
  BY <1>1, StackStart DEF StartReturns, Nests
<1>2. CASE EnterLayer
  BY <1>2, StackEnter DEF Nests
<1>3. CASE InjectReturns \/ InjectPanics
  BY <1>3, StackInject, InjectKeeps DEF Nests
<1>4. CASE LeaveLayer
  BY <1>4, StackLeave DEF Nests
<1>5. CASE EndObservation
  BY <1>5, StackEnd DEF Nests
<1>6. CASE OperationEnds
  <2>1. UNCHANGED <<setup, observations, spans, open, frames>> /\ observations = <<>>
    BY <1>6 DEF OperationEnds, observing
  <2> QED
    BY <2>1 DEF StackInv, Observed, Traced, Nests
<1>7. CASE \/ StartPanics \/ AttemptEnds \/ OperationOver \/ FirstAttempt \/ Refused \/ HandOn
           \/ HoldBack \/ CheckAnswer \/ Redirect \/ Retry \/ Finish \/ Terminated
           \/ BasePanics \/ \E responds, fails \in BOOLEAN : BaseAnswers(responds, fails)
           \/ UNCHANGED vars
  <2>1. /\ UNCHANGED <<setup, observations, spans, open, frames>>
        /\ at' \in {"done", "panicked"} => at \in {"done", "panicked"}
    BY <1>7 DEF StartPanics, AttemptEnds, OperationOver, FirstAttempt, Refused, HandOn, HoldBack,
                CheckAnswer, Redirect, Retry, Finish, Terminated, BaseAnswers, BasePanics, Send, vars,
                observing
  <2>2. Traced' = Traced
    BY <2>1 DEF Traced
  <2> QED
    BY <2>1, <2>2, StackSame DEF Nests
<1> QED
  BY <1>1, <1>2, <1>3, <1>4, <1>5, <1>6, <1>7 DEF Next

LEMMA StackAlways == Spec => [](FrameInv /\ CountInv /\ StackInv)
<1>1. Init => FrameInv /\ CountInv /\ StackInv
  BY FrameInit, StackInit
<1>2. FrameInv /\ CountInv /\ StackInv /\ [Next]_vars => FrameInv' /\ CountInv' /\ StackInv'
  BY FrameNext, CountNext, StackNext
<1> QED
  BY <1>1, <1>2, PTL DEF Spec

\* SpansNest: MultiObserver ends its observations in the reverse of their order and the
\* traced transport ends its span before it returns, so whichever observers, propagators
\* or layers fail, what is ended is always what was started last; and nothing stays open,
\* except for the span of a round trip in which the base transport panicked.
THEOREM SpansAlwaysNest == Spec => SpansNest
<1>1. FrameInv /\ StackInv => (at \in {"done", "panicked"} => open = Abandoned)
  <2> SUFFICES ASSUME FrameInv, StackInv, at \in {"done", "panicked"} PROVE open = Abandoned
    OBVIOUS
  <2>1. observations = <<>> /\ (at = "done" => frames = <<>>)
    BY DEF FrameInv, StackInv, Within
  <2>2. Observed = {}
    BY <2>1 DEF Observed
  <2> QED
    BY <2>1, <2>2, NoneTraced DEF StackInv, Abandoned
<1>2. FrameInv /\ CountInv /\ StackInv /\ [Next]_vars =>
        [\/ open' = open
         \/ open' = open \union {spans'} /\ spans' = spans + 1
         \/ \E s \in open \ Abandoned : /\ open' = open \ {s}
                                       /\ \A t \in open \ Abandoned : t <= s]_vars
  BY StackNext DEF Nests
<1> QED
  BY <1>1, <1>2, StackAlways, PTL DEF Spec, SpansNest

-----------------------------------------------------------------------------
(***************************************************************************)
(* Headers.  Every layer holds a header field as the last layer down to it *)
(* left it that injected the field, or as the caller did if none has; and  *)
(* a layer that does not trace injects the operation's own context.        *)
(***************************************************************************)
UpTo(p, l) == \E k \in 1..l : p \in frames[k].injected

PairOf(l) ==
    /\ frames[l].headers["left"] = IF UpTo("pair", l) THEN sends ELSE Absent
    /\ frames[l].headers["right"] = IF UpTo("pair", l) THEN sends ELSE Absent
BoundOf(l) ==
    /\ frames[l].headers["bound"] = IF UpTo("bound", l) THEN sends ELSE CallersHeaders["bound"]
    /\ setup.preserve /\ setup.callerSets => frames[l].headers["bound"] = CallerSet
LastUpTo(p, k, l) ==
    p \in frames[k].injected /\ \A m \in 1..l : p \in frames[m].injected => m <= k
TraceOf(l) ==
    IF UpTo("trace", l)
    THEN \E k \in 1..l : LastUpTo("trace", k, l) /\ frames[l].headers["trace"] = frames[k].ctx
    ELSE frames[l].headers["trace"] = Absent
ContextOf(l) == setup.layers[l] /= "traced" => frames[l].ctx = context

HeadersOf(l) == PairOf(l) /\ BoundOf(l) /\ TraceOf(l) /\ ContextOf(l)
HeaderInv == \A l \in DOMAIN frames : HeadersOf(l)

\* What a layer holds depends on the layers down to it only.
LEMMA HeadersSame ==
    ASSUME NEW l \in Nat \ {0}, HeadersOf(l), UNCHANGED <<setup, sends, context>>,
           \A k \in 1..l : frames'[k] = frames[k]
    PROVE  HeadersOf(l)'
<1>0. frames'[l] = frames[l] /\ CallersHeaders' = CallersHeaders
  BY DEF CallersHeaders
<1>1. \A p : UpTo(p, l)' <=> UpTo(p, l)
  BY DEF UpTo
<1>2. PairOf(l)' /\ BoundOf(l)' /\ ContextOf(l)'
  BY <1>0, <1>1 DEF HeadersOf, PairOf, BoundOf, ContextOf
<1>3. \A k \in 1..l : LastUpTo("trace", k, l)' <=> LastUpTo("trace", k, l)
  BY DEF LastUpTo
<1>4. TraceOf(l)'
  BY <1>0, <1>1, <1>3 DEF HeadersOf, TraceOf
<1> QED
  BY <1>2, <1>4 DEF HeadersOf

LEMMA HeaderEnter ==
    ASSUME HeaderInv, FrameInv, CountInv, EnterLayer
    PROVE  HeaderInv'
<1>0. PICK n \in Nat \ {0} : n = Len(frames) + 1
  BY DEF FrameInv
<1>1. PICK f \in FrameType :
              /\ DOMAIN frames' = 1..Len(frames) + 1
              /\ \A l \in 1..Len(frames) : frames'[l] = frames[l]
              /\ frames'[Len(frames) + 1] = f
              /\ f.headers = HeadersAbove /\ f.injected = {}
              /\ f.ctx = IF Entering = "traced" THEN spans + 1 ELSE context
  BY EnterAt
<1>2. Len(frames) \in Nat /\ DOMAIN frames = 1..Len(frames) /\ own = CallersHeaders
  BY DEF FrameInv
<1>3. UNCHANGED <<setup, sends, context>> /\ Entering = setup.layers[n] /\ CallersHeaders' = CallersHeaders
  BY <1>0 DEF EnterLayer, observing, counters, Entering, Depth, CallersHeaders
<1>4. ASSUME NEW l \in 1..Len(frames)
      PROVE  HeadersOf(l)'
  <2>1. HeadersOf(l) /\ l \in Nat \ {0} /\ \A k \in 1..l : frames'[k] = frames[k]
    BY <1>1, <1>2 DEF HeaderInv
  <2> QED
    BY <1>3, <2>1, HeadersSame
<1>5. /\ frames'[n].headers = HeadersAbove /\ frames'[n].injected = {}
      /\ ContextOf(n)'
  BY <1>0, <1>1, <1>3 DEF ContextOf
<1>6. CASE frames = <<>>
  <2>1. n = 1 /\ HeadersAbove = CallersHeaders
    BY <1>0, <1>2, <1>6 DEF HeadersAbove
  <2>2. \A p : ~UpTo(p, n)'
    BY <1>5, <2>1 DEF UpTo
  <2>3. /\ CallersHeaders["left"] = Absent /\ CallersHeaders["right"] = Absent
        /\ CallersHeaders["trace"] = Absent
        /\ setup.callerSets => CallersHeaders["bound"] = CallerSet
    BY DEF CallersHeaders, HeaderNames
  <2>4. PairOf(n)' /\ BoundOf(n)' /\ TraceOf(n)'
    BY <1>3, <1>5, <2>1, <2>2, <2>3 DEF PairOf, BoundOf, TraceOf
  <2> QED
    BY <1>0, <1>1, <1>2, <1>5, <2>1, <2>4 DEF HeaderInv, HeadersOf
<1>7. CASE frames /= <<>>
  <2>1. PICK d \in Nat \ {0} : d = Len(frames) /\ n = d + 1
    <3>1. Len(frames) \in Nat \ {0}
      BY <1>2, <1>7, TopFrame DEF Depth
    <3> QED
      BY <1>0, <3>1
  <2>2. HeadersOf(d)' /\ frames'[d] = frames[d]
    BY <1>1, <1>4, <2>1
  <2>3. frames'[n].headers = frames'[d].headers
    BY <1>5, <1>7, <2>1, <2>2 DEF HeadersAbove, Last
  <2>4. \A p : UpTo(p, n)' <=> UpTo(p, d)'
    BY <1>5, <2>1 DEF UpTo
  <2>5. PairOf(n)' /\ BoundOf(n)'
    BY <2>2, <2>3, <2>4 DEF PairOf, BoundOf, HeadersOf
  <2>6. \A k \in 1..d : LastUpTo("trace", k, d)' => LastUpTo("trace", k, n)' /\ k \in 1..n
    BY <1>5, <2>1 DEF LastUpTo
  <2>7. TraceOf(n)'
    BY <2>2, <2>3, <2>4, <2>6 DEF TraceOf, HeadersOf
  <2>8. HeadersOf(n)'
    BY <1>5, <2>5, <2>7 DEF HeadersOf
  <2> QED
    BY <1>0, <1>1, <1>2, <1>4, <2>8 DEF HeaderInv
<1> QED
  BY <1>6, <1>7

\* What a completed injection leaves of each field.
LEMMA Written ==
    ASSUME NEW p \in {"trace", "pair", "bound"}, NEW headers \in [HeaderNames -> Int],
           NEW after, after = Overlaid(headers, Writes(p))
    PROVE  /\ after["left"] = IF p = "pair" THEN sends ELSE headers["left"]
           /\ after["right"] = IF p = "pair" THEN sends ELSE headers["right"]
           /\ after["bound"] = IF p = "bound" THEN sends ELSE headers["bound"]
           /\ after["trace"] = IF p = "trace" THEN Frame.ctx ELSE headers["trace"]
<1>1. CASE p = "trace"
  BY <1>1 DEF Overlaid, Writes, HeaderNames
<1>2. CASE p = "pair"
  BY <1>2 DEF Overlaid, Writes, HeaderNames
<1>3. CASE p = "bound"
  BY <1>3 DEF Overlaid, Writes, HeaderNames
<1> QED
  BY <1>1, <1>2, <1>3

LEMMA HeaderInject ==
    ASSUME HeaderInv, FrameInv, CountInv, InjectReturns \/ InjectPanics
    PROVE  HeaderInv'
<1>1. PICK headers \in [HeaderNames -> Int], injected \in SUBSET {"trace", "pair", "bound"} :
              /\ Untouched(headers, injected) \/ Completed(headers, injected)
              /\ DOMAIN frames' = DOMAIN frames
              /\ \A l \in DOMAIN frames : /\ l /= Depth => frames'[l] = frames[l]
                                          /\ frames'[l].ctx = frames[l].ctx
              /\ frames'[Depth].headers = headers /\ frames'[Depth].injected = injected
  BY InjectAt
<1>2. frames /= <<>> /\ Propagator \in {"trace", "pair", "bound"}
  BY InjectTyped
<1>3. PICK d \in Nat \ {0} : /\ d = Depth /\ DOMAIN frames = 1..d
                             /\ Frame = frames[d] /\ Frame \in FrameType
  BY <1>2, TopFrame
<1>4. UNCHANGED <<setup, sends, context>> /\ CallersHeaders' = CallersHeaders
  BY InjectKeeps DEF observing, counters, CallersHeaders
<1>5. ASSUME NEW l \in 1..d, l /= d
      PROVE  HeadersOf(l)'
  <2>1. HeadersOf(l) /\ l \in Nat \ {0} /\ \A k \in 1..l : frames'[k] = frames[k]
    BY <1>1, <1>3, <1>5 DEF HeaderInv
  <2> QED
    BY <1>4, <2>1, HeadersSame
<1>6. HeadersOf(d)
  BY <1>3 DEF HeaderInv
<1>7. ContextOf(d)'
  BY <1>1, <1>3, <1>4, <1>6 DEF ContextOf, HeadersOf
<1>8. \A k \in 1..d : /\ k /= d => frames'[k] = frames[k]
                      /\ frames'[k].ctx = frames[k].ctx
  BY <1>1, <1>3
<1>9. frames'[d].headers = headers /\ frames'[d].injected = injected
  BY <1>1, <1>3
<1>10. CASE Untouched(headers, injected)
  <2>1. frames'[d].headers = frames[d].headers /\ frames'[d].injected = frames[d].injected
    BY <1>3, <1>9, <1>10 DEF Untouched
  <2>2. \A k \in 1..d : frames'[k].injected = frames[k].injected
    BY <1>8, <2>1
  <2>3. \A p : UpTo(p, d)' <=> UpTo(p, d)
    BY <2>2 DEF UpTo
  <2>4. \A k \in 1..d : LastUpTo("trace", k, d)' <=> LastUpTo("trace", k, d)
    BY <2>2 DEF LastUpTo
  <2>5. PairOf(d)' /\ BoundOf(d)'
    BY <1>4, <1>6, <2>1, <2>3 DEF PairOf, BoundOf, HeadersOf
  <2>6. TraceOf(d)'
    BY <1>6, <1>8, <2>1, <2>3, <2>4 DEF TraceOf, HeadersOf
  <2> QED
    BY <1>1, <1>3, <1>5, <1>7, <2>5, <2>6 DEF HeaderInv, HeadersOf
<1>11. CASE Completed(headers, injected)
  <2>1. PICK q \in {"trace", "pair", "bound"} :
           /\ q = Propagator /\ injected = frames[d].injected \union {q}
           /\ headers = Overlaid(frames[d].headers, Writes(q))
           /\ ~Preserves(q, frames[d].headers)
    BY <1>2, <1>3, <1>11 DEF Completed
  <2>2. frames[d].headers \in [HeaderNames -> Int]
    BY <1>3 DEF FrameType
  <2>3. /\ headers["left"] = IF q = "pair" THEN sends ELSE frames[d].headers["left"]
        /\ headers["right"] = IF q = "pair" THEN sends ELSE frames[d].headers["right"]
        /\ headers["bound"] = IF q = "bound" THEN sends ELSE frames[d].headers["bound"]
        /\ headers["trace"] = IF q = "trace" THEN frames[d].ctx ELSE frames[d].headers["trace"]
    BY <1>3, <2>1, <2>2, Written
  <2>4. \A p : UpTo(p, d)' <=> (p = q \/ UpTo(p, d))
    BY <1>8, <1>9, <2>1 DEF UpTo
  <2>5. PairOf(d)'
    BY <1>4, <1>6, <1>9, <2>3, <2>4 DEF PairOf, HeadersOf
  <2>6. BoundOf(d)'
    <3>1. CASE q = "bound"
      <4>1. ~(setup.preserve /\ setup.callerSets)
        BY <1>6, <2>1, <3>1 DEF Preserves, HeadersOf, BoundOf, CallerSet, Absent
      <4> QED
        BY <1>4, <1>9, <2>3, <2>4, <3>1, <4>1 DEF BoundOf
    <3>2. CASE q /= "bound"
      BY <1>4, <1>6, <1>9, <2>3, <2>4, <3>2 DEF BoundOf, HeadersOf
    <3> QED
      BY <3>1, <3>2
  <2>7. TraceOf(d)'
    <3>1. CASE q = "trace"
      <4>1. LastUpTo("trace", d, d)'
        BY <1>9, <2>1, <3>1 DEF LastUpTo
      <4>2. frames'[d].headers["trace"] = frames'[d].ctx /\ d \in 1..d
        BY <1>8, <1>9, <2>3, <3>1
      <4> QED
        BY <2>4, <3>1, <4>1, <4>2 DEF TraceOf
    <3>2. CASE q /= "trace"
      <4>1. \A k \in 1..d : "trace" \in frames'[k].injected <=> "trace" \in frames[k].injected
        BY <1>8, <1>9, <2>1, <3>2
      <4>2. \A k \in 1..d : LastUpTo("trace", k, d)' <=> LastUpTo("trace", k, d)
        BY <4>1 DEF LastUpTo
      <4>3. frames'[d].headers["trace"] = frames[d].headers["trace"]
        BY <1>9, <2>3, <3>2
      <4> QED
        BY <1>6, <1>8, <2>4, <3>2, <4>2, <4>3 DEF TraceOf, HeadersOf
    <3> QED
      BY <3>1, <3>2
  <2> QED
    BY <1>1, <1>3, <1>5, <1>7, <2>5, <2>6, <2>7 DEF HeaderInv, HeadersOf
<1> QED
  BY <1>1, <1>10, <1>11

LEMMA HeaderNext ==
    ASSUME HeaderInv, FrameInv, CountInv, [Next]_vars
    PROVE  HeaderInv'
<1>1. CASE EnterLayer
  BY <1>1, HeaderEnter
<1>2. CASE InjectReturns \/ InjectPanics
  BY <1>2, HeaderInject
<1>3. CASE LeaveLayer
  <2>1. PICK d \in Nat \ {0} : /\ d = Depth /\ DOMAIN frames = 1..d
    BY <1>3, LeaveAt, TopFrame
  <2>2. DOMAIN frames' = 1..d - 1 /\ \A l \in 1..d - 1 : frames'[l] = frames[l]
    BY <1>3, <2>1, LeaveAt
  <2>3. UNCHANGED <<setup, sends, context>>
    BY <1>3 DEF LeaveLayer, observing, counters
  <2>4. ASSUME NEW l \in 1..d - 1
        PROVE  HeadersOf(l)'
    <3>1. HeadersOf(l) /\ l \in Nat \ {0} /\ \A k \in 1..l : frames'[k] = frames[k]
      BY <2>1, <2>2 DEF HeaderInv
    <3> QED
      BY <2>3, <3>1, HeadersSame
  <2> QED
    BY <2>2, <2>4 DEF HeaderInv
<1>4. CASE \/ FirstAttempt \/ Redirect \/ Retry
           \/ \E derives, observes \in BOOLEAN : StartReturns(derives, observes)
  <2>1. frames' = <<>>
    BY <1>4 DEF FirstAttempt, Redirect, Retry, Send, StartReturns, FrameInv, Within
  <2> QED
    BY <2>1 DEF HeaderInv
<1>5. CASE \/ StartPanics \/ AttemptEnds \/ OperationOver \/ Refused \/ HandOn
           \/ HoldBack \/ CheckAnswer \/ Finish \/ Terminated \/ EndObservation \/ OperationEnds
           \/ BasePanics \/ \E responds, fails \in BOOLEAN : BaseAnswers(responds, fails)
           \/ UNCHANGED vars
  <2>1. UNCHANGED <<setup, sends, context, frames>>
    BY <1>5 DEF StartPanics, AttemptEnds, OperationOver, Refused, HandOn, HoldBack, CheckAnswer,
                Finish, Terminated, EndObservation, OperationEnds, BaseAnswers, BasePanics, vars, observing,
                counters
  <2>2. DOMAIN frames' = 1..Len(frames) /\ DOMAIN frames = 1..Len(frames) /\ Len(frames) \in Nat
    BY <2>1 DEF FrameInv
  <2>3. ASSUME NEW l \in 1..Len(frames)
        PROVE  HeadersOf(l)'
    <3>1. HeadersOf(l) /\ l \in Nat \ {0} /\ \A k \in 1..l : frames'[k] = frames[k]
      BY <2>1, <2>2 DEF HeaderInv
    <3> QED
      BY <2>1, <3>1, HeadersSame
  <2> QED
    BY <2>2, <2>3 DEF HeaderInv
<1> QED
  BY <1>1, <1>2, <1>3, <1>4, <1>5 DEF Next

-----------------------------------------------------------------------------
(***************************************************************************)
(* The resend count: each round trip takes one number, before the request  *)
(* is handed to the base transport, and not every one comes that far.      *)
(***************************************************************************)
Innermost == setup.layers[Len(setup.layers)]
InInnermost == Len(frames) = Len(setup.layers)

ResendInv ==
    Innermost = "traced" =>
        /\ handed <= resends /\ resends <= sends
        /\ at = "layer" \/ (at = "inject" /\ ~InInnermost) => resends < sends
        /\ at = "inject" /\ InInnermost => handed < resends
        /\ at \in {"inject", "base"} /\ InInnermost => frames[Len(frames)].resend = resends - 1

LEMMA ResendNext ==
    ASSUME ResendInv, FrameInv, CountInv, [Next]_vars
    PROVE  ResendInv'
<1>0. /\ Len(frames) \in Nat /\ Len(setup.layers) \in Nat \ {0}
      /\ sends \in Nat /\ resends \in Nat /\ handed \in Nat
  BY TracedIsInnermost DEF FrameInv, CountInv
<1>i. UNCHANGED setup /\ Innermost' = Innermost
  BY DEF Next, vars, Innermost, AttemptEnds, OperationOver, StartPanics, StartReturns, FirstAttempt,
         Refused, EnterLayer, InjectReturns, InjectPanics, InjectStep, HandOn, HoldBack, BaseAnswers, BasePanics,
         CheckAnswer, LeaveLayer, Redirect, Retry, Finish, EndObservation, OperationEnds, Terminated, Send
<1> SUFFICES ASSUME Innermost = "traced" PROVE ResendInv'
  BY <1>i DEF ResendInv
<1>1. CASE EnterLayer
  <2>1. /\ Len(frames') = Len(frames) + 1 /\ Len(frames) < Len(setup.layers)
        /\ frames'[Len(frames')].resend = IF Entering = "traced" THEN resends ELSE 0
    BY <1>1, EnterAt DEF EnterLayer, Depth
  <2>2. /\ at = "layer" /\ at' = "inject" /\ UNCHANGED <<handed, sends>>
        /\ resends' = IF Entering = "traced" THEN resends + 1 ELSE resends
    BY <1>1 DEF EnterLayer
  <2>3. Entering = "traced" <=> Len(frames') = Len(setup.layers)
    <3>1. Entering = setup.layers[Len(frames) + 1]
      BY DEF Entering, Depth
    <3>2. Len(frames) + 1 \in DOMAIN setup.layers
      BY <1>0, <2>1, TracedIsInnermost DEF FrameInv
    <3> QED
      BY <2>1, <3>1, <3>2, TracedIsInnermost DEF FrameInv, Innermost
  <2> QED
    BY <1>0, <1>i, <2>1, <2>2, <2>3 DEF ResendInv, InInnermost
<1>2. CASE InjectReturns \/ InjectPanics
  <2>1. Len(frames') = Len(frames) /\ frames'[Len(frames)].resend = frames[Len(frames)].resend
    BY <1>2, InjectAt, InjectTyped, TopFrame DEF Depth
  <2>2. UNCHANGED <<at, handed, sends, resends>>
    BY <1>2, InjectKeeps DEF counters
  <2> QED
    BY <1>i, <2>1, <2>2 DEF ResendInv, InInnermost
<1>3. CASE LeaveLayer
  BY <1>3, <1>i DEF LeaveLayer, counters, ResendInv
<1>4. CASE HandOn
  BY <1>0, <1>4, <1>i DEF HandOn, ResendInv, InInnermost, Depth, FrameInv
<1>5. CASE FirstAttempt \/ Redirect \/ Retry
  <2>1. /\ sends' = sends + 1 /\ UNCHANGED <<handed, resends>> /\ at' = "layer"
    BY <1>5 DEF FirstAttempt, Redirect, Retry, Send
  <2> QED
    BY <1>0, <1>i, <2>1 DEF ResendInv
<1>6. CASE \/ Refused \/ HoldBack \/ CheckAnswer \/ Finish \/ OperationEnds
           \/ BasePanics \/ \E responds, fails \in BOOLEAN : BaseAnswers(responds, fails)
  <2>1. /\ UNCHANGED <<handed, sends, resends>>
        /\ at' \in {"end", "leave", "done", "check", "unwind", "panicked"}
    BY <1>6 DEF Refused, HoldBack, CheckAnswer, Finish, OperationEnds, BaseAnswers, BasePanics,
                counters
  <2> QED
    BY <1>i, <2>1 DEF ResendInv
<1>7. CASE \/ StartPanics \/ AttemptEnds \/ OperationOver \/ EndObservation \/ Terminated
           \/ UNCHANGED vars \/ \E derives, observes \in BOOLEAN : StartReturns(derives, observes)
  <2>1. UNCHANGED <<at, handed, sends, resends, frames>>
    BY <1>7 DEF StartPanics, AttemptEnds, OperationOver, EndObservation, Terminated, StartReturns,
                vars, counters
  <2> QED
    BY <1>i, <2>1 DEF ResendInv, InInnermost
<1> QED
  BY <1>1, <1>2, <1>3, <1>4, <1>5, <1>6, <1>7 DEF Next

WireInv == FrameInv /\ CountInv /\ StackInv /\ HeaderInv /\ ResendInv

LEMMA WireAlways == Spec => []WireInv
<1>1. Init => WireInv
  <2> SUFFICES ASSUME Init PROVE HeaderInv /\ ResendInv
    BY FrameInit, StackInit DEF WireInv
  <2>1. frames = <<>> /\ at = "observe" /\ handed = 0 /\ resends = 0 /\ sends = 0
    BY DEF Init
  <2> QED
    BY <2>1 DEF HeaderInv, ResendInv
<1>2. WireInv /\ [Next]_vars => WireInv'
  BY FrameNext, CountNext, StackNext, HeaderNext, ResendNext DEF WireInv
<1> QED
  BY <1>1, <1>2, PTL DEF Spec

LEMMA WireFromInv == ASSUME WireInv, at = "base" PROVE WireHeaders
<1>1. PICK d \in Nat \ {0} : /\ d = Depth /\ d = Len(frames) /\ d = Len(setup.layers)
                             /\ DOMAIN frames = 1..d /\ Frame = frames[d]
  <2>1. Len(frames) = Len(setup.layers) /\ Len(setup.layers) \in {1, 2}
    BY TracedIsInnermost DEF WireInv, FrameInv
  <2>2. frames /= <<>>
    BY <2>1
  <2> QED
    BY <2>1, <2>2, TopFrame DEF WireInv, Depth
<1>2. PICK wire : wire = Frame.headers
  OBVIOUS
<1>3. HeadersOf(d) /\ wire = frames[d].headers
  BY <1>1, <1>2 DEF WireInv, HeaderInv
<1>4. \A p : Injected(p) <=> UpTo(p, d)
  BY <1>1 DEF Injected, UpTo
<1>5. \A l \in 1..d : LastToInject("trace", l) <=> LastUpTo("trace", l, d)
  BY <1>1 DEF LastToInject, LastUpTo
<1>6. /\ wire["left"] = wire["right"]
      /\ wire["left"] = IF Injected("pair") THEN sends ELSE Absent
      /\ wire["bound"] = IF Injected("bound") THEN sends ELSE CallersHeaders["bound"]
      /\ (setup.preserve /\ setup.callerSets) => wire["bound"] = CallerSet
  BY <1>3, <1>4 DEF HeadersOf, PairOf, BoundOf
<1>7. IF Injected("trace")
      THEN \E l \in DOMAIN frames : LastToInject("trace", l) /\ wire["trace"] = frames[l].ctx
      ELSE wire["trace"] = Absent
  BY <1>1, <1>3, <1>4, <1>5 DEF HeadersOf, TraceOf
<1>8. wire["trace"] \in open \union {Absent, context}
  <2>1. ASSUME NEW l \in DOMAIN frames PROVE frames[l].ctx \in open \union {context}
    <3>1. CASE setup.layers[l] = "traced"
      BY <3>1 DEF WireInv, StackInv, Traced
    <3>2. CASE setup.layers[l] /= "traced"
      BY <3>2 DEF WireInv, HeaderInv, HeadersOf, ContextOf
    <3> QED
      BY <3>1, <3>2
  <2> QED
    BY <1>7, <2>1
<1>9. Layer = "traced" => Frame.resend \in handed - 1..sends - 1
  <2> SUFFICES ASSUME Layer = "traced" PROVE Frame.resend \in handed - 1..sends - 1
    OBVIOUS
  <2>1. Innermost = "traced" /\ InInnermost
    BY <1>1 DEF Layer, Innermost, InInnermost
  <2>2. Frame.resend = resends - 1 /\ handed <= resends /\ resends <= sends
    BY <1>1, <2>1 DEF WireInv, ResendInv
  <2> QED
    BY <2>2 DEF WireInv, CountInv
<1> QED
  BY <1>2, <1>6, <1>7, <1>8, <1>9 DEF WireHeaders

\* WireHeaders: whichever propagators panic and however often the request is sent again,
\* what reaches the base transport are the caller's headers and this round trip's own
\* complete injections, with a span that is open and a resend count that covers the
\* requests handed over before.
THEOREM WireHeadersHold == Spec => []WireHeaders
<1>1. WireInv => WireHeaders
  BY WireFromInv DEF WireHeaders
<1> QED
  BY <1>1, WireAlways, PTL
=============================================================================
