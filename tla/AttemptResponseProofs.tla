----------------------- MODULE AttemptResponseProofs -----------------------
(***************************************************************************)
(* The wrapper of a returned body implements BodyLease for any number of   *)
(* goroutines that use the body: whoever finishes first, and wherever the  *)
(* context's callback fires, the contexts are released once, no callback   *)
(* is left behind, and nobody returns too early.                           *)
(*                                                                         *)
(* And the delay before a retry stays within its limits, for any width of  *)
(* the durations and any floats that round as RetryDelayAssumption says.   *)
(***************************************************************************)
EXTENDS AttemptResponse, TLAPS

Inside == {"mark", "stop", "complete"}
Outside == {"idle", "once"}

WrapperTypes ==
    /\ at \in [Goroutines -> Outside \union Inside \union {"leave", "returned"}]
    /\ callback \in {"none", "armed", "fired", "stopped"}
    /\ once \in {"idle", "running", "done"}
    /\ stop \in BOOLEAN /\ finished \in BOOLEAN

\* sync.Once: one goroutine is in the function, everyone else before it; the
\* contexts are released when it is done.
OnceInv ==
    /\ once = "idle" => \A g \in Goroutines : at[g] \in Outside
    /\ once = "running" => \E g \in Goroutines :
          at[g] \in Inside /\ \A h \in Goroutines : h # g => at[h] \in Outside
    /\ once = "done" => \A g \in Goroutines : at[g] \in Outside \union {"leave", "returned"}
    /\ releases = IF once = "done" THEN 1 ELSE 0

\* A registered callback can be stopped: either setStop has yet to run, or b.stop is set,
\* or finish is about to call it.
StopInv ==
    /\ step = "attach" => callback = "none" /\ once = "idle" /\ \A g \in Goroutines : at[g] = "idle"
    /\ callback = "armed" =>
          \/ step = "setStop" /\ \A g \in Goroutines : at[g] = "idle"
          \/ step = "returned" /\ (stop \/ \E g \in Goroutines : at[g] = "stop")
    /\ finished => ~stop
    /\ \A g \in Goroutines : at[g] \in {"stop", "complete"} => finished
    /\ at[Callback] # "idle" => callback = "fired"

LeaseInv == WrapperTypes /\ OnceInv /\ StopInv

LEMMA CallbackGoroutine == Callback \in Goroutines /\ Users \subseteq Goroutines /\ Callback \notin Users
  BY AttemptResponseAssumption DEF Goroutines

LEMMA LeaseInit == Init => LeaseInv
<1> SUFFICES ASSUME Init PROVE LeaseInv
  OBVIOUS
<1>1. at = [g \in Goroutines |-> "idle"] /\ callback = "none" /\ once = "idle" /\ stop = FALSE
      /\ finished = FALSE /\ releases = 0
  BY DEF Init
<1>2. WrapperTypes /\ OnceInv
  BY <1>1 DEF WrapperTypes, OnceInv, Outside
<1>3. StopInv
  BY <1>1, CallbackGoroutine DEF StopInv
<1>4. QED
  BY <1>2, <1>3 DEF LeaseInv

\* Steps that leave the wrapper alone leave the attachment behind or where it was.
LEMMA QuietLease ==
    ASSUME LeaseInv, UNCHANGED wrapper,
           step' = step \/ (step \notin {"setStop", "returned"} /\ step' # "attach")
    PROVE  LeaseInv'
<1>1. WrapperTypes'
  BY DEF LeaseInv, wrapper, WrapperTypes
<1>2. OnceInv'
  BY DEF LeaseInv, wrapper, OnceInv
<1>3. StopInv'
  BY DEF LeaseInv, wrapper, StopInv
<1>4. QED
  BY <1>1, <1>2, <1>3 DEF LeaseInv

LEMMA OtherStep ==
    ASSUME \/ CallerCancels \/ \E c \in Contexts : DeadlinePasses(c)
           \/ ReturnUnwrapped \/ SelectDelay \/ StartDrain \/ DiscardUndrained
           \/ DrainByte \/ BodyEnds \/ DrainStops \/ WaitInterrupted \/ DelayElapses
           \/ Terminated \/ UNCHANGED vars
    PROVE  /\ UNCHANGED wrapper
           /\ step' = step \/ (step \notin {"setStop", "returned"} /\ step' # "attach")
  BY DEF CallerCancels, DeadlinePasses, ReturnUnwrapped, SelectDelay, StartDrain, DiscardUndrained,
         DrainByte, BodyEnds, DrainStops, DrainEnds, WaitInterrupted, DelayElapses, Terminated, vars

LEMMA RegisterLease == ASSUME LeaseInv, RegisterCallback PROVE LeaseInv'
<1>1. /\ step = "attach" /\ step' = "setStop" /\ once = "idle"
      /\ UNCHANGED <<stop, finished, once, releases>> /\ \A g \in Goroutines : at[g] = "idle"
  BY DEF RegisterCallback, LeaseInv, StopInv
<1>2. CASE "attempt" \in over
  <2>1. callback' = "fired" /\ at' = [at EXCEPT ![Callback] = "once"]
    BY <1>2 DEF RegisterCallback
  <2>2. \A g \in Goroutines : at'[g] \in Outside
    BY <1>1, <2>1 DEF LeaseInv, WrapperTypes, Outside
  <2>3. WrapperTypes'
    BY <1>1, <2>1 DEF LeaseInv, WrapperTypes, Outside
  <2>4. OnceInv'
    BY <1>1, <2>2 DEF LeaseInv, OnceInv
  <2>5. StopInv'
    BY <1>1, <2>1, <2>2 DEF LeaseInv, StopInv, Outside
  <2>6. QED
    BY <2>3, <2>4, <2>5 DEF LeaseInv
<1>3. CASE "attempt" \notin over
  <2>1. callback' = "armed" /\ at' = at
    BY <1>3 DEF RegisterCallback
  <2>2. QED
    BY <1>1, <2>1 DEF LeaseInv, WrapperTypes, OnceInv, StopInv
<1>4. QED
  BY <1>2, <1>3

LEMMA SetStopLease == ASSUME LeaseInv, SetStop PROVE LeaseInv'
<1>1. /\ step = "setStop" /\ step' = "returned" /\ UNCHANGED <<finished, once, at, releases>>
      /\ callback' \in {callback, "stopped"}
  BY DEF SetStop, Stopped
<1>2. OnceInv'
  BY <1>1 DEF LeaseInv, OnceInv
<1>3. CASE finished
  <2>1. callback' # "armed" /\ (callback = "fired" => callback' = "fired") /\ stop' = stop
    BY <1>3 DEF SetStop, Stopped, LeaseInv, WrapperTypes
  <2>2. WrapperTypes' /\ StopInv'
    BY <1>1, <2>1 DEF LeaseInv, WrapperTypes, StopInv
  <2>3. QED
    BY <1>2, <2>2 DEF LeaseInv
<1>4. CASE ~finished
  <2>1. callback' = callback /\ stop' = TRUE
    BY <1>4 DEF SetStop
  <2>2. WrapperTypes' /\ StopInv'
    BY <1>1, <1>4, <2>1 DEF LeaseInv, WrapperTypes, StopInv
  <2>3. QED
    BY <1>2, <2>2 DEF LeaseInv
<1>5. QED
  BY <1>3, <1>4

\* A goroutine that is not inside the Once, and does not enter it, moves on.
LEMMA MoveLease ==
    ASSUME LeaseInv, NEW g \in Goroutines, NEW to \in Outside \union {"leave", "returned"},
           at[g] \notin Inside, at' = [at EXCEPT ![g] = to],
           to \in {"leave", "returned"} => once = "done",
           callback' \in {callback, "fired"}, callback' = "armed" => step = "returned",
           g = Callback => callback' = "fired", step # "attach", UNCHANGED <<step, stop, finished, once, releases>>
    PROVE  LeaseInv'
<1>1. \A h \in Goroutines : at'[h] = IF h = g THEN to ELSE at[h]
  BY DEF LeaseInv, WrapperTypes
<1>2. WrapperTypes'
  BY DEF LeaseInv, WrapperTypes
<1>3. OnceInv'
  <2>1. CASE once = "running"
    <3>1. PICK w \in Goroutines : at[w] \in Inside /\ \A h \in Goroutines : h # w => at[h] \in Outside
      BY <2>1 DEF LeaseInv, OnceInv
    <3>2. w # g /\ to \in Outside
      BY <3>1, <2>1
    <3>3. at'[w] \in Inside /\ \A h \in Goroutines : h # w => at'[h] \in Outside
      BY <1>1, <3>1, <3>2
    <3>4. QED
      BY <2>1, <3>3 DEF LeaseInv, OnceInv
  <2>2. CASE once # "running"
    BY <1>1, <2>2 DEF LeaseInv, OnceInv
  <2>3. QED
    BY <2>1, <2>2
<1>4. StopInv'
  <2>1. \A h \in Goroutines : at'[h] \in {"stop", "complete"} => finished
    BY <1>1 DEF LeaseInv, StopInv, Outside
  <2>2. callback' = "armed" => stop \/ \E h \in Goroutines : at'[h] = "stop"
    BY <1>1 DEF LeaseInv, StopInv, Inside
  <2>3. at'[Callback] # "idle" => callback' = "fired"
    BY <1>1, CallbackGoroutine DEF LeaseInv, StopInv
  <2>4. QED
    BY <2>1, <2>2, <2>3 DEF LeaseInv, StopInv
<1>5. QED
  BY <1>2, <1>3, <1>4 DEF LeaseInv

LEMMA FiresLease == ASSUME LeaseInv, CallbackFires PROVE LeaseInv'
<1>1. /\ callback = "armed" /\ callback' = "fired" /\ at' = [at EXCEPT ![Callback] = "once"]
      /\ UNCHANGED <<step, stop, finished, once, releases>>
  BY DEF CallbackFires
<1>2. at[Callback] = "idle" /\ step # "attach"
  BY <1>1 DEF LeaseInv, StopInv
<1>3. "once" \in Outside \union {"leave", "returned"} /\ at[Callback] \notin Inside
  BY <1>2 DEF Outside, Inside
<1>4. QED
  BY <1>1, <1>2, <1>3, CallbackGoroutine, MoveLease

LEMMA UserLease == ASSUME LeaseInv, NEW u \in Users, UserFinishes(u) PROVE LeaseInv'
<1>1. /\ step = "returned" /\ at[u] = "idle" /\ at' = [at EXCEPT ![u] = "once"]
      /\ UNCHANGED <<step, callback, stop, finished, once, releases>>
  BY DEF UserFinishes
<1>2. "once" \in Outside \union {"leave", "returned"} /\ at[u] \notin Inside
  BY <1>1 DEF Outside, Inside
<1>3. u \in Goroutines /\ u # Callback
  BY CallbackGoroutine
<1>4. QED
  BY <1>1, <1>2, <1>3, MoveLease

LEMMA LeaveLease == ASSUME LeaseInv, NEW g \in Goroutines, Leave(g) PROVE LeaseInv' /\ releases = 1
<1>2. at[g] \in {"leave", "once"} /\ (at[g] = "once" => once = "done") /\ at' = [at EXCEPT ![g] = "returned"]
  BY DEF Leave, PassesOnce
<1>3. once = "done"
  BY <1>2 DEF LeaseInv, WrapperTypes, OnceInv, Outside, Inside
<1>4. step # "attach" /\ (g = Callback => callback = "fired")
  BY <1>2, CallbackGoroutine DEF LeaseInv, StopInv
<1>5. callback = "armed" => step = "returned"
  BY <1>2 DEF LeaseInv, StopInv
<1>6. "returned" \in Outside \union {"leave", "returned"} /\ at[g] \notin Inside
  BY <1>2 DEF Inside
<1>7. UNCHANGED <<step, callback, stop, finished, once, releases>>
  BY DEF Leave
<1>8. LeaseInv'
  BY <1>2, <1>3, <1>4, <1>5, <1>6, <1>7, MoveLease
<1>9. QED
  BY <1>3, <1>8 DEF LeaseInv, OnceInv

\* Whoever is inside is alone there, and came after the attachment.
LEMMA InsideAlone ==
    ASSUME LeaseInv, NEW g \in Goroutines, at[g] \in Inside
    PROVE  /\ once = "running" /\ \A h \in Goroutines : h # g => at[h] \in Outside
           /\ step # "attach" /\ (callback = "armed" => step = "returned")
           /\ g = Callback => callback = "fired"
<1>1. at[g] \notin Outside \union {"leave", "returned"}
  BY DEF Inside, Outside
<1>2. once = "running"
  BY <1>1 DEF LeaseInv, WrapperTypes, OnceInv
<1>3. PICK w \in Goroutines : at[w] \in Inside /\ \A h \in Goroutines : h # w => at[h] \in Outside
  BY <1>2 DEF LeaseInv, OnceInv
<1>4. w = g
  BY <1>1, <1>3
<1>5. at[g] # "idle"
  BY DEF Inside
<1>6. step # "attach" /\ (callback = "armed" => step = "returned") /\ (g = Callback => callback = "fired")
  BY <1>5 DEF LeaseInv, StopInv
<1>7. QED
  BY <1>2, <1>3, <1>4, <1>6

LEMMA EnterLease == ASSUME LeaseInv, NEW g \in Goroutines, EnterOnce(g) PROVE LeaseInv'
<1>1. /\ at[g] = "once" /\ once = "idle" /\ once' = "running" /\ at' = [at EXCEPT ![g] = "mark"]
      /\ UNCHANGED <<step, callback, stop, finished, releases>>
  BY DEF EnterOnce
<1>2. \A h \in Goroutines : at'[h] = IF h = g THEN "mark" ELSE at[h]
  BY <1>1 DEF LeaseInv, WrapperTypes
<1>3. WrapperTypes'
  BY <1>1 DEF LeaseInv, WrapperTypes, Inside
<1>4. OnceInv'
  BY <1>1, <1>2 DEF LeaseInv, OnceInv, Inside
<1>5. StopInv'
  <2>1. step # "attach" /\ (callback = "armed" => step = "returned") /\ (g = Callback => callback = "fired")
    BY <1>1 DEF LeaseInv, StopInv
  <2>2. callback = "armed" => stop \/ \E h \in Goroutines : at'[h] = "stop"
    BY <1>1, <1>2 DEF LeaseInv, StopInv
  <2>3. at'[Callback] # "idle" => callback = "fired"
    BY <1>2, <2>1, CallbackGoroutine DEF LeaseInv, StopInv
  <2>4. QED
    BY <1>1, <1>2, <2>1, <2>2, <2>3 DEF LeaseInv, StopInv
<1>6. QED
  BY <1>3, <1>4, <1>5 DEF LeaseInv

LEMMA MarkLease == ASSUME LeaseInv, NEW g \in Goroutines, MarkFinished(g) PROVE LeaseInv'
<1>0. PICK to : to = IF stop THEN "stop" ELSE "complete"
  OBVIOUS
<1>1. /\ at[g] = "mark" /\ finished' = TRUE /\ stop' = FALSE /\ at' = [at EXCEPT ![g] = to]
      /\ UNCHANGED <<step, callback, once, releases>> /\ to \in {"stop", "complete"}
  BY <1>0 DEF MarkFinished
<1>2. \A h \in Goroutines : at'[h] = IF h = g THEN to ELSE at[h]
  BY <1>1 DEF LeaseInv, WrapperTypes
<1>3. at[g] \in Inside /\ to \in Inside
  BY <1>1 DEF Inside
<1>4. /\ once = "running" /\ \A h \in Goroutines : h # g => at[h] \in Outside
      /\ step # "attach" /\ (callback = "armed" => step = "returned")
      /\ g = Callback => callback = "fired"
  BY <1>3, InsideAlone
<1>5. WrapperTypes'
  BY <1>1, <1>3 DEF LeaseInv, WrapperTypes
<1>6. OnceInv'
  BY <1>1, <1>2, <1>3, <1>4 DEF LeaseInv, OnceInv
<1>7. StopInv'
  <2>1. callback = "armed" => at'[g] = "stop"
    BY <1>0, <1>1, <1>2, <1>4 DEF LeaseInv, StopInv, Outside
  <2>2. at'[Callback] # "idle" => callback = "fired"
    BY <1>2, <1>4, CallbackGoroutine DEF LeaseInv, StopInv
  <2>3. QED
    BY <1>1, <1>4, <2>1, <2>2 DEF StopInv
<1>8. QED
  BY <1>5, <1>6, <1>7 DEF LeaseInv

LEMMA CallStopLease == ASSUME LeaseInv, NEW g \in Goroutines, CallStop(g) PROVE LeaseInv'
<1>1. /\ at[g] = "stop" /\ at' = [at EXCEPT ![g] = "complete"]
      /\ UNCHANGED <<step, stop, finished, once, releases>>
      /\ callback' = Stopped
  BY DEF CallStop
<1>2. \A h \in Goroutines : at'[h] = IF h = g THEN "complete" ELSE at[h]
  BY <1>1 DEF LeaseInv, WrapperTypes
<1>3. at[g] \in Inside /\ "complete" \in Inside
  BY <1>1 DEF Inside
<1>4. /\ once = "running" /\ \A h \in Goroutines : h # g => at[h] \in Outside
      /\ step # "attach" /\ g = Callback => callback = "fired"
  BY <1>3, InsideAlone
<1>5. callback' \in {"none", "fired", "stopped"} /\ (callback = "fired" => callback' = "fired")
  BY <1>1 DEF Stopped, LeaseInv, WrapperTypes
<1>6. WrapperTypes'
  BY <1>1, <1>3, <1>5 DEF LeaseInv, WrapperTypes
<1>7. OnceInv'
  BY <1>1, <1>2, <1>3, <1>4 DEF LeaseInv, OnceInv
<1>8. StopInv'
  <2>1. finished
    BY <1>1 DEF LeaseInv, StopInv
  <2>2. at[g] # "idle" /\ step # "attach"
    BY <1>1 DEF LeaseInv, StopInv
  <2>3. at'[Callback] # "idle" => callback' = "fired"
    BY <1>2, <1>5, <2>2, CallbackGoroutine DEF LeaseInv, StopInv
  <2>4. QED
    BY <1>1, <1>5, <2>1, <2>2, <2>3 DEF LeaseInv, StopInv
<1>9. QED
  BY <1>6, <1>7, <1>8 DEF LeaseInv

LEMMA CompleteLease ==
    ASSUME LeaseInv, NEW g \in Goroutines, Complete(g)
    PROVE  LeaseInv' /\ releases = 0 /\ releases' = 1 /\ callback # "armed"
<1>1. /\ at[g] = "complete" /\ releases' = releases + 1 /\ once' = "done"
      /\ at' = [at EXCEPT ![g] = "leave"] /\ UNCHANGED <<step, callback, stop, finished>>
  BY DEF Complete
<1>2. \A h \in Goroutines : at'[h] = IF h = g THEN "leave" ELSE at[h]
  BY <1>1 DEF LeaseInv, WrapperTypes
<1>3. at[g] \in Inside /\ at[g] # "idle"
  BY <1>1 DEF Inside
<1>4. once = "running" /\ \A h \in Goroutines : h # g => at[h] \in Outside
  BY <1>3, InsideAlone
<1>5. releases = 0 /\ releases' = 1
  BY <1>1, <1>4 DEF LeaseInv, OnceInv
<1>6. finished /\ ~stop
  BY <1>1 DEF LeaseInv, StopInv
<1>7. \A h \in Goroutines : at[h] # "stop"
  BY <1>1, <1>4 DEF Outside
<1>8. callback # "armed"
  BY <1>3, <1>6, <1>7 DEF LeaseInv, StopInv
<1>9. WrapperTypes'
  BY <1>1 DEF LeaseInv, WrapperTypes
<1>10. OnceInv'
  BY <1>1, <1>2, <1>4, <1>5 DEF OnceInv
<1>11. StopInv'
  <2>1. step # "attach"
    BY <1>3 DEF LeaseInv, StopInv
  <2>2. at'[Callback] # "idle" => callback = "fired"
    BY <1>2, <1>3, CallbackGoroutine DEF LeaseInv, StopInv
  <2>3. QED
    BY <1>1, <1>6, <1>8, <2>1, <2>2 DEF StopInv
<1>12. QED
  BY <1>5, <1>8, <1>9, <1>10, <1>11 DEF LeaseInv

LEMMA LeaseStep == LeaseInv /\ [Next]_vars => LeaseInv'
  BY QuietLease, OtherStep, RegisterLease, SetStopLease, FiresLease, UserLease, LeaveLease,
     EnterLease, MarkLease, CallStopLease, CompleteLease
     DEF Next, FinishStep

-----------------------------------------------------------------------------
(***************************************************************************)
(* The refinement.                                                         *)
(***************************************************************************)
Answered == {u \in Users : at[u] = "returned"}

LeaseMapped == [Lease!Next]_<<releases, callback = "armed", Answered>>

LEMMA SameAnswers ==
    ASSUME LeaseInv, NEW g \in Goroutines, NEW to, to # "returned", at[g] # "returned",
           at' = [at EXCEPT ![g] = to]
    PROVE  Answered' = Answered
<1>1. \A h \in Goroutines : at'[h] = IF h = g THEN to ELSE at[h]
  BY DEF LeaseInv, WrapperTypes
<1>2. QED
  BY <1>1, CallbackGoroutine DEF Answered

LEMMA MapQuiet ==
    ASSUME UNCHANGED <<releases, callback>>, Answered' = Answered PROVE LeaseMapped
  BY DEF LeaseMapped

LEMMA MapAttach == ASSUME LeaseInv, RegisterCallback \/ SetStop \/ CallbackFires PROVE LeaseMapped
<1>1. CASE RegisterCallback
  <2>1. releases = 0 /\ releases' = 0 /\ callback = "none" /\ at[Callback] = "idle"
    BY <1>1, CallbackGoroutine DEF RegisterCallback, LeaseInv, StopInv, OnceInv
  <2>2. Answered' = Answered
    <3>1. CASE "attempt" \in over
      BY <1>1, <2>1, <3>1, SameAnswers, CallbackGoroutine DEF RegisterCallback
    <3>2. CASE "attempt" \notin over
      BY <1>1, <3>2 DEF RegisterCallback, Answered
    <3>3. QED
      BY <3>1, <3>2
  <2>3. callback' \in {"fired", "armed"}
    BY <1>1 DEF RegisterCallback
  <2>4. QED
    BY <2>1, <2>2, <2>3 DEF LeaseMapped, Lease!Next, Lease!Arm, Answered
<1>2. CASE SetStop
  <2>1. releases' = releases /\ callback' \in {callback, "stopped"} /\ Answered' = Answered
    BY <1>2 DEF SetStop, Stopped, Answered
  <2>2. QED
    BY <2>1 DEF LeaseMapped, Lease!Next, Lease!Disarm, Answered
<1>3. CASE CallbackFires
  <2>1. releases' = releases /\ callback = "armed" /\ callback' = "fired"
    BY <1>3 DEF CallbackFires
  <2>2. at[Callback] = "idle"
    BY <2>1 DEF LeaseInv, StopInv
  <2>3. Answered' = Answered
    BY <1>3, <2>2, SameAnswers, CallbackGoroutine DEF CallbackFires
  <2>4. QED
    BY <2>1, <2>3 DEF LeaseMapped, Lease!Next, Lease!Disarm, Answered
<1>4. QED
  BY <1>1, <1>2, <1>3

LEMMA MapLeave == ASSUME LeaseInv, NEW g \in Goroutines, Leave(g) PROVE LeaseMapped
<1>1. releases = 1 /\ at' = [at EXCEPT ![g] = "returned"] /\ UNCHANGED <<releases, callback>>
  BY LeaveLease DEF Leave
<1>2. \A h \in Goroutines : at'[h] = IF h = g THEN "returned" ELSE at[h]
  BY <1>1 DEF LeaseInv, WrapperTypes
<1>3. CASE g \in Users
  <2>1. Answered' = Answered \union {g}
    BY <1>2, <1>3, CallbackGoroutine DEF Answered
  <2>2. Lease!Answer(g)
    BY <1>1, <2>1 DEF Lease!Answer, Answered
  <2>3. QED
    BY <1>3, <2>2 DEF LeaseMapped, Lease!Next
<1>4. CASE g \notin Users
  <2>1. Answered' = Answered
    BY <1>2, <1>4, CallbackGoroutine DEF Answered
  <2>2. QED
    BY <1>1, <2>1, MapQuiet
<1>5. QED
  BY <1>3, <1>4

LEMMA MapFinish == ASSUME LeaseInv, NEW g \in Goroutines, FinishStep(g) PROVE LeaseMapped
<1>1. CASE EnterOnce(g)
  <2>1. Answered' = Answered
    BY <1>1, SameAnswers DEF EnterOnce
  <2>2. QED
    BY <1>1, <2>1, MapQuiet DEF EnterOnce
<1>2. CASE MarkFinished(g)
  <2>1. PICK to : to \in {"stop", "complete"} /\ at' = [at EXCEPT ![g] = to]
    BY <1>2 DEF MarkFinished
  <2>2. Answered' = Answered
    BY <1>2, <2>1, SameAnswers DEF MarkFinished
  <2>3. QED
    BY <1>2, <2>2, MapQuiet DEF MarkFinished
<1>3. CASE CallStop(g)
  <2>1. Answered' = Answered
    BY <1>3, SameAnswers DEF CallStop
  <2>2. releases' = releases /\ callback' \in {callback, "stopped"}
    BY <1>3 DEF CallStop, Stopped
  <2>3. QED
    BY <2>1, <2>2 DEF LeaseMapped, Lease!Next, Lease!Disarm, Answered
<1>4. CASE Complete(g)
  <2>1. Answered' = Answered
    BY <1>4, SameAnswers DEF Complete
  <2>2. releases = 0 /\ releases' = 1 /\ callback # "armed" /\ callback' = callback
    BY <1>4, CompleteLease DEF Complete
  <2>3. QED
    BY <2>1, <2>2 DEF LeaseMapped, Lease!Next, Lease!Finish, Answered
<1>5. QED
  BY <1>1, <1>2, <1>3, <1>4, MapLeave DEF FinishStep

LEMMA MapStep == LeaseInv /\ [Next]_vars => LeaseMapped
<1> SUFFICES ASSUME LeaseInv, [Next]_vars PROVE LeaseMapped
  OBVIOUS
<1>1. ASSUME UNCHANGED wrapper PROVE LeaseMapped
  BY <1>1, MapQuiet DEF wrapper, Answered
<1>2. ASSUME NEW u \in Users, UserFinishes(u) PROVE LeaseMapped
  <2>1. Answered' = Answered
    BY <1>2, SameAnswers, CallbackGoroutine DEF UserFinishes
  <2>2. QED
    BY <1>2, <2>1, MapQuiet DEF UserFinishes
<1>3. QED
  BY <1>1, <1>2, OtherStep, MapAttach, MapFinish DEF Next

\* Whatever goroutines finish a returned body, and whenever its context ends, the wrapper
\* releases the contexts once, without a callback left on them, and before any finishing
\* call returns (observedResponseBody, attachResponseLifecycle).
THEOREM ImplementsLease == Spec => LeaseSpec
<1>1. Init => Lease!Init
  BY DEF Init, Lease!Init, Goroutines
<1>2. LeaseInv /\ [Next]_vars => [Lease!Next]_(Lease!vars)
  BY MapStep DEF LeaseMapped, Answered, Lease!vars
<1>3. QED
  BY <1>1, <1>2, LeaseInit, LeaseStep, PTL DEF Spec, LeaseSpec, Lease!Spec

-----------------------------------------------------------------------------
(***************************************************************************)
(* The selected delay, for any width of the durations and any floats that  *)
(* round monotonically.                                                    *)
(***************************************************************************)
LEMMA FloatTyped == \A x \in Nat : Float(x) \in 0..Infinity
  BY RetryDelayAssumption DEF Float

LEMMA FloatMonotone == \A x, y \in Nat : x <= y => Float(x) <= Float(y)
<1> SUFFICES ASSUME NEW x \in Nat, NEW y \in Nat, x <= y PROVE Float(x) <= Float(y)
  OBVIOUS
<1>1. CASE y >= Infinity
  BY <1>1, FloatTyped, RetryDelayAssumption DEF Float
<1>2. CASE y < Infinity
  BY <1>2, RetryDelayAssumption DEF Float
<1>3. QED
  BY <1>1, <1>2, RetryDelayAssumption

\* A positive result of rounding is a float.
LEMMA FloatFixed ==
    ASSUME NEW x \in Int, 0 - Infinity <= x
    PROVE  Float(x) \in Int /\ (Float(x) > 0 => Float(Float(x)) = Float(x))
<1>1. CASE x >= Infinity
  BY <1>1, RetryDelayAssumption DEF Float
<1>2. CASE x < 0
  <2>1. 0 - x \in 0..Infinity
    BY <1>2, RetryDelayAssumption
  <2>2. Rounded(0 - x) \in 0..Infinity
    BY <2>1, RetryDelayAssumption
  <2>3. Float(x) = 0 - Rounded(0 - x)
    BY <1>2, RetryDelayAssumption DEF Float
  <2>4. QED
    BY <2>2, <2>3, RetryDelayAssumption
<1>3. CASE 0 <= x /\ x < Infinity
  <2>1. Float(x) = Rounded(x) /\ Rounded(x) \in 0..Infinity /\ Rounded(Rounded(x)) = Rounded(x)
    BY <1>3, RetryDelayAssumption DEF Float
  <2>2. Float(Rounded(x)) = Rounded(x)
    BY <2>1, RetryDelayAssumption DEF Float
  <2>3. QED
    BY <2>1, <2>2, RetryDelayAssumption
<1>4. QED
  BY <1>1, <1>2, <1>3, RetryDelayAssumption

\* The largest duration rounds to at most the power of two above it.
LEMMA FloatOfMax == Float(MaxDuration) \in Nat /\ Float(MaxDuration) <= MaxDuration + 1
<1>1. Float(MaxDuration + 1) = MaxDuration + 1
  BY RetryDelayAssumption DEF Float
<1>2. QED
  BY <1>1, FloatTyped, FloatMonotone, RetryDelayAssumption

IsFloat(d) == d \in Int /\ (d > 0 => Float(d) = d)

LEMMA ClampedBounds ==
    ASSUME NEW cfg \in RetryConfig, NEW d, IsFloat(d)
    PROVE  /\ Clamped(cfg, d) \in 0..MaxDuration
           /\ cfg.maxBackoff > 0 => Clamped(cfg, d) <= cfg.maxBackoff
<1>1. cfg.maxBackoff \in 0..MaxDuration /\ d \in Int /\ MaxDuration \in Nat
  BY RetryDelayAssumption DEF RetryConfig, Durations, IsFloat
<1>2. CASE d <= 0
  BY <1>1, <1>2 DEF Clamped
<1>3. CASE d > 0 /\ cfg.maxBackoff > 0 /\ d >= Float(cfg.maxBackoff)
  BY <1>1, <1>3 DEF Clamped
<1>4. CASE d > 0 /\ ~(cfg.maxBackoff > 0 /\ d >= Float(cfg.maxBackoff))
  <2>1. ASSUME cfg.maxBackoff > 0 PROVE d <= cfg.maxBackoff
    <3>1. Float(cfg.maxBackoff) \in Nat /\ d < Float(cfg.maxBackoff)
      BY <1>1, <1>4, <2>1, FloatTyped, RetryDelayAssumption
    <3>2. Float(d) = d /\ d \in Nat
      BY <1>1, <1>4 DEF IsFloat
    <3>3. cfg.maxBackoff <= d => Float(cfg.maxBackoff) <= Float(d)
      BY <1>1, <3>2, FloatMonotone
    <3>4. QED
      BY <1>1, <3>1, <3>2, <3>3
  <2>2. CASE d >= Float(MaxDuration)
    <3>1. Clamped(cfg, d) = MaxDuration
      BY <1>1, <1>4, <2>2 DEF Clamped
    <3>2. ASSUME cfg.maxBackoff > 0 PROVE MaxDuration <= cfg.maxBackoff
      <4>1. d <= cfg.maxBackoff /\ d < Float(cfg.maxBackoff)
        BY <1>1, <1>4, <2>1, <3>2, FloatTyped, RetryDelayAssumption
      <4>2. Float(cfg.maxBackoff) <= Float(MaxDuration) /\ Float(cfg.maxBackoff) \in Nat
        BY <1>1, FloatMonotone, FloatTyped, RetryDelayAssumption
      <4>3. QED
        BY <1>1, <2>2, <4>1, <4>2, FloatOfMax
    <3>3. QED
      BY <1>1, <3>1, <3>2
  <2>3. CASE d < Float(MaxDuration)
    <3>1. d <= MaxDuration
      BY <1>1, <2>3, FloatOfMax
    <3>2. Clamped(cfg, d) = d
      BY <1>1, <1>4, <2>3, <3>1, FloatOfMax DEF Clamped, Convert
    <3>3. QED
      BY <1>1, <1>4, <2>1, <3>1, <3>2
  <2>4. QED
    BY <1>1, <2>2, <2>3, FloatOfMax
<1>5. QED
  BY <1>1, <1>2, <1>3, <1>4, FloatTyped

LEMMA ClampedMonotone ==
    ASSUME NEW cfg \in RetryConfig, NEW d, NEW e, IsFloat(d), IsFloat(e), d <= e
    PROVE  Clamped(cfg, d) <= Clamped(cfg, e)
<1>1. cfg.maxBackoff \in 0..MaxDuration /\ d \in Int /\ e \in Int /\ MaxDuration \in Nat
      /\ Float(cfg.maxBackoff) \in Nat /\ Float(MaxDuration) \in Nat
  BY RetryDelayAssumption, FloatTyped, FloatOfMax DEF RetryConfig, Durations, IsFloat
<1>2. /\ Clamped(cfg, d) \in 0..MaxDuration /\ Clamped(cfg, e) \in 0..MaxDuration
      /\ cfg.maxBackoff > 0 => Clamped(cfg, d) <= cfg.maxBackoff
  BY ClampedBounds
<1>3. CASE d <= 0
  BY <1>1, <1>2, <1>3 DEF Clamped
<1>4. CASE d > 0 /\ cfg.maxBackoff > 0 /\ e >= Float(cfg.maxBackoff)
  <2>1. Clamped(cfg, e) = cfg.maxBackoff
    BY <1>1, <1>4 DEF Clamped
  <2>2. QED
    BY <1>2, <1>4, <2>1
<1>5. CASE d > 0 /\ ~(cfg.maxBackoff > 0 /\ e >= Float(cfg.maxBackoff)) /\ e >= Float(MaxDuration)
  <2>1. Clamped(cfg, e) = MaxDuration
    BY <1>1, <1>5 DEF Clamped
  <2>2. QED
    BY <1>1, <1>2, <2>1
<1>6. CASE d > 0 /\ ~(cfg.maxBackoff > 0 /\ e >= Float(cfg.maxBackoff)) /\ e < Float(MaxDuration)
  <2>1. d <= MaxDuration /\ e <= MaxDuration
    BY <1>1, <1>6, FloatOfMax
  <2>2. ~(cfg.maxBackoff > 0 /\ d >= Float(cfg.maxBackoff)) /\ d < Float(MaxDuration)
    BY <1>1, <1>6
  <2>3. Clamped(cfg, d) = d /\ Clamped(cfg, e) = e
    BY <1>1, <1>6, <2>1, <2>2 DEF Clamped, Convert
  <2>4. QED
    BY <2>3
<1>7. QED
  BY <1>1, <1>3, <1>4, <1>5, <1>6

Raw(cfg, n) == Float(Float(cfg.backoff) * Pow(cfg.multiplier, n - 1))

LEMMA RawTyped ==
    ASSUME NEW cfg \in RetryConfig, NEW n, Pow(cfg.multiplier, n - 1) \in Nat
    PROVE  IsFloat(Raw(cfg, n)) /\ Float(cfg.backoff) \in Nat
<1>1. Float(cfg.backoff) \in Nat
  BY FloatTyped, RetryDelayAssumption DEF RetryConfig, Durations
<1>2. PICK x : x = Float(cfg.backoff) * Pow(cfg.multiplier, n - 1)
  OBVIOUS
<1>3. x \in Nat
  BY <1>1, <1>2
<1>4. QED
  BY <1>1, <1>2, <1>3, FloatFixed, RetryDelayAssumption DEF IsFloat, Raw

LEMMA ProductMonotone == \A a, p, q \in Nat : p <= q => a * p \in Nat /\ a * q \in Nat /\ a * p <= a * q
  OBVIOUS

LEMMA BaseBounds ==
    ASSUME NEW cfg \in RetryConfig, NEW n \in Nat, n > 0 => Pow(cfg.multiplier, n - 1) \in Nat
    PROVE  /\ BaseRetryDelay(cfg, n) \in 0..MaxDuration
           /\ cfg.maxBackoff > 0 => BaseRetryDelay(cfg, n) <= cfg.maxBackoff
<1>1. CASE n <= 0 \/ cfg.backoff <= 0
  BY <1>1, RetryDelayAssumption DEF BaseRetryDelay, RetryConfig, Durations
<1>2. CASE ~(n <= 0 \/ cfg.backoff <= 0)
  <2>1. BaseRetryDelay(cfg, n) = Clamped(cfg, Raw(cfg, n))
    BY <1>2 DEF BaseRetryDelay, Raw
  <2>2. QED
    BY <1>2, <2>1, RawTyped, ClampedBounds
<1>3. QED
  BY <1>1, <1>2

LEMMA BaseMonotone ==
    ASSUME NEW cfg \in RetryConfig, NEW n \in Nat,
           Pow(cfg.multiplier, (n + 1) - 1) \in Nat,
           n > 0 => /\ Pow(cfg.multiplier, n - 1) \in Nat
                    /\ Pow(cfg.multiplier, n - 1) <= Pow(cfg.multiplier, (n + 1) - 1)
    PROVE  BaseRetryDelay(cfg, n) <= BaseRetryDelay(cfg, n + 1)
<1>1. BaseRetryDelay(cfg, n + 1) \in 0..MaxDuration
  BY BaseBounds
<1>2. CASE n = 0 \/ cfg.backoff <= 0
  <2>1. BaseRetryDelay(cfg, n) = 0
    BY <1>2 DEF BaseRetryDelay
  <2>2. QED
    BY <1>1, <2>1, RetryDelayAssumption
<1>3. CASE n > 0 /\ ~(cfg.backoff <= 0)
  <2>1. BaseRetryDelay(cfg, n) = Clamped(cfg, Raw(cfg, n))
        /\ BaseRetryDelay(cfg, n + 1) = Clamped(cfg, Raw(cfg, n + 1))
    BY <1>3 DEF BaseRetryDelay, Raw
  <2>2. IsFloat(Raw(cfg, n)) /\ IsFloat(Raw(cfg, n + 1)) /\ Float(cfg.backoff) \in Nat
    BY <1>3, RawTyped
  <2>3. PICK x, y : x = Float(cfg.backoff) * Pow(cfg.multiplier, n - 1)
                    /\ y = Float(cfg.backoff) * Pow(cfg.multiplier, (n + 1) - 1)
    OBVIOUS
  <2>4. x \in Nat /\ y \in Nat /\ x <= y
    BY <1>3, <2>2, <2>3, ProductMonotone
  <2>5. Raw(cfg, n) <= Raw(cfg, n + 1)
    BY <2>3, <2>4, FloatMonotone DEF Raw
  <2>6. QED
    BY <2>1, <2>2, <2>5, ClampedMonotone
<1>4. QED
  BY <1>2, <1>3

LEMMA PolicyBounds ==
    ASSUME NEW cfg \in RetryConfig, NEW n \in Nat, n > 0 => Pow(cfg.multiplier, n - 1) \in Nat,
           NEW offset \in Offsets(cfg)
    PROVE  /\ PolicyDelay(cfg, n, offset) \in 0..MaxDuration
           /\ cfg.maxBackoff > 0 => PolicyDelay(cfg, n, offset) <= cfg.maxBackoff
<1>1. PICK base : base = BaseRetryDelay(cfg, n)
  OBVIOUS
<1>2. base \in 0..MaxDuration /\ (cfg.maxBackoff > 0 => base <= cfg.maxBackoff)
  BY <1>1, BaseBounds
<1>3. Float(base) \in 0..Infinity /\ Float(cfg.jitter) \in 0..Infinity /\ MaxDuration \in Nat
      /\ Infinity \in Nat /\ cfg.jitter \in Nat /\ cfg.maxBackoff \in Nat
  BY <1>2, FloatTyped, RetryDelayAssumption DEF RetryConfig, Durations
<1>4. CASE base <= 0
  BY <1>1, <1>3, <1>4 DEF PolicyDelay
<1>5. CASE base > 0 /\ cfg.jitter <= 0
  BY <1>1, <1>2, <1>3, <1>5 DEF PolicyDelay
<1>6. CASE base > 0 /\ cfg.jitter > 0
  <2>1. PICK x : x = Float(base) + offset
    OBVIOUS
  <2>2. x \in Int /\ 0 - Infinity <= x
    BY <1>3, <2>1 DEF Offsets
  <2>3. IsFloat(Float(x))
    BY <2>2, FloatFixed DEF IsFloat
  <2>4. PolicyDelay(cfg, n, offset) = Clamped(cfg, Float(x))
    BY <1>1, <1>2, <1>3, <1>6, <2>1 DEF PolicyDelay
  <2>5. QED
    BY <2>3, <2>4, ClampedBounds
<1>7. QED
  BY <1>2, <1>3, <1>4, <1>5, <1>6

\* A usable value is one whose exact delay is a duration, and it is parsed to that delay: the
\* product of seconds that passed the test does not wrap around.
LEMMA DivisionBound ==
    ASSUME NEW v \in Nat, NEW m \in Nat, NEW s \in Nat \ {0}
    PROVE  v <= m \div s <=> v * s <= m
<1>1. PICK q, r : q = m \div s /\ r = m % s
  OBVIOUS
<1>2. q \in Nat /\ r \in 0..s - 1 /\ m = s * q + r
  BY <1>1
<1>3. ASSUME v <= q PROVE v * s <= m
  <2>1. s * v <= s * q /\ s * v = v * s
    BY <1>2, <1>3, ProductMonotone
  <2>2. QED
    BY <1>2, <2>1
<1>4. ASSUME v > q PROVE v * s > m
  <2>1. s * (q + 1) <= s * v /\ s * v = v * s /\ s * (q + 1) = s * q + s
    BY <1>2, <1>4, ProductMonotone
  <2>2. QED
    BY <1>2, <2>1
<1>5. QED
  BY <1>1, <1>2, <1>3, <1>4

LEMMA WrappedInRange == \A x \in 0..MaxDuration : Wrapped(x) = x
  BY RetryDelayAssumption DEF Wrapped, MinDuration

LEMMA UsableExact ==
    ASSUME NEW header \in HeaderValue
    PROVE  /\ Usable(header) <=> Representable(header)
           /\ Usable(header) => /\ ParsedRetryAfter(header) = Exact(header)
                                /\ Exact(header) \in 0..MaxDuration
<1>1. MaxDuration \in Nat /\ Second \in Nat \ {0}
  BY RetryDelayAssumption
<1>2. CASE header.kind = "seconds"
  <2>1. header.value \in Nat
    BY <1>2 DEF HeaderValue
  <2>2. PICK x : x = header.value * Second
    OBVIOUS
  <2>3. x \in Nat /\ (header.value <= MaxDuration \div Second <=> x <= MaxDuration)
    BY <1>1, <2>1, <2>2, DivisionBound
  <2>4. Exact(header) = x
    BY <1>2, <2>2, <2>3 DEF Exact, LargerOf
  <2>5. ParsedRetryAfter(header) = Wrapped(x)
    BY <1>2, <2>2 DEF ParsedRetryAfter
  <2>6. QED
    BY <1>1, <1>2, <2>3, <2>4, <2>5, WrappedInRange DEF Usable, Representable
<1>3. CASE header.kind = "date"
  BY <1>1, <1>3 DEF HeaderValue, Usable, Representable, ParsedRetryAfter, Exact, LargerOf
<1>4. CASE header.kind = "malformed"
  BY <1>4 DEF Usable, Representable
<1>5. QED
  BY <1>2, <1>3, <1>4 DEF HeaderValue

\* retryAfterDelay is the exact delay of the first representable value, and of no other.
LEMMA FirstUsableUnique ==
    ASSUME NEW headers \in Seq(HeaderValue), NEW i \in DOMAIN headers, NEW k \in DOMAIN headers,
           FirstUsable(headers, i), FirstUsable(headers, k)
    PROVE  i = k
  BY DEF FirstUsable

LEMMA FirstUsableExact ==
    ASSUME NEW headers \in Seq(HeaderValue), NEW i \in DOMAIN headers
    PROVE  FirstUsable(headers, i) <=>
               /\ Representable(headers[i])
               /\ \A j \in 1..i - 1 : ~Representable(headers[j])
<1>1. \A j \in DOMAIN headers : headers[j] \in HeaderValue
  OBVIOUS
<1>2. \A j \in 1..i - 1 : j \in DOMAIN headers
  OBVIOUS
<1>3. \A j \in DOMAIN headers : Usable(headers[j]) <=> Representable(headers[j])
  BY <1>1, UsableExact
<1>4. QED
  BY <1>2, <1>3 DEF FirstUsable

LEMMA ServerDelay ==
    ASSUME NEW headers \in Seq(HeaderValue), NEW i \in DOMAIN headers, FirstUsable(headers, i)
    PROVE  RetryAfterDelay(headers) = {Exact(headers[i])} /\ Exact(headers[i]) \in 0..MaxDuration
<1>1. \A k \in DOMAIN headers : FirstUsable(headers, k) => k = i
  BY FirstUsableUnique
<1>2. RetryAfterDelay(headers) = {ParsedRetryAfter(headers[i])}
  BY <1>1 DEF RetryAfterDelay
<1>3. headers[i] \in HeaderValue /\ Usable(headers[i])
  BY DEF FirstUsable
<1>4. QED
  BY <1>2, <1>3, UsableExact

\* What is selected is the policy's delay, or a server's that is capped and longer.
LEMMA Selected ==
    ASSUME NEW cfg \in RetryConfig, NEW headers \in Seq(HeaderValue), NEW rejected \in BOOLEAN,
           NEW policyDelay \in 0..MaxDuration,
           NEW d, d = SelectedDelay(cfg, policyDelay, rejected, headers)
    PROVE  /\ d \in 0..MaxDuration
           /\ d <= policyDelay \/ d <= cfg.maxRetryAfter
           /\ \A i \in DOMAIN headers : rejected /\ cfg.respect /\ FirstUsable(headers, i) =>
                  d >= SmallerOf(Exact(headers[i]), cfg.maxRetryAfter)
<1>1. cfg.maxRetryAfter \in 0..MaxDuration /\ MaxDuration \in Nat
  BY RetryDelayAssumption DEF RetryConfig, Durations
<1>2. CASE ~(rejected /\ cfg.respect /\ RetryAfterDelay(headers) # {})
  <2>1. d = policyDelay
    BY <1>2 DEF SelectedDelay
  <2>2. \A i \in DOMAIN headers : ~(rejected /\ cfg.respect /\ FirstUsable(headers, i))
    BY <1>2, ServerDelay
  <2>3. QED
    BY <1>1, <2>1, <2>2
<1>3. CASE rejected /\ cfg.respect /\ RetryAfterDelay(headers) # {}
  <2>1. PICK i \in DOMAIN headers : FirstUsable(headers, i)
    BY <1>3 DEF RetryAfterDelay
  <2>2. PICK asked : asked = Exact(headers[i])
    OBVIOUS
  <2>3. RetryAfterDelay(headers) = {asked} /\ asked \in 0..MaxDuration
    BY <2>1, <2>2, ServerDelay
  <2>4. (CHOOSE x \in RetryAfterDelay(headers) : TRUE) = asked
    BY <2>3
  <2>5. d = LargerOf(policyDelay, SmallerOf(asked, cfg.maxRetryAfter))
    BY <1>3, <2>4 DEF SelectedDelay
  <2>6. \A k \in DOMAIN headers : FirstUsable(headers, k) => Exact(headers[k]) = asked
    BY <2>1, <2>2, FirstUsableUnique
  <2>7. d \in 0..MaxDuration /\ (d <= policyDelay \/ d <= cfg.maxRetryAfter)
        /\ d >= SmallerOf(asked, cfg.maxRetryAfter)
    BY <1>1, <2>3, <2>5 DEF LargerOf, SmallerOf
  <2>8. QED
    BY <2>6, <2>7
<1>4. QED
  BY <1>2, <1>3

\* The plan of a retry is one of RetryPlans until its delay has been selected.
DelayInv == (step = "delay" => plan \in RetryPlans) /\ DelayWithinLimits

LEMMA PlanPowers ==
    ASSUME NEW p \in RetryPlans
    PROVE  /\ p.cfg \in RetryConfig /\ p.headers \in Seq(HeaderValue) /\ p.rejected \in BOOLEAN
           /\ p.retryNumber \in Nat
           /\ p.retryNumber > 0 => Pow(p.cfg.multiplier, p.retryNumber - 1) \in Nat
           /\ p.cfg.multiplier >= 1 =>
                  BaseRetryDelay(p.cfg, p.retryNumber) <= BaseRetryDelay(p.cfg, p.retryNumber + 1)
<1>1. p \in RetryPlan
  BY PlansAssumption
<1>2. p.cfg \in RetryConfig /\ p.headers \in Seq(HeaderValue) /\ p.rejected \in BOOLEAN
      /\ p.retryNumber \in Nat
  BY <1>1 DEF RetryPlan
<1>3. PICK n : n = p.retryNumber
  OBVIOUS
<1>4. n \in Nat /\ n + 1 \in {n, n + 1} \ {0} /\ (n > 0 => n \in {n, n + 1} \ {0} /\ n + 1 > 1)
  BY <1>2, <1>3
<1>5. n > 0 => Pow(p.cfg.multiplier, n - 1) \in Nat
  BY <1>3, <1>4, PowersAssumption
<1>6. /\ Pow(p.cfg.multiplier, (n + 1) - 1) \in Nat
      /\ p.cfg.multiplier >= 1 /\ n + 1 > 1 =>
            Pow(p.cfg.multiplier, (n + 1) - 2) <= Pow(p.cfg.multiplier, (n + 1) - 1)
  BY <1>3, <1>4, PowersAssumption
<1>7. (n + 1) - 2 = n - 1
  BY <1>4
<1>8. p.cfg.multiplier >= 1 => BaseRetryDelay(p.cfg, n) <= BaseRetryDelay(p.cfg, n + 1)
  BY <1>2, <1>4, <1>5, <1>6, <1>7, BaseMonotone
<1>9. QED
  BY <1>2, <1>3, <1>5, <1>8

LEMMA SelectDelayWithin == ASSUME DelayInv, SelectDelay PROVE DelayInv'
<1>1. plan \in RetryPlans /\ plan' = plan /\ step' = "discard"
  BY DEF DelayInv, SelectDelay
<1>2. PICK offset \in Offsets(plan.cfg) :
         delay' = SelectedDelay(plan.cfg, PolicyDelay(plan.cfg, plan.retryNumber, offset),
                                plan.rejected, plan.headers)
  BY DEF SelectDelay
<1>3. PICK policy : policy = PolicyDelay(plan.cfg, plan.retryNumber, offset)
  OBVIOUS
<1>4. policy \in 0..MaxDuration /\ (plan.cfg.maxBackoff > 0 => policy <= plan.cfg.maxBackoff)
  BY <1>1, <1>3, PlanPowers, PolicyBounds
<1>5. PICK d : d = delay'
  OBVIOUS
<1>6. /\ d \in 0..MaxDuration
      /\ d <= policy \/ d <= plan.cfg.maxRetryAfter
      /\ \A i \in DOMAIN plan.headers : plan.rejected /\ plan.cfg.respect /\ FirstUsable(plan.headers, i) =>
            d >= SmallerOf(Exact(plan.headers[i]), plan.cfg.maxRetryAfter)
  BY <1>1, <1>2, <1>3, <1>4, <1>5, PlanPowers, Selected
<1>7. d <= LargerOf(IF plan.cfg.maxBackoff > 0 THEN plan.cfg.maxBackoff ELSE MaxDuration,
                    plan.cfg.maxRetryAfter)
  <2>1. plan.cfg.maxBackoff \in 0..MaxDuration /\ plan.cfg.maxRetryAfter \in 0..MaxDuration
        /\ MaxDuration \in Nat
    BY <1>1, PlanPowers, RetryDelayAssumption DEF RetryConfig, Durations
  <2>2. QED
    BY <1>4, <1>6, <2>1 DEF LargerOf
<1>8. \A asked \in ServerAsks : d >= SmallerOf(asked, plan.cfg.maxRetryAfter)
  <2>1. SUFFICES ASSUME NEW i \in DOMAIN plan.headers, plan.rejected, plan.cfg.respect,
                        Representable(plan.headers[i]),
                        \A j \in 1..i - 1 : ~Representable(plan.headers[j])
                 PROVE  d >= SmallerOf(Exact(plan.headers[i]), plan.cfg.maxRetryAfter)
    BY DEF ServerAsks
  <2>2. FirstUsable(plan.headers, i)
    BY <1>1, <2>1, PlanPowers, FirstUsableExact
  <2>3. QED
    BY <1>6, <2>1, <2>2
<1>9. plan.cfg.multiplier >= 1 =>
          BaseRetryDelay(plan.cfg, plan.retryNumber) <= BaseRetryDelay(plan.cfg, plan.retryNumber + 1)
  BY <1>1, PlanPowers
<1>10. ServerAsks' = ServerAsks
  BY <1>1 DEF ServerAsks
<1>11. DelayWithinLimits'
  BY <1>1, <1>5, <1>6, <1>7, <1>8, <1>9, <1>10 DEF DelayWithinLimits
<1>12. QED
  BY <1>1, <1>11 DEF DelayInv

\* No other step enters the two states, or changes the plan or the delay in them.
LEMMA OthersKeepDelay ==
    ASSUME [Next]_vars, ~SelectDelay
    PROVE  /\ plan' = plan
           /\ step' = "delay" => step = "delay"
           /\ step' = "discard" => step = "discard" /\ delay' = delay
<1>1. ASSUME NEW g \in Goroutines, FinishStep(g)
      PROVE plan' = plan /\ step' = step /\ delay' = delay
  BY <1>1 DEF FinishStep, EnterOnce, MarkFinished, CallStop, Complete, Leave, discarded
<1>2. ASSUME NEW u \in Users, UserFinishes(u) PROVE plan' = plan /\ step' = step /\ delay' = delay
  BY <1>2 DEF UserFinishes, discarded
<1>3. ASSUME NEW c \in Contexts, DeadlinePasses(c) PROVE plan' = plan /\ step' = step /\ delay' = delay
  BY <1>3 DEF DeadlinePasses, discarded
<1>4. CASE CallerCancels \/ CallbackFires \/ Terminated \/ UNCHANGED vars
  BY <1>4 DEF CallerCancels, CallbackFires, Terminated, vars, discarded
<1>5. CASE ReturnUnwrapped \/ RegisterCallback \/ SetStop
  BY <1>5 DEF ReturnUnwrapped, RegisterCallback, SetStop
<1>6. CASE StartDrain \/ DiscardUndrained \/ DrainByte \/ BodyEnds \/ DrainStops
  BY <1>6 DEF StartDrain, DiscardUndrained, DrainByte, BodyEnds, DrainStops, DrainEnds
<1>7. CASE WaitInterrupted \/ DelayElapses
  BY <1>7 DEF WaitInterrupted, DelayElapses
<1>8. QED
  BY <1>1, <1>2, <1>3, <1>4, <1>5, <1>6, <1>7 DEF Next

\* For durations of any width and floats of any precision that round monotonically, with every
\* retry configuration and list of Retry-After values: the delay is a duration within the
\* configured limits, waits out what the server asked for, and grows with the attempts
\* (baseRetryDelay, retryDelay, retryAfterDelay, Client.do).
THEOREM DelaysWithinLimits == Spec => []DelayWithinLimits
<1>1. Init => DelayInv
  BY DEF Init, DelayInv, DelayWithinLimits
<1>2. DelayInv /\ [Next]_vars => DelayInv'
  <2> SUFFICES ASSUME DelayInv, [Next]_vars PROVE DelayInv'
    OBVIOUS
  <2>1. CASE SelectDelay
    BY <2>1, SelectDelayWithin
  <2>2. CASE ~SelectDelay
    <3>1. /\ plan' = plan
          /\ step' = "delay" => step = "delay"
          /\ step' = "discard" => step = "discard" /\ delay' = delay
      BY <2>2, OthersKeepDelay
    <3>2. ServerAsks' = ServerAsks
      BY <3>1 DEF ServerAsks
    <3>3. QED
      BY <3>1, <3>2 DEF DelayInv, DelayWithinLimits
  <2>3. QED
    BY <2>1, <2>2
<1>3. DelayInv => DelayWithinLimits
  BY DEF DelayInv
<1>4. QED
  BY <1>1, <1>2, <1>3, PTL DEF Spec
=============================================================================
