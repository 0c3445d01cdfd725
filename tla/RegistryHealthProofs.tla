------------------------ MODULE RegistryHealthProofs ------------------------
(***************************************************************************)
(* Proofs about what RegistryChecks publishes: the failures synthesized by *)
(* the registry and the client-owned cache they are projected over.        *)
(***************************************************************************)
EXTENDS RegistryChecksProofs

(***************************************************************************)
(* The newest failure stands.                                              *)
(***************************************************************************)
\* Inductive with the bound on the override, which is always a published failure's time.
NewestInv == NewestFailureStands /\ \A c \in Clients : override[c] <= newestFailure[c]

LEMMA NewestApply ==
  ASSUME TypeOK, NewestInv, NEW k \in Calls, NEW c \in Clients, Apply(k, c)
  PROVE  NewestInv'
<1> DEFINE at == outcome[k][c].at
<1>1. \A e \in Clients : /\ override[e] \in Nat /\ newestFailure[e] \in Nat
                        /\ newestAccepted[e] \in Nat /\ at \in Nat
  BY DEF TypeOK, Time
<1>2. ASSUME NEW e \in Clients, e # c
      PROVE  UNCHANGED <<override[e], newestFailure[e], newestAccepted[e]>>
  BY <1>2 DEF Apply, TypeOK
<1>3. \/ /\ Outdated(c, at)
         /\ override'[c] = override[c]
      \/ /\ ~Outdated(c, at)
         /\ override'[c] = IF outcome[k][c].cause = Accepted THEN 0 ELSE at
  BY DEF Apply, TypeOK
<1>4. CASE outcome[k][c].cause = Accepted
  <2>1. newestFailure'[c] = newestFailure[c]
        /\ newestAccepted'[c] = Newer(newestAccepted[c], at)
    BY <1>4 DEF Apply, TypeOK
  <2> QED
    BY <1>1, <1>2, <1>3, <1>4, <2>1 DEF NewestInv, NewestFailureStands, Newer, Outdated
<1>5. CASE outcome[k][c].cause # Accepted
  <2>1. newestAccepted'[c] = newestAccepted[c]
        /\ newestFailure'[c] = Newer(newestFailure[c], at)
    BY <1>5 DEF Apply, TypeOK
  <2> QED
    BY <1>1, <1>2, <1>3, <1>5, <2>1 DEF NewestInv, NewestFailureStands, Newer, Outdated
<1> QED
  BY <1>4, <1>5

\* Only publications touch what NewestInv is about.
LEMMA PublishedByApply ==
  ASSUME [Next]_vars, ~UNCHANGED <<override, newestFailure, newestAccepted>>
  PROVE  \E k \in Calls, c \in Clients :
            Apply(k, c) /\ (Publish(k, c) \/ PublishAbandoned(k, c))
<1> USE DEF shown, history, vars
<1>1. ASSUME NEW k \in Calls, NEW c \in Clients, Working(k, c),
             ~Publish(k, c), ~PublishAbandoned(k, c)
      PROVE  UNCHANGED <<override, newestFailure, newestAccepted>>
  BY <1>1 DEF Working, Receive, TakeSlot, AbandonSlotWait, TakePermit, AbandonPermitWait,
              Sanitize, AcceptResult, RejectResult, ReleaseSlot
<1>2. ASSUME NEW k \in Calls, NEW c \in Clients, Checking(k, c)
      PROVE  UNCHANGED <<override, newestFailure, newestAccepted>>
  BY <1>2 DEF Checking, ReadEndedAt, UpdateHealth, CheckReturns, CheckPanics
<1>3. ASSUME NEW k \in Calls, ContextEnds(k) \/ Calling(k)
      PROVE  UNCHANGED <<override, newestFailure, newestAccepted>>
  BY <1>3 DEF ContextEnds, Calling, StartCheckAll, HandOff, StopScheduling, Finish
<1>4. ASSUME Tick \/ Application \/ UNCHANGED vars
      PROVE  UNCHANGED <<override, newestFailure, newestAccepted>>
  BY <1>4 DEF Tick, Application, DirectReadEndedAt, DirectUpdateHealth, SnapshotCopies,
              SnapshotReads
<1>5. PICK k \in Calls, c \in Clients : Publish(k, c) \/ PublishAbandoned(k, c)
  BY <1>1, <1>2, <1>3, <1>4 DEF Next, Quiet
<1> QED
  BY <1>5 DEF Publish, PublishAbandoned

LEMMA NewestStep ==
  ASSUME TypeOK, NewestInv, [Next]_vars
  PROVE  NewestInv'
<1>1. CASE UNCHANGED <<override, newestFailure, newestAccepted>>
  BY <1>1 DEF NewestInv, NewestFailureStands
<1>2. CASE ~UNCHANGED <<override, newestFailure, newestAccepted>>
  BY <1>2, PublishedByApply, NewestApply
<1> QED
  BY <1>1, <1>2

\* A failure the registry published stays until something decided later replaces it, in
\* whatever order the outcomes of overlapping calls are applied.
THEOREM NewestFailureIsKept == Spec => []NewestFailureStands
<1>1. Init => NewestInv
  BY DEF Init, NewestInv, NewestFailureStands
<1>2. TypeOK /\ NewestInv /\ [Next]_vars => NewestInv'
  BY NewestStep
<1>3. NewestInv => NewestFailureStands
  BY DEF NewestInv
<1> QED
  BY <1>1, <1>2, <1>3, TypeCorrect, PTL DEF Spec

(***************************************************************************)
(* Rejected assessments stay hidden.                                       *)
(***************************************************************************)
HasResult == {"deciding", "sanitized", "publishing"}
Published == {"releasing", "completed"}

\* The strengthening of RejectedResultHidden, for one client.  The cache is never newer
\* than the outcome of the task that wrote it; an accepted result in hand means no other
\* task has written the cache since, so publishing it cannot uncover another's rejected
\* assessment; and a task that gave up its wait for the slot only publishes a failure.
HiddenFor(c) ==
    /\ cache[c] <= now
    /\ cacheWriter[c] \in Calls =>
          LET w == cacheWriter[c] IN
          /\ pc[w][c] \in {"recorded"} \union HasResult \union Published
          /\ pc[w][c] \in HasResult => cache[c] <= outcome[w][c].at
          /\ pc[w][c] \in Published /\ outcome[w][c].cause # Accepted =>
                override[c] # 0 /\ cache[c] <= override[c]
    /\ \A k \in Calls :
          /\ checkedAt[k][c] <= now
          /\ pc[k][c] \in HasResult => outcome[k][c].at # 0
          /\ pc[k][c] = "abandoned" => outcome[k][c].cause = "context"
          /\ pc[k][c] = "recorded" => cacheWriter[c] \in {k, Nobody}
          /\ pc[k][c] \in HasResult /\ outcome[k][c].cause = Accepted =>
                cacheWriter[c] \in {k, Nobody}

HiddenInv ==
    /\ \A c \in Clients : HiddenFor(c)
    /\ \A d \in Directs : direct[d].at <= now

\* HiddenFor(c) depends on the tasks and the entries of client c only.
LEMMA HiddenFrame ==
  ASSUME NEW c \in Clients, HiddenFor(c), TypeOK, now <= now', now' \in Nat,
         UNCHANGED <<cache[c], cacheWriter[c], override[c]>>,
         \A k \in Calls : UNCHANGED <<pc[k][c], outcome[k][c], checkedAt[k][c]>>
  PROVE  HiddenFor(c)'
<1>1. cache[c] \in Nat /\ now \in Nat /\ \A k \in Calls : checkedAt[k][c] \in Nat
  BY DEF TypeOK, Time
<1> QED
  BY <1>1 DEF HiddenFor

\* A step of one task leaves the tasks and entries of other clients alone, and the other
\* tasks of its client.
LEMMA TaskFrame ==
  ASSUME TypeOK, NEW k \in Calls, NEW c \in Clients, Working(k, c) \/ Checking(k, c)
  PROVE  /\ UNCHANGED now
         /\ \A j \in Calls, e \in Clients : j # k \/ e # c =>
               UNCHANGED <<pc[j][e], outcome[j][e], checkedAt[j][e]>>
         /\ \A e \in Clients : e # c => UNCHANGED <<cache[e], cacheWriter[e], override[e]>>
<1>1. UNCHANGED now /\ \A j \in Calls, e \in Clients : j # k \/ e # c =>
                            UNCHANGED <<pc[j][e], outcome[j][e]>>
  <2>1. UNCHANGED now
    BY DEF Working, Checking, Receive, TakeSlot, AbandonSlotWait, TakePermit,
           AbandonPermitWait, Sanitize, AcceptResult, RejectResult, Publish,
           PublishAbandoned, ReleaseSlot, ReadEndedAt, UpdateHealth, CheckReturns, CheckPanics
  <2> QED
    BY <2>1, TaskResults
<1>2. \/ UNCHANGED checkedAt
      \/ Retire(k, c)
      \/ checkedAt' = [checkedAt EXCEPT ![k][c] = now]
  BY DEF Working, Checking, Receive, TakeSlot, AbandonSlotWait, TakePermit,
         AbandonPermitWait, Sanitize, AcceptResult, RejectResult, Publish,
         PublishAbandoned, ReleaseSlot, ReadEndedAt, UpdateHealth, CheckReturns, CheckPanics
<1>3. \/ UNCHANGED <<cache, cacheWriter, override>>
      \/ Apply(k, c)
      \/ UpdateHealth(k, c)
  BY DEF Working, Checking, Receive, TakeSlot, AbandonSlotWait, TakePermit,
         AbandonPermitWait, Sanitize, AcceptResult, RejectResult, Publish,
         PublishAbandoned, ReleaseSlot, ReadEndedAt, CheckReturns, CheckPanics,
         shown, history
<1>4. \A j \in Calls, e \in Clients : j # k \/ e # c => UNCHANGED checkedAt[j][e]
  BY <1>2 DEF Retire, TypeOK
<1>5. \A e \in Clients : e # c => UNCHANGED <<cache[e], cacheWriter[e], override[e]>>
  BY <1>3 DEF Apply, UpdateHealth, TypeOK
<1> QED
  BY <1>1, <1>4, <1>5

\* A step of task <<k, c>> that leaves the entries of its client alone: what it must
\* establish for HiddenFor(c), as the writer of the cache and as a task.
LEMMA HiddenMove ==
  ASSUME TypeOK, NEW k \in Calls, NEW c \in Clients, HiddenFor(c),
         Working(k, c) \/ Checking(k, c),
         UNCHANGED <<cache[c], cacheWriter[c], override[c]>>,
         /\ checkedAt'[k][c] <= now
         /\ pc'[k][c] \in HasResult => outcome'[k][c].at # 0
         /\ pc'[k][c] = "abandoned" => outcome'[k][c].cause = "context"
         /\ pc'[k][c] = "recorded" => cacheWriter[c] \in {k, Nobody}
         /\ pc'[k][c] \in HasResult /\ outcome'[k][c].cause = Accepted =>
               cacheWriter[c] \in {k, Nobody},
         cacheWriter[c] = k =>
            /\ pc'[k][c] \in {"recorded"} \union HasResult \union Published
            /\ pc'[k][c] \in HasResult => cache[c] <= outcome'[k][c].at
            /\ pc'[k][c] \in Published /\ outcome'[k][c].cause # Accepted =>
                  override[c] # 0 /\ cache[c] <= override[c]
  PROVE  HiddenFor(c)'
  BY TaskFrame DEF HiddenFor

\* Times are positive and comparable.
LEMMA TimeFacts ==
  ASSUME TypeOK, NEW k \in Calls, NEW c \in Clients
  PROVE  /\ now \in Nat /\ now # 0 /\ cache[c] \in Nat /\ override[c] \in Nat
         /\ outcome[k][c].at \in Nat /\ checkedAt[k][c] \in Nat
  BY ConstantFacts DEF TypeOK, Time

LEMMA HiddenWorkingQuietly ==
  ASSUME TypeOK, NEW k \in Calls, NEW c \in Clients, HiddenFor(c), Working(k, c),
         ~Publish(k, c), ~PublishAbandoned(k, c)
  PROVE  HiddenFor(c)'
<1>1. UNCHANGED <<cache[c], cacheWriter[c], override[c]>>
  BY DEF Working, Receive, TakeSlot, AbandonSlotWait, TakePermit, AbandonPermitWait,
         Sanitize, AcceptResult, RejectResult, ReleaseSlot, shown, history
<1>2. ASSUME NEW from, NEW to, Goto(k, c, from, to)
      PROVE  pc[k][c] = from /\ pc'[k][c] = to
  BY <1>2 DEF Goto, TypeOK
<1>3. ASSUME NEW cause, NEW at, Decide(k, c, cause, at)
      PROVE  outcome'[k][c] = [cause |-> cause, at |-> at]
  BY <1>3 DEF Decide, TypeOK
<1>4. cache[c] <= now /\ now # 0 /\ now \in Nat /\ checkedAt[k][c] <= now
  BY TimeFacts DEF HiddenFor
<1> USE <1>1, <1>4, HiddenMove DEF HasResult, Published, Accepted
<1>5. CASE Receive(k, c)
  <2>1. pc[k][c] = "received" /\ pc'[k][c] \in {"skipped", "slotWait"}
        /\ UNCHANGED <<outcome, checkedAt>>
    BY <1>2, <1>5 DEF Receive
  <2> QED
    BY <2>1 DEF HiddenFor
<1>6. CASE TakeSlot(k, c)
  <2>1. pc[k][c] = "slotWait" /\ pc'[k][c] = "permitWait" /\ UNCHANGED <<outcome, checkedAt>>
    BY <1>2, <1>6 DEF TakeSlot
  <2> QED
    BY <2>1 DEF HiddenFor
<1>7. CASE AbandonSlotWait(k, c)
  <2>1. /\ pc[k][c] = "slotWait" /\ pc'[k][c] = "abandoned" /\ UNCHANGED checkedAt
        /\ outcome'[k][c] = [cause |-> "context", at |-> now]
    BY <1>2, <1>3, <1>7 DEF AbandonSlotWait
  <2> QED
    BY <2>1 DEF HiddenFor
<1>8. CASE TakePermit(k, c)
  <2>1. pc[k][c] = "permitWait" /\ pc'[k][c] = "checking" /\ UNCHANGED <<outcome, checkedAt>>
    BY <1>2, <1>8 DEF TakePermit
  <2> QED
    BY <2>1 DEF HiddenFor
<1>9. CASE AbandonPermitWait(k, c)
  <2>1. /\ pc[k][c] = "permitWait" /\ pc'[k][c] = "publishing" /\ UNCHANGED checkedAt
        /\ outcome'[k][c] = [cause |-> "context", at |-> now]
    BY <1>2, <1>3, <1>9 DEF AbandonPermitWait
  <2> QED
    BY <2>1 DEF HiddenFor
<1>10. CASE Sanitize(k, c)
  <2>1. pc[k][c] = "deciding" /\ pc'[k][c] = "sanitized" /\ UNCHANGED checkedAt
    BY <1>2, <1>10 DEF Sanitize
  <2>2. CASE UNCHANGED outcome
    BY <2>1, <2>2 DEF HiddenFor
  <2>3. CASE Decide(k, c, "panic", now)
    <3>1. outcome'[k][c] = [cause |-> "panic", at |-> now]
      BY <1>3, <2>3
    <3> QED
      BY <2>1, <3>1 DEF HiddenFor
  <2> QED
    BY <1>10, <2>2, <2>3 DEF Sanitize
<1>11. CASE AcceptResult(k, c)
  <2>1. pc[k][c] = "sanitized" /\ pc'[k][c] = "publishing" /\ UNCHANGED <<outcome, checkedAt>>
    BY <1>2, <1>11 DEF AcceptResult
  <2> QED
    BY <2>1 DEF HiddenFor
<1>12. CASE RejectResult(k, c)
  <2>1. /\ pc[k][c] \in {"deciding", "sanitized"} /\ pc'[k][c] = "publishing"
        /\ UNCHANGED checkedAt /\ outcome'[k][c] = [cause |-> "context", at |-> now]
    BY <1>2, <1>3, <1>12 DEF RejectResult
  <2> QED
    BY <2>1 DEF HiddenFor
<1>13. CASE ReleaseSlot(k, c)
  <2>1. pc[k][c] = "releasing" /\ pc'[k][c] = "completed"
    BY <1>2, <1>13 DEF ReleaseSlot
  <2>2. outcome'[k][c].cause = outcome[k][c].cause /\ checkedAt'[k][c] = 0
    BY <1>13 DEF ReleaseSlot, Retire, TypeOK
  <2> QED
    BY <2>1, <2>2 DEF HiddenFor
<1> QED
  BY <1>5, <1>6, <1>7, <1>8, <1>9, <1>10, <1>11, <1>12, <1>13 DEF Working

LEMMA HiddenChecking ==
  ASSUME TokenInv, NEW k \in Calls, NEW c \in Clients, HiddenFor(c), Checking(k, c)
  PROVE  HiddenFor(c)'
<1> TypeOK
  BY DEF TokenInv
<1>1. ASSUME NEW from, NEW to, Goto(k, c, from, to)
      PROVE  pc[k][c] = from /\ pc'[k][c] = to
  BY <1>1 DEF Goto, TypeOK
<1>2. ASSUME NEW cause, NEW at, Decide(k, c, cause, at)
      PROVE  outcome'[k][c] = [cause |-> cause, at |-> at]
  BY <1>2 DEF Decide, TypeOK
<1>3. cache[c] <= now /\ now # 0 /\ now \in Nat /\ checkedAt[k][c] <= now
  BY TimeFacts DEF HiddenFor
<1> USE <1>3 DEF HasResult, Published, Accepted
<1>4. CASE ReadEndedAt(k, c)
  <2>1. /\ pc[k][c] = "checking" /\ pc'[k][c] = "recording" /\ UNCHANGED outcome
        /\ checkedAt'[k][c] = now /\ UNCHANGED <<cache[c], cacheWriter[c], override[c]>>
    BY <1>1, <1>4 DEF ReadEndedAt, TypeOK, shown, history
  <2> QED
    BY <2>1, HiddenMove DEF HiddenFor
<1>5. CASE UpdateHealth(k, c)
  <2>1. /\ pc[k][c] = "recording" /\ pc'[k][c] = "recorded" /\ UNCHANGED <<outcome, checkedAt>>
        /\ cache'[c] \in {checkedAt[k][c], 0} /\ cacheWriter'[c] = k
    BY <1>1, <1>5 DEF UpdateHealth, TypeOK
  <2>2. \A j \in Calls : j # k => pc[j][c] \notin {"recorded"} \union HasResult
    BY <2>1 DEF TokenInv, SerializedThroughPublication, SlotHolders, HoldsSlot, InChecker
  <2>3. UNCHANGED now /\ \A j \in Calls : j # k => UNCHANGED <<pc[j][c], outcome[j][c]>>
    BY TaskFrame
  <2>4. cache'[c] <= now' /\ k \in Calls
    BY <1>3, <2>1, <2>3
  <2>5. \A j \in Calls : UNCHANGED <<checkedAt[j][c], outcome[j][c]>>
    BY <2>1
  <2>6. \A j \in Calls : j # k => pc'[j][c] \notin {"recorded"} \union HasResult
    BY <2>2, <2>3
  <2> QED
    BY <2>1, <2>3, <2>4, <2>5, <2>6 DEF HiddenFor
<1>6. CASE CheckReturns(k, c)
  <2>1. /\ pc[k][c] = "recorded" /\ UNCHANGED checkedAt
        /\ UNCHANGED <<cache[c], cacheWriter[c], override[c]>>
        /\ \/ /\ pc'[k][c] = "deciding"
              /\ outcome'[k][c] = [cause |-> Accepted, at |-> now]
           \/ /\ pc'[k][c] = "publishing"
              /\ outcome'[k][c] = [cause |-> "context", at |-> now]
    BY <1>1, <1>2, <1>6 DEF CheckReturns, shown, history
  <2> QED
    BY <2>1, HiddenMove DEF HiddenFor
<1>7. CASE CheckPanics(k, c)
  <2>1. /\ pc[k][c] \in InChecker /\ UNCHANGED checkedAt
        /\ UNCHANGED <<cache[c], cacheWriter[c], override[c]>>
        /\ pc'[k][c] \in {"deciding", "publishing"}
        /\ outcome'[k][c].cause # Accepted /\ outcome'[k][c].at = now
    <3>1. CASE Goto(k, c, pc[k][c], "deciding") /\ Decide(k, c, "panic", now)
      <4>1. pc'[k][c] = "deciding" /\ outcome'[k][c] = [cause |-> "panic", at |-> now]
        BY <1>1, <1>2, <3>1
      <4> QED
        BY <1>7, <4>1 DEF CheckPanics, shown, history
    <3>2. CASE Goto(k, c, pc[k][c], "publishing") /\ Decide(k, c, "context", now)
      <4>1. pc'[k][c] = "publishing" /\ outcome'[k][c] = [cause |-> "context", at |-> now]
        BY <1>1, <1>2, <3>2
      <4> QED
        BY <1>7, <4>1 DEF CheckPanics, shown, history
    <3> QED
      BY <1>7, <3>1, <3>2 DEF CheckPanics
  <2> QED
    BY <2>1, HiddenMove DEF HiddenFor, InChecker
<1> QED
  BY <1>4, <1>5, <1>6, <1>7 DEF Checking

\* Publishing: a failure covers the assessment its own task left in the cache and never
\* uncovers another's; an acceptance clears the override only when no other task's
\* assessment is in the cache.
LEMMA HiddenPublish ==
  ASSUME TypeOK, NEW k \in Calls, NEW c \in Clients, HiddenFor(c),
         Publish(k, c) \/ PublishAbandoned(k, c)
  PROVE  HiddenFor(c)'
<1> DEFINE o == outcome[k][c]
<1>1. \/ /\ pc[k][c] = "publishing" /\ pc'[k][c] = "releasing"
         /\ UNCHANGED <<outcome, checkedAt>>
      \/ /\ pc[k][c] = "abandoned" /\ pc'[k][c] = "completed"
         /\ outcome'[k][c].cause = o.cause /\ checkedAt'[k][c] = 0
  <2>1. CASE Publish(k, c)
    BY <2>1 DEF Publish, Goto, TypeOK
  <2>2. CASE PublishAbandoned(k, c)
    <3>1. pc[k][c] = "abandoned" /\ pc'[k][c] = "completed"
      BY <2>2 DEF PublishAbandoned, Goto, TypeOK
    <3>2. outcome'[k][c] = [o EXCEPT !.at = 0] /\ checkedAt'[k][c] = 0
      BY <2>2 DEF PublishAbandoned, Retire, TypeOK
    <3>3. outcome'[k][c].cause = o.cause
      BY <3>2 DEF TypeOK
    <3> QED
      BY <3>1, <3>2, <3>3
  <2> QED
    BY <2>1, <2>2
<1>2. /\ UNCHANGED <<cache, cacheWriter>>
      /\ override'[c] = IF Outdated(c, o.at) THEN override[c]
                        ELSE IF o.cause = Accepted THEN 0 ELSE o.at
  BY DEF Publish, PublishAbandoned, Apply, TypeOK
<1>3. UNCHANGED now /\ \A j \in Calls : j # k =>
                            UNCHANGED <<pc[j][c], outcome[j][c], checkedAt[j][c]>>
  BY TaskFrame DEF Working
<1>4. /\ now \in Nat /\ cache[c] \in Nat /\ override[c] \in Nat /\ o.at \in Nat
      /\ cache[c] <= now /\ checkedAt'[k][c] <= now'
  BY <1>1, <1>3, TimeFacts DEF HiddenFor
<1>5. ASSUME NEW w \in Calls, cacheWriter[c] = w, w # k,
             pc[w][c] \in Published, outcome[w][c].cause # Accepted
      PROVE  override'[c] # 0 /\ cache[c] <= override'[c]
  <2>1. override[c] # 0 /\ cache[c] <= override[c]
    BY <1>5 DEF HiddenFor
  <2>2. o.cause # Accepted
    BY <1>1, <1>5, NobodyAssumption DEF HiddenFor, HasResult, Accepted
  <2> QED
    BY <1>2, <1>4, <2>1, <2>2 DEF Outdated
<1>6. ASSUME cacheWriter[c] = k, o.cause # Accepted
      PROVE  override'[c] # 0 /\ cache[c] <= override'[c]
  <2>1. pc[k][c] = "publishing" /\ cache[c] <= o.at /\ o.at # 0
    BY <1>1, <1>6 DEF HiddenFor, HasResult, Published
  <2> QED
    BY <1>2, <1>4, <1>6, <2>1 DEF Outdated
<1>7. outcome'[k][c].cause = o.cause /\ pc'[k][c] \in Published
      /\ pc'[k][c] \notin {"abandoned", "recorded"} \union HasResult
  BY <1>1 DEF Published, HasResult
<1> QED
  BY <1>2, <1>3, <1>4, <1>5, <1>6, <1>7 DEF HiddenFor

LEMMA HiddenDirect ==
  ASSUME TypeOK, HiddenInv, NEW d \in Directs, DirectReadEndedAt(d) \/ DirectUpdateHealth(d)
  PROVE  HiddenInv'
<1>1. UNCHANGED <<now, pc, outcome, checkedAt, override>>
  BY DEF DirectReadEndedAt, DirectUpdateHealth, work, shown
<1>2. now \in Nat /\ direct[d] \in [phase : {"idle", "recording", "done"},
                                     client : Clients, at : Time]
  BY ConstantFacts DEF TypeOK
<1>3. CASE DirectReadEndedAt(d)
  <2>1. PICK c \in Clients :
          direct' = [direct EXCEPT ![d] = [phase |-> "recording", client |-> c, at |-> now]]
    BY <1>3 DEF DirectReadEndedAt
  <2>2. \A b \in Directs : direct'[b].at \in {now, direct[b].at}
    BY <2>1 DEF TypeOK
  <2>3. UNCHANGED <<cache, cacheWriter>>
    BY <1>3 DEF DirectReadEndedAt, shown, history
  <2> QED
    BY <1>1, <1>2, <2>2, <2>3 DEF HiddenInv, HiddenFor
<1>4. CASE DirectUpdateHealth(d)
  <2>0. PICK c \in Clients : c = direct[d].client
    BY <1>2
  <2>1. /\ c \in Clients /\ direct[d].at <= now
        /\ cache'[c] = direct[d].at /\ cacheWriter'[c] = Nobody
        /\ \A e \in Clients : e # c => UNCHANGED <<cache[e], cacheWriter[e]>>
    <3>1. c \in Clients /\ direct[d].at <= now
      BY DEF HiddenInv
    <3>2. cache' = [cache EXCEPT ![c] = direct[d].at]
          /\ cacheWriter' = [cacheWriter EXCEPT ![c] = Nobody]
      BY <1>4, <2>0 DEF DirectUpdateHealth
    <3>3. cache \in [Clients -> Time] /\ cacheWriter \in [Clients -> Calls \union {Nobody}]
      BY DEF TypeOK
    <3> QED
      BY <3>1, <3>2, <3>3
  <2>2. \A b \in Directs : direct'[b].at = direct[b].at
    BY <1>4 DEF DirectUpdateHealth, TypeOK
  <2>3. HiddenFor(c)'
    <3>1. HiddenFor(c)
      BY <2>1 DEF HiddenInv
    <3>2. cacheWriter'[c] \notin Calls /\ cache'[c] <= now'
      BY <1>1, <2>1, NobodyAssumption
    <3>3. \A k \in Calls : UNCHANGED <<pc[k][c], outcome[k][c], checkedAt[k][c]>>
      BY <1>1
    <3> QED
      BY <1>1, <2>1, <3>1, <3>2, <3>3 DEF HiddenFor
  <2>4. ASSUME NEW e \in Clients, e # c
        PROVE  HiddenFor(e)'
    BY <1>1, <2>1, <2>4 DEF HiddenInv, HiddenFor
  <2> QED
    BY <1>1, <2>2, <2>3, <2>4 DEF HiddenInv
<1> QED
  BY <1>3, <1>4

LEMMA HiddenStep ==
  ASSUME TokenInv, HiddenInv, [Next]_vars
  PROVE  HiddenInv'
<1> TypeOK
  BY DEF TokenInv
<1>1. ASSUME NEW k \in Calls, NEW c \in Clients, Working(k, c) \/ Checking(k, c)
      PROVE  HiddenInv'
  <2>1. HiddenFor(c)'
    BY <1>1, HiddenWorkingQuietly, HiddenPublish, HiddenChecking DEF HiddenInv
  <2>2. ASSUME NEW e \in Clients, e # c
        PROVE  HiddenFor(e)'
    BY <1>1, <2>2, TaskFrame, HiddenFrame, TimeFacts DEF HiddenInv
  <2>3. UNCHANGED <<now, direct>>
    BY <1>1 DEF Working, Checking, Receive, TakeSlot, AbandonSlotWait, TakePermit,
                AbandonPermitWait, Sanitize, AcceptResult, RejectResult, Publish,
                PublishAbandoned, ReleaseSlot, ReadEndedAt, UpdateHealth, CheckReturns,
                CheckPanics
  <2> QED
    BY <2>1, <2>2, <2>3 DEF HiddenInv
<1>2. ASSUME NEW k \in Calls, HandOff(k)
      PROVE  HiddenInv'
  <2>1. UNCHANGED <<now, outcome, checkedAt, cache, cacheWriter, override, direct>>
    BY <1>2 DEF HandOff, shown, history
  <2>2. /\ next[k] \in Clients
        /\ pc[k][next[k]] = "pending" /\ pc'[k][next[k]] = "received"
        /\ \A j \in Calls, e \in Clients : j # k \/ e # next[k] => UNCHANGED pc[j][e]
    BY <1>2 DEF HandOff, Goto, TypeOK
  <2>3. ASSUME NEW c \in Clients
        PROVE  HiddenFor(c)'
    BY <2>1, <2>2 DEF HiddenInv, HiddenFor, HasResult, Published
  <2> QED
    BY <2>1, <2>3 DEF HiddenInv
<1>3. ASSUME NEW d \in Directs, DirectReadEndedAt(d) \/ DirectUpdateHealth(d)
      PROVE  HiddenInv'
  BY <1>3, HiddenDirect
<1>4. ASSUME now' \in Nat, now <= now',
             UNCHANGED <<pc, outcome, checkedAt, cache, cacheWriter, override, direct>>
      PROVE  HiddenInv'
  <2>1. now \in Nat /\ \A d \in Directs : direct[d].at \in Nat
    BY ConstantFacts DEF TypeOK, Time
  <2>2. \A d \in Directs : direct'[d].at <= now'
    BY <1>4, <2>1 DEF HiddenInv
  <2>3. \A c \in Clients : HiddenFor(c)'
    BY <1>4, HiddenFrame DEF HiddenInv
  <2> QED
    BY <2>2, <2>3 DEF HiddenInv
<1>5. ASSUME \/ Tick \/ UNCHANGED vars
             \/ \E k \in Calls : (ContextEnds(k) \/ Calling(k)) /\ ~HandOff(k)
             \/ \E r \in Readers : SnapshotCopies(r) \/ \E c \in Clients : SnapshotReads(r, c)
      PROVE  /\ UNCHANGED <<pc, outcome, checkedAt, cache, cacheWriter, override, direct>>
             /\ now' \in {now, now + 1}
  BY <1>5 DEF Tick, ContextEnds, Calling, StartCheckAll, StopScheduling, Finish,
              SnapshotCopies, SnapshotReads, work, shown, history, vars
<1>6. now \in Nat
  BY ConstantFacts DEF TypeOK
<1> QED
  BY <1>1, <1>2, <1>3, <1>4, <1>5, <1>6 DEF Next, Application, Quiet

THEOREM HiddenInvariant == Spec => []HiddenInv
<1>1. Init => HiddenInv
  BY ConstantFacts, NobodyAssumption
     DEF Init, HiddenInv, HiddenFor, HasResult, Published
<1>2. TokenInv /\ HiddenInv /\ [Next]_vars => HiddenInv'
  BY HiddenStep
<1> QED
  BY <1>1, <1>2, TokenInvariant, PTL DEF Spec

\* While the cache still holds an assessment that the registry rejected, the override it
\* published instead covers it.
THEOREM RejectedResultsStayHidden == Spec => []RejectedResultHidden
<1>1. TypeOK /\ HiddenInv => RejectedResultHidden
  <2> SUFFICES ASSUME TypeOK, HiddenInv, NEW c \in Clients, NEW k \in Calls,
                      cacheWriter[c] = k, <<k, c>> \in Rejected
               PROVE  Hides(override[c], cache[c])
    BY DEF RejectedResultHidden
  <2>1. pc[k][c] \in Published /\ outcome[k][c].cause # Accepted
    BY DEF Rejected, Published
  <2> QED
    BY <2>1 DEF HiddenInv, HiddenFor, Hides
<1> QED
  BY <1>1, TypeCorrect, HiddenInvariant, PTL

-----------------------------------------------------------------------------
(***************************************************************************)
(* Proof that Registry.Snapshot, which copies the overrides under the lock *)
(* and reads the clients' health after it, shows no assessment that was    *)
(* rejected before it began.                                               *)
(*                                                                         *)
(* That the override hides a rejected result is RejectedResultHidden; but  *)
(* the reader's copy of the override does not follow later publications.   *)
(* It need not: a task whose rejection is published never writes the cache *)
(* again, so whatever is in the cache under its name is what the copied    *)
(* override already covered.                                               *)
(***************************************************************************)

\* What a reader knows of the tasks that were rejected when it began.
SnapshotFor(r) ==
    /\ ~snap[r].begun => \A c \in Clients : snap[r].from[c] = Nobody
    /\ \A k \in Calls, c \in Clients : <<k, c>> \in snap[r].hidden =>
          /\ snap[r].from[c] # k
          /\ pc[k][c] \in Published
          /\ cacheWriter[c] = k => Hides(snap[r].copied[c], cache[c])
SnapshotInv == \A r \in Readers : SnapshotFor(r)

\* Published results are final.
LEMMA PublishedStays ==
  ASSUME TypeOK, [Next]_vars, NEW k \in Calls, NEW c \in Clients, pc[k][c] \in Published
  PROVE  pc'[k][c] \in Published
<1>1. ASSUME NEW j \in Calls, NEW e \in Clients, Working(j, e) \/ Checking(j, e)
      PROVE  pc'[k][c] \in Published
  <2>1. CASE j # k \/ e # c
    BY <1>1, <2>1, TaskResults
  <2>2. CASE j = k /\ e = c
    <3>1. pc[k][c] = "releasing"
      BY <1>1, <2>2, TaskResults DEF Published
    <3>2. ReleaseSlot(k, c)
      BY <1>1, <2>2, <3>1
         DEF Working, Checking, Receive, TakeSlot, AbandonSlotWait, TakePermit, AbandonPermitWait,
             Sanitize, AcceptResult, RejectResult, Publish, PublishAbandoned, ReadEndedAt,
             UpdateHealth, CheckReturns, CheckPanics, InChecker, Goto
    <3> QED
      BY <3>2 DEF ReleaseSlot, Goto, TypeOK, Published
  <2> QED
    BY <2>1, <2>2
<1>2. ASSUME NEW j \in Calls, HandOff(j) PROVE pc'[k][c] \in Published
  BY <1>2 DEF HandOff, Goto, TypeOK, Published
<1>3. ASSUME \/ Tick \/ UNCHANGED vars \/ Application
             \/ \E j \in Calls : (ContextEnds(j) \/ Calling(j)) /\ ~HandOff(j)
      PROVE  UNCHANGED pc
  BY <1>3 DEF Tick, ContextEnds, Calling, StartCheckAll, StopScheduling, Finish, Application,
              DirectReadEndedAt, DirectUpdateHealth, SnapshotCopies, SnapshotReads, work, vars
<1> QED
  BY <1>1, <1>2, <1>3 DEF Next, Quiet

\* What is in a client's cache stays there, or is overwritten by a direct check or by a
\* task that has not published.
LEMMA CacheWritten ==
  ASSUME TypeOK, [Next]_vars, NEW c \in Clients
  PROVE  \/ UNCHANGED <<cache[c], cacheWriter[c]>>
         \/ cacheWriter'[c] = Nobody
         \/ \E k \in Calls : cacheWriter'[c] = k /\ pc[k][c] \notin Published
<1>1. ASSUME NEW j \in Calls, NEW e \in Clients, Working(j, e) PROVE UNCHANGED <<cache, cacheWriter>>
  BY <1>1 DEF Working, Receive, TakeSlot, AbandonSlotWait, TakePermit, AbandonPermitWait,
              Sanitize, AcceptResult, RejectResult, Publish, PublishAbandoned, ReleaseSlot,
              Apply, shown, history
<1>2. ASSUME NEW j \in Calls, NEW e \in Clients, ReadEndedAt(j, e) \/ CheckReturns(j, e) \/ CheckPanics(j, e)
      PROVE  UNCHANGED <<cache, cacheWriter>>
  BY <1>2 DEF ReadEndedAt, CheckReturns, CheckPanics, shown, history
<1>3. ASSUME NEW j \in Calls, NEW e \in Clients, UpdateHealth(j, e)
      PROVE  \/ UNCHANGED <<cache[c], cacheWriter[c]>>
             \/ cacheWriter'[c] = j /\ pc[j][c] \notin Published
  BY <1>3 DEF UpdateHealth, Goto, TypeOK, Published
<1>4. ASSUME NEW d \in Directs, DirectUpdateHealth(d)
      PROVE  UNCHANGED <<cache[c], cacheWriter[c]>> \/ cacheWriter'[c] = Nobody
  BY <1>4 DEF DirectUpdateHealth, TypeOK
<1>5. ASSUME \/ Tick \/ UNCHANGED vars \/ \E j \in Calls : ContextEnds(j) \/ Calling(j)
             \/ \E d \in Directs : DirectReadEndedAt(d)
             \/ \E r \in Readers : SnapshotCopies(r) \/ \E e \in Clients : SnapshotReads(r, e)
      PROVE  UNCHANGED <<cache, cacheWriter>>
  BY <1>5 DEF Tick, ContextEnds, Calling, StartCheckAll, HandOff, StopScheduling, Finish,
              DirectReadEndedAt, SnapshotCopies, SnapshotReads, shown, history, vars
<1> QED
  BY <1>1, <1>2, <1>3, <1>4, <1>5 DEF Next, Application, Checking, Quiet

\* A reader that does not move keeps its invariant.
LEMMA SnapshotFrame ==
  ASSUME TypeOK, [Next]_vars, NEW r \in Readers, SnapshotFor(r), UNCHANGED snap[r]
  PROVE  SnapshotFor(r)'
<1> SUFFICES ASSUME NEW k \in Calls, NEW c \in Clients, <<k, c>> \in snap[r].hidden
             PROVE  /\ pc'[k][c] \in Published
                    /\ cacheWriter'[c] = k => Hides(snap[r].copied[c], cache'[c])
  BY DEF SnapshotFor, Hides
<1>1. pc[k][c] \in Published /\ pc'[k][c] \in Published
  BY PublishedStays DEF SnapshotFor
<1>2. cacheWriter'[c] = k => UNCHANGED <<cache[c], cacheWriter[c]>>
  BY <1>1, CacheWritten, NobodyAssumption
<1> QED
  BY <1>1, <1>2 DEF SnapshotFor

LEMMA CopiesFor ==
  ASSUME TypeOK, RejectedResultHidden, NEW r \in Readers, SnapshotFor(r), SnapshotCopies(r)
  PROVE  SnapshotFor(r)'
<1>1. /\ snap'[r].begun = TRUE /\ snap'[r].copied = override /\ snap'[r].hidden = Rejected
      /\ snap'[r].from = snap[r].from
  BY DEF SnapshotCopies, TypeOK
<1>2. UNCHANGED <<pc, cache, cacheWriter>> /\ \A c \in Clients : snap[r].from[c] = Nobody
  BY DEF SnapshotCopies, SnapshotFor, work, shown, history
<1> SUFFICES ASSUME NEW k \in Calls, NEW c \in Clients, <<k, c>> \in Rejected
             PROVE  /\ snap[r].from[c] # k
                    /\ pc[k][c] \in Published
                    /\ cacheWriter[c] = k => Hides(override[c], cache[c])
  BY <1>1, <1>2 DEF SnapshotFor, Hides
<1>3. snap[r].from[c] # k
  BY <1>2, NobodyAssumption
<1>4. pc[k][c] \in Published
  BY DEF Rejected, Published
<1> QED
  BY <1>3, <1>4 DEF RejectedResultHidden

LEMMA ReadsFor ==
  ASSUME TypeOK, NEW r \in Readers, SnapshotFor(r), NEW e \in Clients, SnapshotReads(r, e)
  PROVE  SnapshotFor(r)'
<1>1. UNCHANGED <<pc, cache, cacheWriter>> /\ snap[r].begun
  BY DEF SnapshotReads, work, shown, history
<1>2. snap[r].from \in [Clients -> Calls \union {Nobody}]
  BY DEF TypeOK
<1>3. /\ snap'[r].begun = snap[r].begun /\ snap'[r].copied = snap[r].copied
      /\ snap'[r].hidden = snap[r].hidden
      /\ snap'[r].from = [snap[r].from EXCEPT ![e] =
             IF Hides(snap[r].copied[e], cache[e]) THEN Nobody ELSE cacheWriter[e]]
  BY DEF SnapshotReads, TypeOK
<1>4. \A c \in Clients : snap'[r].from[c] =
          IF c # e THEN snap[r].from[c]
          ELSE IF Hides(snap[r].copied[e], cache[e]) THEN Nobody ELSE cacheWriter[e]
  BY <1>2, <1>3
<1> SUFFICES ASSUME NEW k \in Calls, NEW c \in Clients, <<k, c>> \in snap[r].hidden
             PROVE  snap'[r].from[c] # k
  BY <1>1, <1>3 DEF SnapshotFor, Hides
<1> QED
  BY <1>4, NobodyAssumption DEF SnapshotFor

LEMMA SnapshotStep ==
  ASSUME TypeOK, RejectedResultHidden, SnapshotInv, [Next]_vars
  PROVE  SnapshotInv'
<1> SUFFICES ASSUME NEW r \in Readers PROVE SnapshotFor(r)'
  BY DEF SnapshotInv
<1>0. SnapshotFor(r)
  BY DEF SnapshotInv
<1>1. CASE SnapshotCopies(r)
  BY <1>0, <1>1, CopiesFor
<1>2. CASE \E c \in Clients : SnapshotReads(r, c)
  BY <1>0, <1>2, ReadsFor
<1>3. CASE ~SnapshotCopies(r) /\ ~(\E c \in Clients : SnapshotReads(r, c))
  <2>1. ASSUME NEW j \in Calls, NEW e \in Clients, Working(j, e) \/ Checking(j, e) PROVE UNCHANGED snap
    BY <2>1 DEF Working, Checking, Receive, TakeSlot, AbandonSlotWait, TakePermit,
                AbandonPermitWait, Sanitize, AcceptResult, RejectResult, Publish,
                PublishAbandoned, ReleaseSlot, ReadEndedAt, UpdateHealth, CheckReturns, CheckPanics
  <2>2. ASSUME \/ Tick \/ UNCHANGED vars \/ \E j \in Calls : ContextEnds(j) \/ Calling(j)
               \/ \E d \in Directs : DirectReadEndedAt(d) \/ DirectUpdateHealth(d)
        PROVE  UNCHANGED snap
    BY <2>2 DEF Tick, ContextEnds, Calling, StartCheckAll, HandOff, StopScheduling, Finish,
                DirectReadEndedAt, DirectUpdateHealth, vars
  <2>3. ASSUME NEW q \in Readers, q # r, SnapshotCopies(q) \/ \E c \in Clients : SnapshotReads(q, c)
        PROVE  UNCHANGED snap[r]
    BY <2>3 DEF SnapshotCopies, SnapshotReads, TypeOK
  <2>4. UNCHANGED snap[r]
    BY <1>3, <2>1, <2>2, <2>3 DEF Next, Application, Quiet
  <2> QED
    BY <1>0, <2>4, SnapshotFrame
<1> QED
  BY <1>1, <1>2, <1>3

\* A snapshot begun after a rejection was published never reports the rejected assessment,
\* however many readers, calls and direct checks overlap (Registry.Snapshot).
THEOREM SnapshotsOmitRejected == Spec => []SnapshotOmitsRejected
<1>1. Init => SnapshotInv
  BY DEF Init, SnapshotInv, SnapshotFor, NoSnap
<1>2. TypeOK /\ RejectedResultHidden /\ SnapshotInv /\ [Next]_vars => SnapshotInv'
  BY SnapshotStep
<1>3. TypeOK /\ SnapshotInv => SnapshotOmitsRejected
  <2> SUFFICES ASSUME TypeOK, SnapshotInv, NEW r \in Readers, NEW c \in Clients,
                      <<snap[r].from[c], c>> \in snap[r].hidden
               PROVE  FALSE
    BY DEF SnapshotOmitsRejected
  <2>1. snap[r].hidden \subseteq Tasks
    BY DEF TypeOK
  <2>2. snap[r].from[c] \in Calls
    BY <2>1 DEF Tasks
  <2> QED
    BY <2>2 DEF SnapshotInv, SnapshotFor
<1> QED
  BY <1>1, <1>2, <1>3, TypeCorrect, RejectedResultsStayHidden, PTL DEF Spec
=============================================================================
