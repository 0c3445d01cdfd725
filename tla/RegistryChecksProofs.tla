------------------------ MODULE RegistryChecksProofs ------------------------
(***************************************************************************)
(* Proofs about RegistryChecks, for every number of calls, clients,        *)
(* permits, direct checks and readers, and every length of the clock.      *)
(***************************************************************************)
EXTENDS RegistryChecks, FiniteSetTheorems, TLAPS

(***************************************************************************)
(* Type correctness.                                                       *)
(***************************************************************************)
LEMMA ConstantFacts ==
    /\ NumClients \in Nat /\ NumClients >= 1
    /\ MaxTime \in Nat /\ MaxTime >= 1
    /\ MaxConcurrent \in Nat /\ MaxConcurrent >= 1
    /\ 1 \in Clients /\ 0 \in Time
    /\ IsFiniteSet(Clients) /\ IsFiniteSet(Tasks)
<1>1. IsFiniteSet(Clients)
  BY FS_Interval, NumClientsAssumption DEF Clients
<1>2. IsFiniteSet(Tasks)
  BY <1>1, FS_Product, CallsAssumption DEF Tasks
<1> QED
  BY <1>1, <1>2, NumClientsAssumption, MaxTimeAssumption, MaxConcurrentAssumption
     DEF Clients, Time

LEMMA TypeInit == Init => TypeOK
  BY ConstantFacts
     DEF Init, TypeOK, States, Inactive, HoldsSlot, InChecker, Causes, Accepted, NoOutcome,
         NoSnap, Nobody, Clients, Tasks, Time

LEMMA TypeTick == TypeOK /\ Tick => TypeOK'
  BY ConstantFacts DEF TypeOK, Tick, sched, work, tokens, shown, history

\* The steps of the goroutines that call CheckAll, and the end of their contexts.
LEMMA TypeCalling ==
  ASSUME TypeOK, NEW k \in Calls, ContextEnds(k) \/ Calling(k)
  PROVE  TypeOK'
<1> USE ConstantFacts DEF TypeOK, sched, work, tokens, shown, history
<1>1. CASE ContextEnds(k)
  BY <1>1 DEF ContextEnds
<1>2. CASE StartCheckAll(k)
  BY <1>2 DEF StartCheckAll
<1>3. CASE HandOff(k)
  <2>1. pc' \in [Calls -> [Clients -> States]]
    BY <1>3 DEF HandOff, Goto, States
  <2>2. next' \in [Calls -> 1..(NumClients + 1)]
    BY <1>3 DEF HandOff, Clients
  <2> QED
    BY <1>3, <2>1, <2>2 DEF HandOff
<1>4. CASE StopScheduling(k)
  BY <1>4 DEF StopScheduling
<1>5. CASE Finish(k)
  BY <1>5 DEF Finish
<1> QED
  BY <1>1, <1>2, <1>3, <1>4, <1>5 DEF Calling


\* What the three updates shared by the worker's steps preserve.
LEMMA GotoType ==
  ASSUME TypeOK, NEW k \in Calls, NEW c \in Clients, NEW from, NEW to \in States,
         Goto(k, c, from, to)
  PROVE  pc' \in [Calls -> [Clients -> States]]
  BY DEF TypeOK, Goto

LEMMA DecideType ==
  ASSUME TypeOK, NEW k \in Calls, NEW c \in Clients, NEW cause \in Causes, NEW at \in Time,
         Decide(k, c, cause, at)
  PROVE  outcome' \in [Calls -> [Clients -> [cause : Causes, at : Time]]]
  BY DEF TypeOK, Decide

LEMMA RetireType ==
  ASSUME TypeOK, NEW k \in Calls, NEW c \in Clients, Retire(k, c)
  PROVE  /\ outcome' \in [Calls -> [Clients -> [cause : Causes, at : Time]]]
         /\ checkedAt' \in [Calls -> [Clients -> Time]]
<1>1. outcome[k][c] \in [cause : Causes, at : Time]
  BY DEF TypeOK
<1>2. [outcome[k][c] EXCEPT !.at = 0] \in [cause : Causes, at : Time]
  BY <1>1, ConstantFacts
<1>3. outcome' = [outcome EXCEPT ![k] =
                    [outcome[k] EXCEPT ![c] = [outcome[k][c] EXCEPT !.at = 0]]]
  BY DEF Retire
<1>4. [outcome[k] EXCEPT ![c] = [outcome[k][c] EXCEPT !.at = 0]]
        \in [Clients -> [cause : Causes, at : Time]]
  BY <1>2 DEF TypeOK
<1>5. outcome' \in [Calls -> [Clients -> [cause : Causes, at : Time]]]
  BY <1>3, <1>4 DEF TypeOK
<1> QED
  BY <1>5, ConstantFacts DEF TypeOK, Retire

LEMMA ApplyType ==
  ASSUME TypeOK, NEW k \in Calls, NEW c \in Clients, Apply(k, c)
  PROVE  /\ override' \in [Clients -> Time] /\ newestFailure' \in [Clients -> Time]
         /\ newestAccepted' \in [Clients -> Time] /\ UNCHANGED <<cache, cacheWriter>>
<1> DEFINE at == outcome[k][c].at
<1>1. at \in Time
  BY DEF TypeOK
<1>2. \A x \in Time : Newer(x, at) \in Time
  BY <1>1 DEF Newer
<1>3. override' \in [Clients -> Time]
  BY <1>1, ConstantFacts DEF TypeOK, Apply
<1>4. newestFailure' \in [Clients -> Time] /\ newestAccepted' \in [Clients -> Time]
  <2>1. /\ Newer(newestFailure[c], at) \in Time /\ Newer(newestAccepted[c], at) \in Time
        /\ newestFailure \in [Clients -> Time] /\ newestAccepted \in [Clients -> Time]
    BY <1>2 DEF TypeOK
  <2>2. \/ /\ newestAccepted' = [newestAccepted EXCEPT ![c] = Newer(newestAccepted[c], at)]
           /\ newestFailure' = newestFailure
        \/ /\ newestFailure' = [newestFailure EXCEPT ![c] = Newer(newestFailure[c], at)]
           /\ newestAccepted' = newestAccepted
    BY DEF Apply
  <2> QED
    BY <2>1, <2>2
<1> QED
  BY <1>3, <1>4 DEF Apply

LEMMA StateNames ==
  /\ {"received", "slotWait", "abandoned", "pending", "skipped", "completed"} \subseteq States
  /\ {"permitWait", "deciding", "sanitized", "publishing", "releasing"} \subseteq States
  /\ {"checking", "recording", "recorded"} \subseteq States
  /\ Accepted \in Causes /\ "panic" \in Causes /\ "context" \in Causes
  BY DEF States, Inactive, HoldsSlot, InChecker, Causes

LEMMA NowIsTime == TypeOK => now \in Time
  BY ConstantFacts DEF TypeOK, Time

\* The worker's steps of one task.
LEMMA TypeWorking ==
  ASSUME TypeOK, NEW k \in Calls, NEW c \in Clients, Working(k, c)
  PROVE  TypeOK'
<1> USE GotoType, DecideType, StateNames, NowIsTime
    DEF TypeOK, sched, work, tokens, shown, history
<1>1. CASE Receive(k, c)
  BY <1>1 DEF Receive
<1>2. CASE TakeSlot(k, c)
  BY <1>2 DEF TakeSlot
<1>3. CASE AbandonSlotWait(k, c)
  BY <1>3 DEF AbandonSlotWait
<1>4. CASE TakePermit(k, c)
  BY <1>4, ConstantFacts DEF TakePermit, PermitFree
<1>5. CASE AbandonPermitWait(k, c)
  BY <1>5 DEF AbandonPermitWait
<1>6. CASE Sanitize(k, c)
  BY <1>6 DEF Sanitize
<1>7. CASE AcceptResult(k, c)
  BY <1>7 DEF AcceptResult
<1>8. CASE RejectResult(k, c)
  BY <1>8 DEF RejectResult
<1>9. CASE Publish(k, c)
  BY <1>9, ApplyType DEF Publish
<1>10. CASE PublishAbandoned(k, c)
  BY <1>10, ApplyType, RetireType DEF PublishAbandoned
<1>11. CASE ReleaseSlot(k, c)
  BY <1>11, RetireType DEF ReleaseSlot
<1> QED
  BY <1>1, <1>2, <1>3, <1>4, <1>5, <1>6, <1>7, <1>8, <1>9, <1>10, <1>11 DEF Working

\* The steps of user code, of direct checks and of readers.  permitsUsed is positive
\* when a checker ends because it counts the tasks inside checkers.
LEMMA TypeChecking ==
  ASSUME TypeOK, NEW k \in Calls, NEW c \in Clients, Checking(k, c),
         pc[k][c] \in InChecker => permitsUsed > 0
  PROVE  TypeOK'
<1> USE GotoType, DecideType, StateNames, NowIsTime
    DEF TypeOK, sched, work, tokens, shown, history
<1>1. CASE ReadEndedAt(k, c)
  BY <1>1 DEF ReadEndedAt
<1>2. CASE UpdateHealth(k, c)
  BY <1>2, ConstantFacts DEF UpdateHealth
<1>3. CASE CheckReturns(k, c)
  <2>1. permitsUsed' \in 0..MaxConcurrent
    BY <1>3, ConstantFacts DEF CheckReturns, ReleasePermit, Goto, InChecker
  <2> QED
    BY <1>3, <2>1 DEF CheckReturns
<1>4. CASE CheckPanics(k, c)
  <2>1. permitsUsed' \in 0..MaxConcurrent
    BY <1>4, ConstantFacts DEF CheckPanics, ReleasePermit
  <2> QED
    BY <1>4, <2>1 DEF CheckPanics
<1> QED
  BY <1>1, <1>2, <1>3, <1>4 DEF Checking

\* Direct checks and snapshots.
LEMMA TypeApplication ==
  ASSUME TypeOK, Application
  PROVE  TypeOK'
<1> DEFINE DirectType == [phase : {"idle", "recording", "done"}, client : Clients, at : Time]
           SnapType == [begun : BOOLEAN, todo : SUBSET Clients, copied : [Clients -> Time],
                        hidden : SUBSET Tasks, from : [Clients -> Calls \union {Nobody}]]
<1> USE NowIsTime DEF TypeOK, sched, work, tokens, shown, history
<1>1. ASSUME NEW d \in Directs, DirectReadEndedAt(d)
      PROVE  TypeOK'
  <2>1. PICK c \in Clients :
          direct' = [direct EXCEPT ![d] = [phase |-> "recording", client |-> c, at |-> now]]
    BY <1>1 DEF DirectReadEndedAt
  <2>2. direct' \in [Directs -> DirectType]
    BY <2>1
  <2> QED
    BY <1>1, <2>2 DEF DirectReadEndedAt
<1>2. ASSUME NEW d \in Directs, DirectUpdateHealth(d)
      PROVE  TypeOK'
  <2>1. direct[d] \in DirectType
    OBVIOUS
  <2>2. direct' \in [Directs -> DirectType]
    BY <1>2, <2>1 DEF DirectUpdateHealth
  <2>3. cache' \in [Clients -> Time] /\ cacheWriter' \in [Clients -> Calls \union {Nobody}]
    BY <1>2, <2>1 DEF DirectUpdateHealth
  <2> QED
    BY <1>2, <2>2, <2>3 DEF DirectUpdateHealth
<1>3. ASSUME NEW r \in Readers, SnapshotCopies(r)
      PROVE  TypeOK'
  <2>1. snap[r] \in SnapType /\ Rejected \in SUBSET Tasks
    BY DEF Rejected
  <2>2. [snap[r] EXCEPT !.begun = TRUE, !.copied = override, !.hidden = Rejected] \in SnapType
    BY <2>1
  <2>3. snap' = [snap EXCEPT ![r] =
           [snap[r] EXCEPT !.begun = TRUE, !.copied = override, !.hidden = Rejected]]
    BY <1>3 DEF SnapshotCopies
  <2> QED
    BY <1>3, <2>2, <2>3 DEF SnapshotCopies
<1>4. ASSUME NEW r \in Readers, NEW c \in Clients, SnapshotReads(r, c)
      PROVE  TypeOK'
  <2> DEFINE who == IF Hides(snap[r].copied[c], cache[c]) THEN Nobody ELSE cacheWriter[c]
  <2>1. snap[r] \in SnapType /\ who \in Calls \union {Nobody}
    OBVIOUS
  <2>2. [snap[r] EXCEPT !.todo = @ \ {c}, !.from = [@ EXCEPT ![c] = who]] \in SnapType
    BY <2>1
  <2>3. snap' = [snap EXCEPT ![r] =
           [snap[r] EXCEPT !.todo = @ \ {c}, !.from = [@ EXCEPT ![c] = who]]]
    BY <1>4 DEF SnapshotReads
  <2> QED
    BY <1>4, <2>2, <2>3 DEF SnapshotReads
<1> QED
  BY <1>1, <1>2, <1>3, <1>4 DEF Application

(***************************************************************************)
(* Token accounting.                                                       *)
(***************************************************************************)
\* How a step that moves one task changes the set of tasks inside checkers.
LEMMA PermitHoldersMove ==
  ASSUME TypeOK, NEW k \in Calls, NEW c \in Clients, NEW from, NEW to, Goto(k, c, from, to)
  PROVE  /\ from \notin InChecker /\ to \notin InChecker => PermitHolders' = PermitHolders
         /\ from \in InChecker /\ to \in InChecker => PermitHolders' = PermitHolders
         /\ from \notin InChecker /\ to \in InChecker =>
                PermitHolders' = PermitHolders \union {<<k, c>>} /\ <<k, c>> \notin PermitHolders
         /\ from \in InChecker /\ to \notin InChecker =>
                PermitHolders' = PermitHolders \ {<<k, c>>} /\ <<k, c>> \in PermitHolders
<1>1. <<k, c>> \in Tasks /\ <<k, c>>[1] = k /\ <<k, c>>[2] = c
  BY DEF Tasks
<1>2. \A t \in Tasks : t \in PermitHolders <=> pc[t[1]][t[2]] \in InChecker
  BY DEF PermitHolders
<1>3. \A t \in Tasks : t \in PermitHolders' <=> pc'[t[1]][t[2]] \in InChecker
  BY DEF PermitHolders
<1>4. \A t \in Tasks : t # <<k, c>> => pc'[t[1]][t[2]] = pc[t[1]][t[2]]
  BY DEF Tasks, Goto, TypeOK
<1>5. pc[k][c] = from /\ pc'[k][c] = to
  BY DEF Goto, TypeOK
<1>6. PermitHolders \subseteq Tasks /\ PermitHolders' \subseteq Tasks
  BY DEF PermitHolders
<1> QED
  BY <1>1, <1>2, <1>3, <1>4, <1>5, <1>6

LEMMA PermitHoldersFinite == IsFiniteSet(PermitHolders) /\ Cardinality(PermitHolders) \in Nat
<1>1. PermitHolders \in SUBSET Tasks
  BY DEF PermitHolders
<1> QED
  BY <1>1, ConstantFacts, FS_Subset, FS_CardinalityType

\* The same for the calls that hold the slot of a client.
LEMMA SlotHoldersMove ==
  ASSUME TypeOK, NEW k \in Calls, NEW c \in Clients, NEW from, NEW to, Goto(k, c, from, to)
  PROVE  /\ \A e \in Clients : e # c => SlotHolders(e)' = SlotHolders(e)
         /\ (from \in HoldsSlot <=> to \in HoldsSlot) => SlotHolders(c)' = SlotHolders(c)
         /\ from \notin HoldsSlot /\ to \in HoldsSlot =>
                SlotHolders(c)' = SlotHolders(c) \union {k}
         /\ from \in HoldsSlot /\ to \notin HoldsSlot =>
                SlotHolders(c)' = SlotHolders(c) \ {k} /\ k \in SlotHolders(c)
<1>1. \A j \in Calls, e \in Clients : j # k \/ e # c => pc'[j][e] = pc[j][e]
  BY DEF Goto, TypeOK
<1>2. pc[k][c] = from /\ pc'[k][c] = to
  BY DEF Goto, TypeOK
<1> QED
  BY <1>1, <1>2 DEF SlotHolders

\* The inductive invariant: tokens are conserved, a slot has one holder at most.
TokenInv == TypeOK /\ TokensConserved /\ SerializedThroughPublication

LEMMA TokenInit == Init => TokenInv
<1> SUFFICES ASSUME Init PROVE TokenInv
  OBVIOUS
<1>1. TypeOK
  BY TypeInit
<1>2. PermitHolders = {} /\ \A c \in Clients : SlotHolders(c) = {}
  BY DEF Init, PermitHolders, SlotHolders, Tasks, InChecker, HoldsSlot
<1>3. TokensConserved
  BY <1>2, FS_EmptySet DEF Init, TokensConserved
<1> QED
  BY <1>1, <1>2, <1>3 DEF TokenInv, SerializedThroughPublication

\* A move of one task between program points that hold the same tokens.
LEMMA TokensKept ==
  ASSUME TokenInv, NEW k \in Calls, NEW c \in Clients, NEW from, NEW to,
         Goto(k, c, from, to), UNCHANGED tokens,
         from \in HoldsSlot <=> to \in HoldsSlot,
         from \in InChecker <=> to \in InChecker
  PROVE  TokensConserved' /\ SerializedThroughPublication'
<1>1. PermitHolders' = PermitHolders
  BY PermitHoldersMove DEF TokenInv
<1>2. \A e \in Clients : SlotHolders(e)' = SlotHolders(e)
  BY SlotHoldersMove DEF TokenInv
<1> QED
  BY <1>1, <1>2 DEF TokenInv, TokensConserved, SerializedThroughPublication, tokens

\* A checker ends: its task leaves the permit holders and keeps its slot.
LEMMA PermitReturned ==
  ASSUME TokenInv, NEW k \in Calls, NEW c \in Clients, NEW from \in InChecker,
         NEW to \in HoldsSlot \ InChecker,
         Goto(k, c, from, to), permitsUsed' = permitsUsed - 1, UNCHANGED slotTokens
  PROVE  TokensConserved' /\ SerializedThroughPublication'
<1>1. from \in HoldsSlot
  BY DEF HoldsSlot
<1>2. PermitHolders' = PermitHolders \ {<<k, c>>} /\ <<k, c>> \in PermitHolders
  BY PermitHoldersMove DEF TokenInv
<1>3. Cardinality(PermitHolders') = Cardinality(PermitHolders) - 1
  BY <1>2, PermitHoldersFinite, FS_RemoveElement
<1>4. \A e \in Clients : SlotHolders(e)' = SlotHolders(e)
  BY <1>1, SlotHoldersMove DEF TokenInv
<1> QED
  BY <1>3, <1>4 DEF TokenInv, TokensConserved, SerializedThroughPublication

LEMMA TokensWorking ==
  ASSUME TokenInv, NEW k \in Calls, NEW c \in Clients, Working(k, c)
  PROVE  TokensConserved' /\ SerializedThroughPublication'
<1> USE DEF HoldsSlot, InChecker, Inactive, tokens
<1>1. CASE Receive(k, c)
  BY <1>1, TokensKept DEF Receive
<1>2. CASE TakeSlot(k, c)
  <2>1. SlotHolders(c) = {}
    BY <1>2 DEF TakeSlot, SlotFree, TokenInv, TokensConserved
  <2>2. SlotHolders(c)' = {k} /\ \A e \in Clients : e # c => SlotHolders(e)' = SlotHolders(e)
    BY <1>2, <2>1, SlotHoldersMove DEF TakeSlot, TokenInv
  <2>3. PermitHolders' = PermitHolders
    BY <1>2, PermitHoldersMove DEF TakeSlot, TokenInv
  <2>4. slotTokens'[c] = 0 /\ \A e \in Clients : e # c => slotTokens'[e] = slotTokens[e]
    BY <1>2 DEF TakeSlot, TokenInv, TypeOK
  <2> QED
    BY <1>2, <2>2, <2>3, <2>4 DEF TakeSlot, TokenInv, TokensConserved,
                                  SerializedThroughPublication
<1>3. CASE AbandonSlotWait(k, c)
  BY <1>3, TokensKept DEF AbandonSlotWait
<1>4. CASE TakePermit(k, c)
  <2>1. PermitHolders' = PermitHolders \union {<<k, c>>} /\ <<k, c>> \notin PermitHolders
    BY <1>4, PermitHoldersMove DEF TakePermit, TokenInv
  <2>2. Cardinality(PermitHolders') = Cardinality(PermitHolders) + 1
    BY <2>1, PermitHoldersFinite, FS_AddElement
  <2>3. \A e \in Clients : SlotHolders(e)' = SlotHolders(e)
    BY <1>4, SlotHoldersMove DEF TakePermit, TokenInv
  <2> QED
    BY <1>4, <2>2, <2>3 DEF TakePermit, TokenInv, TokensConserved,
                            SerializedThroughPublication
<1>5. CASE AbandonPermitWait(k, c)
  BY <1>5, TokensKept DEF AbandonPermitWait
<1>6. CASE Sanitize(k, c)
  BY <1>6, TokensKept DEF Sanitize
<1>7. CASE AcceptResult(k, c)
  BY <1>7, TokensKept DEF AcceptResult
<1>8. CASE RejectResult(k, c)
  BY <1>8, TokensKept DEF RejectResult
<1>9. CASE Publish(k, c)
  BY <1>9, TokensKept DEF Publish
<1>10. CASE PublishAbandoned(k, c)
  BY <1>10, TokensKept DEF PublishAbandoned
<1>11. CASE ReleaseSlot(k, c)
  <2>1. SlotHolders(c)' = SlotHolders(c) \ {k} /\ k \in SlotHolders(c)
    BY <1>11, SlotHoldersMove DEF ReleaseSlot, TokenInv
  <2>2. SlotHolders(c)' = {} /\ \A e \in Clients : e # c => SlotHolders(e)' = SlotHolders(e)
    BY <1>11, <2>1, SlotHoldersMove DEF ReleaseSlot, TokenInv, SerializedThroughPublication
  <2>3. PermitHolders' = PermitHolders
    BY <1>11, PermitHoldersMove DEF ReleaseSlot, TokenInv
  <2>4. slotTokens'[c] = 1 /\ \A e \in Clients : e # c => slotTokens'[e] = slotTokens[e]
    BY <1>11 DEF ReleaseSlot, TokenInv, TypeOK
  <2> QED
    BY <1>11, <2>2, <2>3, <2>4 DEF ReleaseSlot, TokenInv, TokensConserved,
                                   SerializedThroughPublication
<1> QED
  BY <1>1, <1>2, <1>3, <1>4, <1>5, <1>6, <1>7, <1>8, <1>9, <1>10, <1>11 DEF Working

LEMMA TokensChecking ==
  ASSUME TokenInv, NEW k \in Calls, NEW c \in Clients, Checking(k, c)
  PROVE  TokensConserved' /\ SerializedThroughPublication'
<1> USE DEF HoldsSlot, InChecker, tokens
<1>1. CASE ReadEndedAt(k, c)
  BY <1>1, TokensKept DEF ReadEndedAt
<1>2. CASE UpdateHealth(k, c)
  BY <1>2, TokensKept DEF UpdateHealth
<1>3. CASE CheckReturns(k, c)
  BY <1>3, PermitReturned DEF CheckReturns, ReleasePermit
<1>4. CASE CheckPanics(k, c)
  BY <1>4, PermitReturned DEF CheckPanics, ReleasePermit
<1> QED
  BY <1>1, <1>2, <1>3, <1>4 DEF Checking

\* Steps of the calling goroutines and of the application hold no tokens.
LEMMA TokensElsewhere ==
  ASSUME TokenInv,
         \/ Tick \/ Application
         \/ \E k \in Calls : ContextEnds(k) \/ Calling(k)
         \/ UNCHANGED vars
  PROVE  TokensConserved' /\ SerializedThroughPublication'
<1>1. ASSUME NEW k \in Calls, HandOff(k)
      PROVE  TokensConserved' /\ SerializedThroughPublication'
  BY <1>1, TokensKept DEF HandOff, tokens, HoldsSlot, InChecker
<1>2. ASSUME UNCHANGED <<pc, tokens>>
      PROVE  TokensConserved' /\ SerializedThroughPublication'
  BY <1>2 DEF TokenInv, TokensConserved, SerializedThroughPublication, SlotHolders,
              PermitHolders, tokens
<1>3. \/ UNCHANGED <<pc, tokens>>
      \/ \E k \in Calls : HandOff(k)
  BY DEF Tick, Application, ContextEnds, Calling, StartCheckAll, StopScheduling, Finish,
         DirectReadEndedAt, DirectUpdateHealth, SnapshotCopies, SnapshotReads, work, vars
<1> QED
  BY <1>1, <1>2, <1>3

LEMMA TokenStep == TokenInv /\ [Next]_vars => TokenInv'
<1> SUFFICES ASSUME TokenInv, [Next]_vars
             PROVE  TokenInv'
  OBVIOUS
<1>1. CASE Tick
  BY <1>1, TypeTick, TokensElsewhere DEF TokenInv
<1>2. ASSUME NEW k \in Calls, ContextEnds(k) \/ Calling(k)
      PROVE  TokenInv'
  BY <1>2, TypeCalling, TokensElsewhere DEF TokenInv
<1>3. ASSUME NEW k \in Calls, NEW c \in Clients, Working(k, c)
      PROVE  TokenInv'
  BY <1>3, TypeWorking, TokensWorking DEF TokenInv
<1>4. ASSUME NEW k \in Calls, NEW c \in Clients, Checking(k, c)
      PROVE  TokenInv'
  <2>1. ASSUME pc[k][c] \in InChecker
        PROVE  permitsUsed > 0
    <3>1. <<k, c>> \in PermitHolders
      BY <2>1 DEF PermitHolders, Tasks
    <3>2. Cardinality(PermitHolders) # 0
      BY <3>1, PermitHoldersFinite, FS_EmptySet
    <3> QED
      BY <3>2, PermitHoldersFinite DEF TokenInv, TokensConserved
  <2> QED
    BY <1>4, <2>1, TypeChecking, TokensChecking DEF TokenInv
<1>5. CASE Application
  BY <1>5, TypeApplication, TokensElsewhere DEF TokenInv
<1>6. CASE UNCHANGED vars
  BY <1>6, TokensElsewhere
     DEF TokenInv, TypeOK, vars, sched, work, tokens, shown, history
<1> QED
  BY <1>1, <1>2, <1>3, <1>4, <1>5, <1>6 DEF Next, Quiet

THEOREM TokenInvariant == Spec => []TokenInv
<1>1. Init => TokenInv
  BY TokenInit
<1>2. TokenInv /\ [Next]_vars => TokenInv'
  BY TokenStep
<1> QED
  BY <1>1, <1>2, PTL DEF Spec

\* Every variable keeps its type: in particular no more permits are out than the
\* registry's bound and no slot channel ever holds a second token.
THEOREM TypeCorrect == Spec => []TypeOK
<1>1. TokenInv => TypeOK
  BY DEF TokenInv
<1> QED
  BY <1>1, TokenInvariant, PTL

\* Permits and slots are neither lost nor duplicated, whatever way tasks end.
THEOREM TokensAreConserved == Spec => []TokensConserved
<1>1. TokenInv => TokensConserved
  BY DEF TokenInv
<1> QED
  BY <1>1, TokenInvariant, PTL

\* Checks of one client are serialized through the publication of their result.
THEOREM ChecksAreSerialized == Spec => []SerializedThroughPublication
<1>1. TokenInv => SerializedThroughPublication
  BY DEF TokenInv
<1> QED
  BY <1>1, TokenInvariant, PTL

(***************************************************************************)
(* The promise about user code: RegistryChecks implements CheckAdmission.  *)
(***************************************************************************)
LEMMA AdmissionInit == Init => Admission!Init
  BY DEF Init, Admission!Init, PermitHolders, Tasks, InChecker

LEMMA AdmissionBegins ==
  ASSUME TokenInv, NEW k \in Calls, NEW c \in Clients, TakePermit(k, c)
  PROVE  Admission!Begin(k, c)
<1>1. Goto(k, c, "permitWait", "checking")
  BY DEF TakePermit
<1>2. PermitHolders' = PermitHolders \union {<<k, c>>}
  <2>1. "permitWait" \notin InChecker /\ "checking" \in InChecker
    BY DEF InChecker
  <2> QED
    BY <1>1, <2>1, PermitHoldersMove DEF TokenInv
<1>3. Cardinality(PermitHolders) < MaxConcurrent
  BY DEF TakePermit, PermitFree, TokenInv, TokensConserved
<1>4. ASSUME NEW t \in PermitHolders, t[2] = c
      PROVE  FALSE
  <2>1. t[1] \in SlotHolders(c) /\ pc[t[1]][c] # "permitWait"
    BY <1>4 DEF PermitHolders, SlotHolders, HoldsSlot, InChecker, Tasks
  <2>2. k \in SlotHolders(c) /\ pc[k][c] = "permitWait"
    BY <1>1 DEF Goto, SlotHolders, HoldsSlot
  <2> QED
    BY <2>1, <2>2 DEF TokenInv, SerializedThroughPublication
<1>5. Admission!Cardinality(PermitHolders) = Cardinality(PermitHolders)
  BY DEF Admission!Cardinality, Cardinality
<1> QED
  BY <1>2, <1>3, <1>4, <1>5 DEF Admission!Begin

LEMMA AdmissionEnds ==
  ASSUME TokenInv, NEW k \in Calls, NEW c \in Clients, CheckReturns(k, c) \/ CheckPanics(k, c)
  PROVE  Admission!End(k, c)
<1>1. PICK from \in InChecker, to \in {"deciding", "publishing"} : Goto(k, c, from, to)
  BY DEF CheckReturns, CheckPanics, InChecker
<1>2. PermitHolders' = PermitHolders \ {<<k, c>>} /\ <<k, c>> \in PermitHolders
  BY <1>1, PermitHoldersMove DEF TokenInv, InChecker
<1> QED
  BY <1>2 DEF Admission!End

\* Every other step of a task keeps it inside or outside its checker.
LEMMA OtherMoves ==
  ASSUME NEW k \in Calls, NEW c \in Clients, Working(k, c) \/ Checking(k, c),
         ~TakePermit(k, c), ~CheckReturns(k, c), ~CheckPanics(k, c)
  PROVE  \E from, to : Goto(k, c, from, to) /\ (from \in InChecker <=> to \in InChecker)
<1> USE DEF InChecker
<1>1. CASE Receive(k, c)
  BY <1>1 DEF Receive
<1>2. CASE TakeSlot(k, c)
  BY <1>2 DEF TakeSlot
<1>3. CASE AbandonSlotWait(k, c)
  BY <1>3 DEF AbandonSlotWait
<1>4. CASE AbandonPermitWait(k, c)
  BY <1>4 DEF AbandonPermitWait
<1>5. CASE Sanitize(k, c) \/ AcceptResult(k, c) \/ RejectResult(k, c)
  BY <1>5 DEF Sanitize, AcceptResult, RejectResult
<1>6. CASE Publish(k, c) \/ PublishAbandoned(k, c) \/ ReleaseSlot(k, c)
  BY <1>6 DEF Publish, PublishAbandoned, ReleaseSlot
<1>7. CASE ReadEndedAt(k, c) \/ UpdateHealth(k, c)
  BY <1>7 DEF ReadEndedAt, UpdateHealth
<1> QED
  BY <1>1, <1>2, <1>3, <1>4, <1>5, <1>6, <1>7 DEF Working, Checking

LEMMA PcElsewhere ==
  ASSUME \/ Tick \/ Application \/ UNCHANGED vars
         \/ \E k \in Calls : (ContextEnds(k) \/ Calling(k)) /\ ~HandOff(k)
  PROVE  UNCHANGED pc
  BY DEF Tick, Application, ContextEnds, Calling, StartCheckAll, StopScheduling, Finish,
         DirectReadEndedAt, DirectUpdateHealth, SnapshotCopies, SnapshotReads, work, vars

LEMMA AdmissionStep ==
  ASSUME TokenInv, [Next]_vars
  PROVE  Admission!Next \/ UNCHANGED PermitHolders
<1>1. ASSUME NEW k \in Calls, NEW c \in Clients, Working(k, c) \/ Checking(k, c)
      PROVE  Admission!Next \/ UNCHANGED PermitHolders
  <2>1. CASE TakePermit(k, c)
    BY <2>1, AdmissionBegins DEF Admission!Next
  <2>2. CASE CheckReturns(k, c) \/ CheckPanics(k, c)
    BY <2>2, AdmissionEnds DEF Admission!Next
  <2>3. CASE ~TakePermit(k, c) /\ ~CheckReturns(k, c) /\ ~CheckPanics(k, c)
    <3>1. PICK from, to : Goto(k, c, from, to) /\ (from \in InChecker <=> to \in InChecker)
      BY <1>1, <2>3, OtherMoves
    <3> QED
      BY <3>1, PermitHoldersMove DEF TokenInv
  <2> QED
    BY <2>1, <2>2, <2>3
<1>2. ASSUME NEW k \in Calls, HandOff(k)
      PROVE  UNCHANGED PermitHolders
  <2>1. Goto(k, next[k], "pending", "received") /\ next[k] \in Clients
    BY <1>2 DEF HandOff
  <2> QED
    BY <2>1, PermitHoldersMove DEF TokenInv, InChecker
<1>3. ASSUME UNCHANGED pc
      PROVE  UNCHANGED PermitHolders
  BY <1>3 DEF PermitHolders
<1> QED
  BY <1>1, <1>2, <1>3, PcElsewhere DEF Next, Quiet

\* The tasks inside checkers start and end as CheckAdmission allows: bounded by
\* MaxConcurrent over all overlapping calls, and never two for one client.
THEOREM ImplementsAdmission == Spec => AdmissionSpec
<1>1. Init => Admission!Init
  BY AdmissionInit
<1>2. TokenInv /\ [Next]_vars => [Admission!Next]_PermitHolders
  BY AdmissionStep
<1> QED
  BY <1>1, <1>2, TokenInvariant, PTL DEF Spec, AdmissionSpec, Admission!Spec

(***************************************************************************)
(* A complete summary is complete.                                         *)
(***************************************************************************)
\* Inductive because a task that completed does not move again, and a context failure is
\* only ever decided when the context is over.
SummaryInv ==
    /\ \A k \in Calls, c \in Clients : outcome[k][c].cause = "context" => k \in over
    /\ CompleteSummaryIsComplete

\* What one step of a task does to the results.
LEMMA TaskResults ==
  ASSUME TypeOK, NEW k \in Calls, NEW c \in Clients, Working(k, c) \/ Checking(k, c)
  PROVE  /\ UNCHANGED <<over, summary>>
         /\ pc[k][c] # "completed"
         /\ \A j \in Calls, e \in Clients : j # k \/ e # c =>
               UNCHANGED <<pc[j][e], outcome[j][e]>>
         /\ outcome'[k][c].cause = "context" => outcome[k][c].cause = "context" \/ k \in over
<1>1. /\ UNCHANGED sched
      /\ \E from, to : Goto(k, c, from, to) /\ from # "completed"
  <2>1. CASE Working(k, c)
    BY <2>1 DEF Working, Receive, TakeSlot, AbandonSlotWait, TakePermit, AbandonPermitWait,
                Sanitize, AcceptResult, RejectResult, Publish, PublishAbandoned, ReleaseSlot
  <2>2. CASE Checking(k, c)
    BY <2>2 DEF Checking, ReadEndedAt, UpdateHealth, CheckReturns, CheckPanics, InChecker
  <2> QED
    BY <2>1, <2>2
<1>2. \/ UNCHANGED outcome
      \/ \E at : Decide(k, c, "context", at) /\ k \in over
      \/ \E at : Decide(k, c, Accepted, at) \/ Decide(k, c, "panic", at)
      \/ Retire(k, c)
  <2>1. CASE Working(k, c)
    BY <2>1 DEF Working, Receive, TakeSlot, AbandonSlotWait, TakePermit, AbandonPermitWait,
                Sanitize, AcceptResult, RejectResult, Publish, PublishAbandoned, ReleaseSlot,
                MayAbandon
  <2>2. CASE Checking(k, c)
    BY <2>2 DEF Checking, ReadEndedAt, UpdateHealth, CheckReturns, CheckPanics
  <2> QED
    BY <2>1, <2>2
<1>3. \A j \in Calls, e \in Clients : j # k \/ e # c => UNCHANGED outcome[j][e]
  BY <1>2 DEF Decide, Retire, TypeOK
<1>4. outcome'[k][c].cause = "context" => outcome[k][c].cause = "context" \/ k \in over
  <2>1. CASE UNCHANGED outcome
    BY <2>1
  <2>2. CASE \E at : Decide(k, c, "context", at) /\ k \in over
    BY <2>2
  <2>3. CASE \E at : Decide(k, c, Accepted, at) \/ Decide(k, c, "panic", at)
    BY <2>3 DEF Decide, TypeOK, Accepted
  <2>4. CASE Retire(k, c)
    <3>1. outcome'[k][c] = [outcome[k][c] EXCEPT !.at = 0]
      BY <2>4 DEF Retire, TypeOK
    <3> QED
      BY <3>1 DEF TypeOK
  <2> QED
    BY <1>2, <2>1, <2>2, <2>3, <2>4
<1>5. /\ pc[k][c] # "completed"
      /\ \A j \in Calls, e \in Clients : j # k \/ e # c => UNCHANGED pc[j][e]
  BY <1>1 DEF Goto, TypeOK
<1> QED
  BY <1>1, <1>3, <1>4, <1>5 DEF sched

LEMMA SummaryStep ==
  ASSUME TypeOK, SummaryInv, [Next]_vars
  PROVE  SummaryInv'
<1>1. ASSUME NEW k \in Calls, NEW c \in Clients, Working(k, c) \/ Checking(k, c)
      PROVE  SummaryInv'
  BY <1>1, TaskResults DEF SummaryInv, CompleteSummaryIsComplete
<1>2. ASSUME NEW k \in Calls, HandOff(k)
      PROVE  SummaryInv'
  <2>1. \A j \in Calls, e \in Clients : pc[j][e] = "completed" => pc'[j][e] = "completed"
    BY <1>2 DEF HandOff, Goto, TypeOK
  <2> QED
    BY <1>2, <2>1 DEF HandOff, SummaryInv, CompleteSummaryIsComplete
<1>3. ASSUME NEW k \in Calls, Finish(k)
      PROVE  SummaryInv'
  <2>1. summary'[k] = "complete" => k \notin over /\ ~ResultsMissing(k)
    BY <1>3 DEF Finish, Incomplete, TypeOK
  <2>2. \A j \in Calls : j # k => summary'[j] = summary[j]
    BY <1>3 DEF Finish, TypeOK
  <2>3. UNCHANGED <<over, pc, outcome>>
    BY <1>3 DEF Finish, work
  <2> QED
    BY <2>1, <2>2, <2>3 DEF SummaryInv, CompleteSummaryIsComplete, ResultsMissing
<1>4. ASSUME UNCHANGED <<pc, outcome, summary>>, over \subseteq over'
      PROVE  SummaryInv'
  BY <1>4 DEF SummaryInv, CompleteSummaryIsComplete
<1>5. ASSUME NEW k \in Calls, ContextEnds(k) \/ StartCheckAll(k) \/ StopScheduling(k)
      PROVE  UNCHANGED <<pc, outcome, summary>> /\ over \subseteq over'
  BY <1>5 DEF ContextEnds, StartCheckAll, StopScheduling, work
<1>6. ASSUME Tick \/ Application \/ UNCHANGED vars
      PROVE  UNCHANGED <<pc, outcome, summary, over>>
  BY <1>6 DEF Tick, Application, DirectReadEndedAt, DirectUpdateHealth, SnapshotCopies,
              SnapshotReads, sched, work, vars
<1> QED
  BY <1>1, <1>2, <1>3, <1>4, <1>5, <1>6 DEF Next, Calling, Quiet

\* A summary not marked incomplete rests on a result for every client, none of them a
\* context failure.
THEOREM CompleteSummaries == Spec => []CompleteSummaryIsComplete
<1>1. Init => SummaryInv
  BY DEF Init, SummaryInv, CompleteSummaryIsComplete, NoOutcome
<1>2. TypeOK /\ SummaryInv /\ [Next]_vars => SummaryInv'
  BY SummaryStep
<1>3. SummaryInv => CompleteSummaryIsComplete
  BY DEF SummaryInv
<1> QED
  BY <1>1, <1>2, <1>3, TypeCorrect, PTL DEF Spec

=============================================================================
