--------------------------- MODULE RegistryChecks ---------------------------
(***************************************************************************)
(* Registry.CheckAll (opskit.go) and the registry state it works on        *)
(* (registry.go): overlapping calls, each with its own workers; the check  *)
(* slot of every client, the registry-wide permits; the client-owned       *)
(* health cache that a checker fills (internal/healthrecord); the          *)
(* synthetic override the registry keeps for failures a client could not   *)
(* cache; and Snapshot, which projects the one over the other.             *)
(*                                                                         *)
(* A task is a pair <<call, client>>: the iteration of one call over one   *)
(* enabled checker.  Its program counter pc[k][c] names the statement of   *)
(* checkClientHealth / checkHealthSafely it is about to execute:           *)
(*                                                                         *)
(*   pending     not yet handed to a worker                                *)
(*   received    taken from the jobs channel                               *)
(*   slotWait    in the select on the client's slot                        *)
(*   permitWait  holds the slot, in the select on the permits              *)
(*   checking, recording, recorded     inside checker.Check                *)
(*   deciding, sanitized               result in hand, not yet accepted    *)
(*   publishing, releasing             holds the slot                      *)
(*   abandoned   publishes a context failure without holding the slot      *)
(*   completed, skipped                                                    *)
(*                                                                         *)
(* Times are wall-clock readings: every stamp the code orders is a         *)
(* time.Now().UTC(), which carries no monotonic reading, and two readings  *)
(* may be equal.  0 is the zero time: cache[c] = 0 is a health value with  *)
(* no CheckedAt, override[c] = 0 is a nil syntheticHealth.                 *)
(***************************************************************************)
EXTENDS Naturals, FiniteSets

CONSTANTS
    Calls,          \* CheckAll invocations
    NumClients,     \* clients with an enabled checker, numbered in name order
    MaxConcurrent,  \* Registry.normalizedMaxConcurrentChecks()
    Directs,        \* goroutines of the application that call Client.Check
    Readers,        \* goroutines that call Registry.Snapshot
    MaxTime         \* bound on the clock

Clients == 1..NumClients
Tasks == Calls \X Clients
Time == 0..MaxTime

ASSUME CallsAssumption == IsFiniteSet(Calls)
ASSUME NumClientsAssumption == NumClients \in Nat \ {0}
ASSUME MaxConcurrentAssumption == MaxConcurrent \in Nat \ {0}
ASSUME MaxTimeAssumption == MaxTime \in Nat \ {0}

\* Recorded as the writer of a health value that no CheckAll task wrote.
Nobody == "nobody"
ASSUME NobodyAssumption == Nobody \notin Calls

VARIABLES
    now,            \* the wall clock
    over,           \* the calls whose context is canceled or past its deadline
    call,           \* per call: idle, scheduling, draining, done
    next,           \* per call: index the scheduling loop sends next
    pc,             \* per task: see above
    outcome,        \* per task: clientHealthCheckOutcome, its cause and decidedAt
    checkedAt,      \* per task: the endedAt that Record has read
    slotTokens,     \* per client: tokens in checkSlot
    permitsUsed,    \* len(checkPermits)
    cache,          \* per client: CheckedAt of Client.health
    override,       \* per client: syntheticHealth.decidedAt
    summary,        \* per call: none, complete, incomplete
    direct,         \* per direct check: its phase, client and endedAt
    snap,           \* per reader: the progress of its Snapshot
    \* History, read by no action.
    newestFailure,  \* per client: latest decidedAt of a published failure
    newestAccepted, \* per client: latest decidedAt of a published acceptance
    cacheWriter     \* per client: the call whose check filled the cache, if any

sched == <<over, call, next, summary>>
work == <<pc, outcome, checkedAt>>
tokens == <<slotTokens, permitsUsed>>
shown == <<cache, override>>
history == <<newestFailure, newestAccepted, cacheWriter>>
vars == <<now, sched, work, tokens, shown, direct, snap, history>>

-----------------------------------------------------------------------------
(***************************************************************************)
(* Vocabulary.                                                             *)
(***************************************************************************)
Inactive == {"pending", "skipped", "completed"}
InChecker == {"checking", "recording", "recorded"}
HoldsSlot == {"permitWait", "deciding", "sanitized", "publishing", "releasing"}
                \union InChecker
States == {"received", "slotWait", "abandoned"} \union Inactive \union HoldsSlot

Accepted == "accepted"
Causes == {"none", Accepted, "panic", "context"}
NoOutcome == [cause |-> "none", at |-> 0]

NoSnap == [begun |-> FALSE, todo |-> Clients, copied |-> [c \in Clients |-> 0],
           hidden |-> {}, from |-> [c \in Clients |-> Nobody]]

Active(k) == {c \in Clients : pc[k][c] \notin Inactive}
Workers == IF MaxConcurrent < NumClients THEN MaxConcurrent ELSE NumClients
\* Tasks whose published result is a failure that the registry made.
Rejected == {t \in Tasks : /\ pc[t[1]][t[2]] \in {"releasing", "completed"}
                            /\ outcome[t[1]][t[2]].cause # Accepted}
Newer(a, b) == IF a < b THEN b ELSE a

\* Whether Snapshot shows an override decided at o in place of health checked at a.
HidesStrictly(o, a) == o # 0 /\ a < o
Hides(o, a) == o # 0 /\ a <= o

TypeOK ==
    /\ now \in 1..MaxTime
    /\ over \in SUBSET Calls
    /\ call \in [Calls -> {"idle", "scheduling", "draining", "done"}]
    /\ next \in [Calls -> 1..(NumClients + 1)]
    /\ pc \in [Calls -> [Clients -> States]]
    /\ outcome \in [Calls -> [Clients -> [cause : Causes, at : Time]]]
    /\ checkedAt \in [Calls -> [Clients -> Time]]
    /\ slotTokens \in [Clients -> 0..1]
    /\ permitsUsed \in 0..MaxConcurrent
    /\ cache \in [Clients -> Time]
    /\ override \in [Clients -> Time]
    /\ summary \in [Calls -> {"none", "complete", "incomplete"}]
    /\ direct \in [Directs -> [phase : {"idle", "recording", "done"},
                               client : Clients, at : Time]]
    /\ snap \in [Readers -> [begun : BOOLEAN, todo : SUBSET Clients,
                             copied : [Clients -> Time], hidden : SUBSET Tasks,
                             from : [Clients -> Calls \union {Nobody}]]]
    /\ newestFailure \in [Clients -> Time]
    /\ newestAccepted \in [Clients -> Time]
    /\ cacheWriter \in [Clients -> Calls \union {Nobody}]

Init ==
    /\ now = 1
    /\ over = {}
    /\ call = [k \in Calls |-> "idle"]
    /\ next = [k \in Calls |-> 1]
    /\ pc = [k \in Calls |-> [c \in Clients |-> "pending"]]
    /\ outcome = [k \in Calls |-> [c \in Clients |-> NoOutcome]]
    /\ checkedAt = [k \in Calls |-> [c \in Clients |-> 0]]
    /\ slotTokens = [c \in Clients |-> 1]
    /\ permitsUsed = 0
    /\ cache = [c \in Clients |-> 0]
    /\ override = [c \in Clients |-> 0]
    /\ summary = [k \in Calls |-> "none"]
    /\ direct = [d \in Directs |-> [phase |-> "idle", client |-> 1, at |-> 0]]
    /\ snap = [r \in Readers |-> NoSnap]
    /\ newestFailure = [c \in Clients |-> 0]
    /\ newestAccepted = [c \in Clients |-> 0]
    /\ cacheWriter = [c \in Clients |-> Nobody]

Goto(k, c, from, to) ==
    /\ pc[k][c] = from
    /\ pc' = [pc EXCEPT ![k][c] = to]

Decide(k, c, cause, at) ==
    outcome' = [outcome EXCEPT ![k][c] = [cause |-> cause, at |-> at]]

\* checkClientHealth returns: the result keeps the cause, the times go out of scope.
Retire(k, c) ==
    /\ outcome' = [outcome EXCEPT ![k][c].at = 0]
    /\ checkedAt' = [checkedAt EXCEPT ![k][c] = 0]

-----------------------------------------------------------------------------
(***************************************************************************)
(* The environment: the clock and the callers' contexts.                   *)
(***************************************************************************)
Tick ==
    /\ now < MaxTime
    /\ now' = now + 1
    /\ UNCHANGED <<sched, work, tokens, shown, direct, snap, history>>

ContextEnds(k) ==
    /\ k \notin over
    /\ call[k] # "done"
    /\ over' = over \union {k}
    /\ UNCHANGED <<now, call, next, summary, work, tokens, shown, direct, snap, history>>

-----------------------------------------------------------------------------
(***************************************************************************)
(* CheckAll: the calling goroutine.                                        *)
(***************************************************************************)
StartCheckAll(k) ==
    /\ call[k] = "idle"
    /\ call' = [call EXCEPT ![k] = "scheduling"]
    /\ UNCHANGED <<now, over, next, summary, work, tokens, shown, direct, snap, history>>

\* The send on the unbuffered jobs channel succeeds when a worker receives.  The
\* select may choose it although the context is done.
HandOff(k) ==
    /\ call[k] = "scheduling" /\ next[k] \in Clients
    /\ Cardinality(Active(k)) < Workers
    /\ Goto(k, next[k], "pending", "received")
    /\ next' = [next EXCEPT ![k] = @ + 1]
    /\ call' = [call EXCEPT ![k] = IF next[k] = NumClients THEN "draining" ELSE @]
    /\ UNCHANGED <<now, over, summary, outcome, checkedAt, tokens, shown, direct, snap,
                   history>>

StopScheduling(k) ==
    /\ call[k] = "scheduling"
    /\ k \in over
    /\ call' = [call EXCEPT ![k] = "draining"]
    /\ UNCHANGED <<now, over, next, summary, work, tokens, shown, direct, snap, history>>

ResultsMissing(k) == \E c \in Clients : pc[k][c] # "completed"
IncompleteOnlyIfMissing(k) == ResultsMissing(k)
Incomplete(k) == k \in over \/ ResultsMissing(k)

Finish(k) ==
    /\ call[k] = "draining"
    /\ Active(k) = {}
    /\ call' = [call EXCEPT ![k] = "done"]
    /\ summary' = [summary EXCEPT ![k] = IF Incomplete(k) THEN "incomplete" ELSE "complete"]
    /\ UNCHANGED <<now, over, next, work, tokens, shown, direct, snap, history>>

-----------------------------------------------------------------------------
(***************************************************************************)
(* checkClientHealth up to the checker: the slot, then the permit.  Both   *)
(* selects may choose either branch when both are ready.                   *)
(***************************************************************************)
Receive(k, c) ==
    /\ \/ k \in over /\ Goto(k, c, "received", "skipped")
       \/ k \notin over /\ Goto(k, c, "received", "slotWait")
    /\ UNCHANGED <<now, sched, outcome, checkedAt, tokens, shown, direct, snap, history>>

SlotIgnored(c) == slotTokens[c] <= 1
SlotFree(c) == slotTokens[c] = 1

TakeSlot(k, c) ==
    /\ SlotFree(c)
    /\ Goto(k, c, "slotWait", "permitWait")
    /\ slotTokens' = [slotTokens EXCEPT ![c] = 0]
    /\ UNCHANGED <<now, sched, outcome, checkedAt, permitsUsed, shown, direct, snap, history>>

NeverAbandon(k) == FALSE
MayAbandon(k) == k \in over

AbandonSlotWait(k, c) ==
    /\ MayAbandon(k)
    /\ Goto(k, c, "slotWait", "abandoned")
    /\ Decide(k, c, "context", now)
    /\ UNCHANGED <<now, sched, checkedAt, tokens, shown, direct, snap, history>>

PermitFreeOffByOne == permitsUsed <= MaxConcurrent
PermitFree == permitsUsed < MaxConcurrent

TakePermit(k, c) ==
    /\ PermitFree
    /\ Goto(k, c, "permitWait", "checking")
    /\ permitsUsed' = permitsUsed + 1
    /\ UNCHANGED <<now, sched, outcome, checkedAt, slotTokens, shown, direct, snap, history>>

AbandonPermitWait(k, c) ==
    /\ k \in over
    /\ Goto(k, c, "permitWait", "publishing")
    /\ Decide(k, c, "context", now)
    /\ UNCHANGED <<now, sched, checkedAt, tokens, shown, direct, snap, history>>

-----------------------------------------------------------------------------
(***************************************************************************)
(* The checker: Client.Check ends in healthrecord.Record, which reads the  *)
(* clock before UpdateHealth sanitizes the health and stores it over       *)
(* whatever the cache holds.  A client sanitizer that panics leaves a      *)
(* health value without CheckedAt.  A checker may panic at any point.      *)
(***************************************************************************)
ReadEndedAt(k, c) ==
    /\ Goto(k, c, "checking", "recording")
    /\ checkedAt' = [checkedAt EXCEPT ![k][c] = now]
    /\ UNCHANGED <<now, sched, outcome, tokens, shown, direct, snap, history>>

UpdateHealth(k, c) ==
    /\ Goto(k, c, "recording", "recorded")
    /\ \E at \in {checkedAt[k][c], 0} : cache' = [cache EXCEPT ![c] = at]
    /\ cacheWriter' = [cacheWriter EXCEPT ![c] = k]
    /\ UNCHANGED <<now, sched, outcome, checkedAt, tokens, override, direct, snap,
                   newestFailure, newestAccepted>>

ReleasePermitUnlessPanicked(how) == IF how = "panic" THEN permitsUsed ELSE permitsUsed - 1
ReleasePermit(how) == permitsUsed - 1

\* checkHealthSafely after Check returned: the context decides first.
CheckReturns(k, c) ==
    /\ \/ /\ k \notin over
          /\ Goto(k, c, "recorded", "deciding")
          /\ Decide(k, c, Accepted, now)
       \/ /\ k \in over
          /\ Goto(k, c, "recorded", "publishing")
          /\ Decide(k, c, "context", now)
    /\ permitsUsed' = ReleasePermit("return")
    /\ UNCHANGED <<now, sched, checkedAt, slotTokens, shown, direct, snap, history>>

\* The deferred recover of checkHealthSafely.
CheckPanics(k, c) ==
    /\ pc[k][c] \in InChecker
    /\ \/ /\ k \notin over
          /\ Goto(k, c, pc[k][c], "deciding")
          /\ Decide(k, c, "panic", now)
       \/ /\ k \in over
          /\ Goto(k, c, pc[k][c], "publishing")
          /\ Decide(k, c, "context", now)
    /\ permitsUsed' = ReleasePermit("panic")
    /\ UNCHANGED <<now, sched, checkedAt, slotTokens, shown, direct, snap, history>>

-----------------------------------------------------------------------------
(***************************************************************************)
(* checkClientHealth after the checker: the context is read before the     *)
(* sanitizer callback and again after it.                                  *)
(***************************************************************************)
Sanitize(k, c) ==
    /\ k \notin over
    /\ Goto(k, c, "deciding", "sanitized")
    /\ \/ UNCHANGED outcome
       \/ Decide(k, c, "panic", now)
    /\ UNCHANGED <<now, sched, checkedAt, tokens, shown, direct, snap, history>>

AcceptResult(k, c) ==
    /\ k \notin over
    /\ Goto(k, c, "sanitized", "publishing")
    /\ UNCHANGED <<now, sched, outcome, checkedAt, tokens, shown, direct, snap, history>>

RejectResult(k, c) ==
    /\ k \in over
    /\ \/ Goto(k, c, "deciding", "publishing")
       \/ Goto(k, c, "sanitized", "publishing")
    /\ Decide(k, c, "context", now)
    /\ UNCHANGED <<now, sched, checkedAt, tokens, shown, direct, snap, history>>

\* applyHealthCheckOutcome, under the registry mutex.
LastAppliedWins(c, at) == FALSE
Outdated(c, at) == override[c] # 0 /\ at < override[c]

Apply(k, c) ==
    LET o == outcome[k][c] IN
    /\ override' = [override EXCEPT ![c] =
            IF Outdated(c, o.at) THEN @ ELSE IF o.cause = Accepted THEN 0 ELSE o.at]
    /\ IF o.cause = Accepted
       THEN /\ newestAccepted' = [newestAccepted EXCEPT ![c] = Newer(@, o.at)]
            /\ UNCHANGED newestFailure
       ELSE /\ newestFailure' = [newestFailure EXCEPT ![c] = Newer(@, o.at)]
            /\ UNCHANGED newestAccepted
    /\ UNCHANGED <<cache, cacheWriter>>

Publish(k, c) ==
    /\ Goto(k, c, "publishing", "releasing")
    /\ Apply(k, c)
    /\ UNCHANGED <<now, sched, outcome, checkedAt, tokens, direct, snap>>

PublishAbandoned(k, c) ==
    /\ Goto(k, c, "abandoned", "completed")
    /\ Apply(k, c)
    /\ Retire(k, c)
    /\ UNCHANGED <<now, sched, tokens, direct, snap>>

\* The deferred return of the slot; the worker then stores the result.
ReleaseSlot(k, c) ==
    /\ Goto(k, c, "releasing", "completed")
    /\ slotTokens' = [slotTokens EXCEPT ![c] = 1]
    /\ Retire(k, c)
    /\ UNCHANGED <<now, sched, permitsUsed, shown, direct, snap, history>>

-----------------------------------------------------------------------------
(***************************************************************************)
(* The application: checks made directly on a client, which take neither   *)
(* slot nor permit, and passive snapshots.                                 *)
(***************************************************************************)
DirectReadEndedAt(d) ==
    /\ direct[d].phase = "idle"
    /\ \E c \in Clients :
          direct' = [direct EXCEPT ![d] = [phase |-> "recording", client |-> c, at |-> now]]
    /\ UNCHANGED <<now, sched, work, tokens, shown, snap, history>>

DirectUpdateHealth(d) ==
    /\ direct[d].phase = "recording"
    /\ direct' = [direct EXCEPT ![d].phase = "done"]
    /\ cache' = [cache EXCEPT ![direct[d].client] = direct[d].at]
    /\ cacheWriter' = [cacheWriter EXCEPT ![direct[d].client] = Nobody]
    /\ UNCHANGED <<now, sched, work, tokens, override, snap, newestFailure,
                   newestAccepted>>

\* Snapshot copies the entries under the read lock ...
SnapshotCopies(r) ==
    /\ ~snap[r].begun
    /\ snap' = [snap EXCEPT ![r].begun = TRUE, ![r].copied = override, ![r].hidden = Rejected]
    /\ UNCHANGED <<now, sched, work, tokens, shown, direct, history>>

\* ... and reads each client's health after releasing it.
SnapshotReads(r, c) ==
    /\ snap[r].begun /\ c \in snap[r].todo
    /\ snap' = [snap EXCEPT ![r].todo = @ \ {c}, ![r].from[c] =
                    IF Hides(snap[r].copied[c], cache[c]) THEN Nobody ELSE cacheWriter[c]]
    /\ UNCHANGED <<now, sched, work, tokens, shown, direct, history>>

-----------------------------------------------------------------------------
Calling(k) == StartCheckAll(k) \/ HandOff(k) \/ StopScheduling(k) \/ Finish(k)

Working(k, c) ==
    \/ Receive(k, c)
    \/ TakeSlot(k, c) \/ AbandonSlotWait(k, c)
    \/ TakePermit(k, c) \/ AbandonPermitWait(k, c)
    \/ Sanitize(k, c) \/ AcceptResult(k, c) \/ RejectResult(k, c)
    \/ Publish(k, c) \/ PublishAbandoned(k, c) \/ ReleaseSlot(k, c)

Checking(k, c) ==
    ReadEndedAt(k, c) \/ UpdateHealth(k, c) \/ CheckReturns(k, c) \/ CheckPanics(k, c)

Application ==
    \/ \E d \in Directs : DirectReadEndedAt(d) \/ DirectUpdateHealth(d)
    \/ \E r \in Readers : SnapshotCopies(r) \/ \E c \in Clients : SnapshotReads(r, c)

\* Nothing is left to do: the only state in which the system may stop.
Quiet ==
    /\ \A k \in Calls : call[k] = "done"
    /\ \A d \in Directs : direct[d].phase = "done"
    /\ \A r \in Readers : snap[r].todo = {}
    /\ UNCHANGED vars

Next ==
    \/ Tick
    \/ \E k \in Calls : ContextEnds(k) \/ Calling(k)
    \/ \E k \in Calls, c \in Clients : Working(k, c) \/ Checking(k, c)
    \/ Application
    \/ Quiet

Spec == Init /\ [][Next]_vars

\* The Go scheduler runs every goroutine whose next statement can proceed.  A call
\* that nobody started need not start; user code inside a checker need not return.
RegistryFairness ==
    /\ \A k \in Calls : WF_vars(HandOff(k) \/ StopScheduling(k) \/ Finish(k))
    /\ \A k \in Calls, c \in Clients : WF_vars(Working(k, c))

\* The contract on checkers: a check returns (or panics) after finitely many steps.
CooperatingCheckers == \A k \in Calls, c \in Clients : WF_vars(Checking(k, c))

FairSpec == Spec /\ RegistryFairness

-----------------------------------------------------------------------------
(***************************************************************************)
(* Safety.                                                                 *)
(***************************************************************************)
SlotHolders(c) == {k \in Calls : pc[k][c] \in HoldsSlot}
PermitHolders == {t \in Tasks : pc[t[1]][t[2]] \in InChecker}

\* Every token is accounted for (registry.go checkSlot and checkPermits): a permit is
\* out exactly for each task inside a checker and a slot is empty exactly while one
\* task holds it, however tasks leave - return, panic, cancellation at either wait.
\* In particular nothing is leaked once all calls are done.
TokensConserved ==
    /\ permitsUsed = Cardinality(PermitHolders)
    /\ \A c \in Clients : slotTokens[c] = 1 <=> SlotHolders(c) = {}

\* The comment on checkSlot: checks of one client are serialized across overlapping
\* CheckAll calls through result publication, not just while the checker runs.
SerializedThroughPublication ==
    \A c \in Clients : \A j, k \in SlotHolders(c) : j = k

\* A failure the registry synthesized stays visible until something that was decided
\* later replaces it: if no accepted result is as recent as the newest failure
\* published for a client, the override is in place and carries that failure's time
\* (applyHealthCheckOutcome, whatever order outcomes of overlapping calls arrive in).
NewestFailureStands ==
    \A c \in Clients :
        newestFailure[c] > newestAccepted[c] => override[c] = newestFailure[c]

\* An assessment the registry rejected after the client had cached it (late, panicked,
\* unsanitizable) is not what passive reads show: while the cache still holds it, the
\* override covers it.
RejectedResultHidden ==
    \A c \in Clients : \A k \in Calls :
        cacheWriter[c] = k /\ <<k, c>> \in Rejected => Hides(override[c], cache[c])

\* The same seen by Snapshot, which reads health after it let go of the lock: a
\* snapshot begun after the rejection was published never reports that assessment.
SnapshotOmitsRejected ==
    \A r \in Readers : \A c \in Clients : <<snap[r].from[c], c>> \notin snap[r].hidden

\* A summary that is not marked incomplete has a result for every client, none of
\* them cut short by the context (the ctx.Err() test at the end of CheckAll).
CompleteSummaryIsComplete ==
    \A k \in Calls : summary[k] = "complete" =>
        \A c \in Clients : pc[k][c] = "completed" /\ outcome[k][c].cause # "context"

\* The promise about user code: the tasks inside a checker behave as CheckAdmission.
Admission == INSTANCE CheckAdmission WITH running <- PermitHolders
AdmissionSpec == Admission!Spec

-----------------------------------------------------------------------------
(***************************************************************************)
(* Liveness.                                                               *)
(***************************************************************************)
\* If checkers return, every CheckAll returns: no permit or slot is lost, and tasks
\* that hold a slot while they wait for a permit do not block one another.
EveryCheckAllReturns ==
    CooperatingCheckers => \A k \in Calls : call[k] = "scheduling" ~> call[k] = "done"

\* Even if another call's checker never returns, a call whose context is over returns
\* unless one of its own checkers is running: the waits for slot and permit both end.
CanceledCallReturns ==
    \A k \in Calls : k \in over /\ call[k] # "idle"
        ~> call[k] = "done" \/ \E c \in Clients : pc[k][c] \in InChecker

-----------------------------------------------------------------------------
(***************************************************************************)
(* What docs/health-readiness.md says and the code does not keep.          *)
(***************************************************************************)
\* "A later accepted Registry check clears the projection": once an accepted result
\* has been published, no failure decided before it is shown over the cached health.
LaterAcceptedCheckClears ==
    \A c \in Clients :
        ~(cache[c] # 0 /\ Hides(override[c], cache[c]) /\ override[c] < newestAccepted[c])

\* "a later direct client check supersedes it through its newer CheckedAt value": an
\* override that the cached health has outdated is not shown again.
SupersededStaysSuperseded ==
    [][\A c \in Clients :
          /\ override[c] # 0 /\ ~Hides(override[c], cache[c])
          /\ override'[c] = override[c]
          => ~Hides(override'[c], cache'[c])]_vars
=============================================================================
