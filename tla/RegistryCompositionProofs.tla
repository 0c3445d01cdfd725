--------------------- MODULE RegistryCompositionProofs ---------------------
(***************************************************************************)
(* Proofs about RegistryComposition, for any clients, reports, callers,    *)
(* readers and batch sizes.                                                *)
(***************************************************************************)
EXTENDS RegistryComposition, TLAPS

(***************************************************************************)
(* The three projections of one snapshot agree: a fact about operators.    *)
(***************************************************************************)

\* Readiness and the named check decide alike about one client.
LEMMA CheckDecides ==
    ASSUME NEW client \in ClientView
    PROVE  CheckReady(client) <=> ReadinessSatisfied(client.policy, client.state)
  BY DEF ClientView, CheckReady, ReadinessSatisfied, BlocksReadiness, Policies, States

LEMMA StateDecides ==
    ASSUME NEW client \in ClientView
    PROVE  CheckState(client) = "ready" <=> client.state = "healthy"
  BY DEF ClientView, CheckState, BlocksReadiness, Policies, States

\* A snapshot of well-formed clients is told as one story (Registry.Status,
\* Registry.Readiness, opskitNamedClientCheck).
THEOREM OneStory ==
    ASSUME NEW snap, \A n \in DOMAIN snap : snap[n] \in ClientView
    PROVE  Agreement(snap)
<1>1. \A n \in DOMAIN snap :
          CheckReady(snap[n]) <=> ReadinessSatisfied(snap[n].policy, snap[n].state)
  BY CheckDecides
<1>2. \A n \in DOMAIN snap : CheckState(snap[n]) = "ready" <=> snap[n].state = "healthy"
  BY StateDecides
<1>3. ReadinessOf(snap) <=> DOMAIN snap # {} /\ Unsatisfied(snap) = {}
  BY DEF ReadinessOf, Items, ItemReady, Unsatisfied, ReadinessSatisfied, BlocksReadiness,
         ParticipatesInReadiness
<1>4. StatusOf(snap) \in {"ready", "degraded"} <=> DOMAIN snap # {} /\ Unsatisfied(snap) = {}
  BY DEF StatusOf
<1>5. Unsatisfied(snap) = {} <=> \A n \in DOMAIN snap : CheckReady(snap[n])
  BY <1>1 DEF Unsatisfied
<1>6. StatusOf(snap) = "ready" <=>
          DOMAIN snap # {} /\ \A n \in DOMAIN snap : snap[n].state = "healthy"
  <2>1. (\A n \in DOMAIN snap : snap[n].state = "healthy") => Unsatisfied(snap) = {}
    BY DEF Unsatisfied, ReadinessSatisfied
  <2>2. QED
    BY <2>1 DEF StatusOf
<1>7. QED
  BY <1>2, <1>3, <1>4, <1>5, <1>6 DEF Agreement

-----------------------------------------------------------------------------
(***************************************************************************)
(* Types.                                                                  *)
(***************************************************************************)
LEMMA EffectiveStatesType == EffectiveStates \subseteq States
<1>1. \A state \in States : Sanitized(state) \subseteq States
  <2> SUFFICES ASSUME NEW state \in States PROVE Sanitized(state) \subseteq States
    OBVIOUS
  <2>1. CASE Sanitizer = "disabled"
    BY <2>1 DEF Sanitized
  <2>2. CASE Sanitizer = "custom"
    BY <2>2 DEF Sanitized
  <2>3. CASE Sanitizer = "default"
    <3>1. Sanitized(state) = {IF state = "other" THEN "unknown" ELSE state}
      BY <2>3 DEF Sanitized
    <3>2. (IF state = "other" THEN "unknown" ELSE state) \in States
      BY DEF States
    <3>3. QED
      BY <3>1, <3>2
  <2>4. QED
    BY <2>1, <2>2, <2>3, CompositionAssumption
<1>2. {"unknown", "unhealthy"} \subseteq States
  BY DEF States
<1>3. UNION {Sanitized(state) : state \in States} \subseteq States
  BY <1>1, Zenon
<1>4. QED
  BY <1>2, <1>3, Zenon DEF EffectiveStates

LEMMA NormalizedType ==
    ASSUME NEW report \in Reports
    PROVE  report.name \in Names /\ Normalized(report.policy) \in Policies
  BY CompositionAssumption DEF Report, Normalized, Policies

LEMMA TypeInit == Init => TypeOK
<1> SUFFICES ASSUME Init PROVE TypeOK
  OBVIOUS
<1>1. Nothing \in Directory
  BY DEF Nothing, Directory
<1>2. clients \in Directory /\ writer \in Callers \union {Nobody} /\ readLocks \subseteq Readers
  BY <1>1 DEF Init
<1>3. /\ caller \in [Callers -> {"idle", "validating", "waiting", "locked", "inserting",
                                 "registered", "refused"}]
      /\ left \in [Callers -> 0..MaxBatch]
  BY CompositionAssumption DEF Init
<1>4. batch \in [Callers -> Directory] /\ view \in [Readers -> Directory]
  BY <1>1 DEF Init
<1>5. reader \in [Readers -> [at : {"idle", "copying", "visiting", "done"},
                              op : Operations \union {"none", "get"}]]
  BY DEF Init, Idle, Operations
<1>6. todo \in [Readers -> SUBSET Names] /\ states \in [Readers -> [Names -> States \union {"unread"}]]
  BY DEF Init
<1>7. QED
  BY <1>2, <1>3, <1>4, <1>5, <1>6 DEF TypeOK

CallerTypes ==
    /\ caller \in [Callers -> {"idle", "validating", "waiting", "locked", "inserting",
                               "registered", "refused"}]
    /\ left \in [Callers -> 0..MaxBatch]
    /\ batch \in [Callers -> Directory]
ReaderTypes ==
    /\ reader \in [Readers -> [at : {"idle", "copying", "visiting", "done"},
                               op : Operations \union {"none", "get"}]]
    /\ view \in [Readers -> Directory]
    /\ todo \in [Readers -> SUBSET Names]
    /\ states \in [Readers -> [Names -> States \union {"unread"}]]
SharedTypes ==
    clients \in Directory /\ writer \in Callers \union {Nobody} /\ readLocks \subseteq Readers

LEMMA TypeParts == TypeOK <=> CallerTypes /\ ReaderTypes /\ SharedTypes
  BY DEF TypeOK, CallerTypes, ReaderTypes, SharedTypes

LEMMA RegisterAllType ==
    ASSUME TypeOK, NEW c \in Callers, RegisterAll(c) PROVE TypeOK'
<1>1. CallerTypes'
  BY CompositionAssumption DEF TypeOK, CallerTypes, RegisterAll, CallerAt
<1>2. ReaderTypes' /\ SharedTypes'
  BY DEF TypeOK, ReaderTypes, SharedTypes, RegisterAll, reading, locks
<1>3. QED
  BY <1>1, <1>2, TypeParts DEF TypeOK, CallerTypes, ReaderTypes, SharedTypes

LEMMA ValidateType ==
    ASSUME TypeOK, NEW c \in Callers, Validate(c) PROVE TypeOK'
<1>1. CallerTypes'
  <2>1. PICK client \in Clients, report \in Reports :
          IF Acceptable(client, report) /\ batch[c][report.name] = NoEntry
          THEN /\ batch' = [batch EXCEPT ![c] = [@ EXCEPT ![report.name] =
                               [client |-> client, policy |-> Normalized(report.policy),
                                enabled |-> EnabledBy(client, report), by |-> c]]]
               /\ left' = [left EXCEPT ![c] = @ - 1]
               /\ UNCHANGED caller
          ELSE /\ CallerAt(c, "validating", "refused")
               /\ UNCHANGED <<batch, left>>
    BY DEF Validate
  <2>2. CASE ~(Acceptable(client, report) /\ batch[c][report.name] = NoEntry)
    BY <2>1, <2>2 DEF TypeOK, CallerTypes, CallerAt
  <2>3. CASE Acceptable(client, report) /\ batch[c][report.name] = NoEntry
    <3>1. left' \in [Callers -> 0..MaxBatch] /\ caller' = caller
      BY <2>1, <2>3, CompositionAssumption DEF TypeOK, Validate
    <3>2. EnabledBy(client, report) \in BOOLEAN
      BY DEF EnabledBy
    <3>3. [client |-> client, policy |-> Normalized(report.policy),
           enabled |-> EnabledBy(client, report), by |-> c] \in Entry
      BY <3>2, NormalizedType DEF Entry
    <3>a. batch[c] \in Directory /\ report.name \in Names
      BY NormalizedType DEF TypeOK
    <3>b. [batch[c] EXCEPT ![report.name] = [client |-> client, policy |-> Normalized(report.policy),
              enabled |-> EnabledBy(client, report), by |-> c]] \in Directory
      BY <3>3, <3>a DEF Directory
    <3>4. batch' \in [Callers -> Directory]
      BY <2>1, <2>3, <3>b DEF TypeOK
    <3>5. QED
      BY <3>1, <3>4 DEF TypeOK, CallerTypes
  <2>4. QED
    BY <2>2, <2>3
<1>2. ReaderTypes' /\ SharedTypes'
  BY DEF TypeOK, ReaderTypes, SharedTypes, Validate, reading, locks
<1>3. QED
  BY <1>1, <1>2 DEF TypeOK, CallerTypes, ReaderTypes, SharedTypes

LEMMA LockedStepType ==
    ASSUME TypeOK, NEW c \in Callers,
           AskForLock(c) \/ Lock(c) \/ AlreadyRegistered(c) \/ NoneRegistered(c) \/ Unlock(c)
    PROVE  TypeOK'
<1>1. CallerTypes'
  BY DEF TypeOK, CallerTypes, AskForLock, Lock, AlreadyRegistered, NoneRegistered, Unlock, CallerAt
<1>2. SharedTypes'
  BY DEF TypeOK, SharedTypes, AskForLock, Lock, AlreadyRegistered, NoneRegistered, Unlock, locks
<1>3. ReaderTypes'
  BY DEF TypeOK, ReaderTypes, AskForLock, Lock, AlreadyRegistered, NoneRegistered, Unlock, reading
<1>4. QED
  BY <1>1, <1>2, <1>3 DEF TypeOK, CallerTypes, ReaderTypes, SharedTypes

LEMMA InsertType ==
    ASSUME TypeOK, NEW c \in Callers, NEW n \in Names, Insert(c, n) PROVE TypeOK'
<1>1. SharedTypes'
  BY DEF TypeOK, SharedTypes, Insert, locks, Directory
<1>2. CallerTypes' /\ ReaderTypes'
  BY DEF TypeOK, CallerTypes, ReaderTypes, Insert, registering, reading
<1>3. QED
  BY <1>1, <1>2 DEF TypeOK, CallerTypes, ReaderTypes, SharedTypes

LEMMA ReaderFrame ==
    ASSUME TypeOK, UNCHANGED registering, SharedTypes', ReaderTypes' PROVE TypeOK'
  BY DEF TypeOK, CallerTypes, ReaderTypes, SharedTypes, registering

LEMMA RLockType ==
    ASSUME TypeOK, NEW r \in Readers, NEW op \in Operations, RLock(r, op) PROVE TypeOK'
<1>1. ReaderTypes'
  BY DEF TypeOK, ReaderTypes, RLock
<1>2. SharedTypes' /\ UNCHANGED registering
  BY DEF TypeOK, SharedTypes, RLock
<1>3. QED
  BY <1>1, <1>2, ReaderFrame

LEMMA CopyType ==
    ASSUME TypeOK, NEW r \in Readers, NEW n \in Names, Copy(r, n) PROVE TypeOK'
<1>1. view' \in [Readers -> Directory]
  BY DEF TypeOK, Copy, Directory
<1>2. todo' \in [Readers -> SUBSET Names]
  BY DEF TypeOK, Copy
<1>3. ReaderTypes'
  BY <1>1, <1>2 DEF TypeOK, ReaderTypes, Copy
<1>4. SharedTypes' /\ UNCHANGED registering
  BY DEF TypeOK, SharedTypes, Copy, locks
<1>5. QED
  BY <1>3, <1>4, ReaderFrame

LEMMA WantedType == ASSUME NEW r PROVE Wanted(r) \subseteq Names
  BY DEF Wanted, Listed

LEMMA RUnlockType ==
    ASSUME TypeOK, NEW r \in Readers, RUnlock(r) PROVE TypeOK'
<1>1. ReaderTypes'
  BY WantedType DEF TypeOK, ReaderTypes, RUnlock, ReaderAt
<1>2. SharedTypes' /\ UNCHANGED registering
  BY DEF TypeOK, SharedTypes, RUnlock
<1>3. QED
  BY <1>1, <1>2, ReaderFrame

LEMMA VisitType ==
    ASSUME TypeOK, NEW r \in Readers, NEW n \in Names, VisitHealth(r, n) \/ VisitCloser(r, n)
    PROVE  TypeOK'
<1>1. todo' \in [Readers -> SUBSET Names]
  <2>1. todo' = [todo EXCEPT ![r] = todo[r] \ {n}]
    BY DEF VisitHealth, VisitCloser, AfterClosePanic
  <2>2. QED
    BY <2>1 DEF TypeOK
<1>2. states' \in [Readers -> [Names -> States \union {"unread"}]]
  <2>1. CASE VisitCloser(r, n)
    BY <2>1 DEF TypeOK, VisitCloser
  <2>2. CASE VisitHealth(r, n)
    <3>1. PICK state \in EffectiveStates :
             states' = [states EXCEPT ![r] = [@ EXCEPT ![n] = state]]
      BY <2>2 DEF VisitHealth
    <3>2. [states[r] EXCEPT ![n] = state] \in [Names -> States \union {"unread"}]
      BY EffectiveStatesType DEF TypeOK
    <3>3. QED
      BY <3>1, <3>2 DEF TypeOK
  <2>3. QED
    BY <2>1, <2>2
<1>3. ReaderTypes'
  BY <1>1, <1>2 DEF TypeOK, ReaderTypes, VisitHealth, VisitCloser
<1>4. SharedTypes' /\ UNCHANGED registering
  BY DEF TypeOK, SharedTypes, VisitHealth, VisitCloser, locks
<1>5. QED
  BY <1>3, <1>4, ReaderFrame

LEMMA LeaveType ==
    ASSUME TypeOK, NEW r \in Readers, Finish(r) \/ Return(r) PROVE TypeOK'
<1>1. Nothing \in Directory /\ Idle \in [at : {"idle", "copying", "visiting", "done"},
                                         op : Operations \union {"none", "get"}]
  BY DEF Nothing, Directory, Idle
<1>2. ReaderTypes'
  <2>1. CASE Finish(r)
    BY <2>1 DEF TypeOK, ReaderTypes, Finish, ReaderAt
  <2>2. CASE Return(r)
    <3>1. reader' \in [Readers -> [at : {"idle", "copying", "visiting", "done"},
                                   op : Operations \union {"none", "get"}]]
      BY <1>1, <2>2 DEF TypeOK, Return
    <3>2. view' \in [Readers -> Directory] /\ todo' \in [Readers -> SUBSET Names]
      BY <1>1, <2>2 DEF TypeOK, Return
    <3>3. [n \in Names |-> "unread"] \in [Names -> States \union {"unread"}]
      OBVIOUS
    <3>4. states' \in [Readers -> [Names -> States \union {"unread"}]]
      BY <2>2, <3>3 DEF TypeOK, Return
    <3>5. QED
      BY <3>1, <3>2, <3>4 DEF ReaderTypes
  <2>3. QED
    BY <2>1, <2>2
<1>3. SharedTypes' /\ UNCHANGED registering
  BY DEF TypeOK, SharedTypes, Finish, Return, locks
<1>4. QED
  BY <1>2, <1>3, ReaderFrame

LEMMA GetType ==
    ASSUME TypeOK, NEW r \in Readers, NEW n \in Names, Get(r, n) PROVE TypeOK'
<1>1. [Nothing EXCEPT ![n] = clients[n]] \in Directory
  BY DEF TypeOK, Nothing, Directory
<1>2. ReaderTypes'
  BY <1>1 DEF TypeOK, ReaderTypes, Get
<1>3. SharedTypes' /\ UNCHANGED registering
  BY DEF TypeOK, SharedTypes, Get, locks
<1>4. QED
  BY <1>2, <1>3, ReaderFrame

LEMMA TypeStep == TypeOK /\ [Next]_vars => TypeOK'
<1> SUFFICES ASSUME TypeOK, [Next]_vars PROVE TypeOK'
  OBVIOUS
<1>1. CASE UNCHANGED vars
  BY <1>1 DEF vars, locks, registering, reading, TypeOK
<1>2. ASSUME NEW c \in Callers, RegisterAll(c) \/ CallerStep(c) PROVE TypeOK'
  BY <1>2, RegisterAllType, ValidateType, LockedStepType, InsertType DEF CallerStep
<1>3. ASSUME NEW r \in Readers,
             \/ \E op \in Operations : RLock(r, op)
             \/ \E n \in Names : Get(r, n)
             \/ ReaderLocks(r) \/ ReaderVisits(r) \/ Finish(r) \/ Return(r)
      PROVE TypeOK'
  BY <1>3, RLockType, GetType, CopyType, RUnlockType, VisitType, LeaveType
     DEF ReaderLocks, ReaderVisits
<1>4. QED
  BY <1>1, <1>2, <1>3 DEF Next

\* The registry, its callers and its readers are always in a state of their type.
THEOREM TypeCorrect == Spec => []TypeOK
  BY TypeInit, TypeStep, PTL DEF Spec

-----------------------------------------------------------------------------
(***************************************************************************)
(* What the readers have when they are done.                               *)
(***************************************************************************)

\* validateRegistration let the entry in.
Sound(entry) == BlocksReadiness(entry.policy) /\ entry.client \in Checkers => entry.enabled
SoundIn(directory) == \A n \in Names : directory[n] # NoEntry => Sound(directory[n])

EntriesSound ==
    /\ SoundIn(clients)
    /\ \A c \in Callers : SoundIn(batch[c])
    /\ \A r \in Readers : SoundIn(view[r])

\* A snapshot has the state of every listed client that it need not visit any
\* more; the list of checks stays as it was made.
Visited(r) ==
    /\ reader[r].op = "snapshot" /\ reader[r].at \in {"visiting", "done"} =>
          \A n \in Listed(view[r]) : n \in todo[r] \/ states[r][n] \in States
    /\ reader[r].op = "snapshot" /\ reader[r].at = "done" => todo[r] = {}
    /\ reader[r].op = "checks" /\ reader[r].at \in {"visiting", "done"} => todo[r] = Wanted(r)
ReadersVisited == \A r \in Readers : Visited(r)

\* An entry that Validate makes is sound.
LEMMA ValidatedSound ==
    ASSUME NEW client \in Clients, NEW report \in Reports, NEW c, Acceptable(client, report)
    PROVE  Sound([client |-> client, policy |-> Normalized(report.policy),
                  enabled |-> EnabledBy(client, report), by |-> c])
  BY DEF Sound, Acceptable, EnabledBy

LEMMA SoundInit == Init => EntriesSound /\ ReadersVisited
<1> SUFFICES ASSUME Init PROVE EntriesSound /\ ReadersVisited
  OBVIOUS
<1>1. SoundIn(Nothing)
  BY DEF SoundIn, Nothing
<1>2. EntriesSound
  BY <1>1 DEF EntriesSound, Init
<1>3. \A r \in Readers : reader[r] = Idle
  BY DEF Init
<1>4. ReadersVisited
  BY <1>3 DEF ReadersVisited, Visited, Idle
<1>5. QED
  BY <1>2, <1>4

LEMMA ValidateSound ==
    ASSUME TypeOK, EntriesSound, NEW c \in Callers, Validate(c) PROVE EntriesSound'
<1>1. PICK client \in Clients, report \in Reports :
          IF Acceptable(client, report) /\ batch[c][report.name] = NoEntry
          THEN /\ batch' = [batch EXCEPT ![c] = [@ EXCEPT ![report.name] =
                               [client |-> client, policy |-> Normalized(report.policy),
                                enabled |-> EnabledBy(client, report), by |-> c]]]
               /\ left' = [left EXCEPT ![c] = @ - 1]
               /\ UNCHANGED caller
          ELSE /\ CallerAt(c, "validating", "refused")
               /\ UNCHANGED <<batch, left>>
  BY DEF Validate
<1>2. UNCHANGED <<clients, view>>
  BY DEF Validate, reading
<1>3. CASE ~(Acceptable(client, report) /\ batch[c][report.name] = NoEntry)
  BY <1>1, <1>2, <1>3 DEF EntriesSound, SoundIn
<1>4. CASE Acceptable(client, report) /\ batch[c][report.name] = NoEntry
  <2>1. PICK entry : /\ entry = [client |-> client, policy |-> Normalized(report.policy),
                                 enabled |-> EnabledBy(client, report), by |-> c]
                     /\ Sound(entry)
    BY <1>4, ValidatedSound
  <2>2. batch[c] \in Directory /\ report.name \in Names
    BY NormalizedType DEF TypeOK
  <2>3. SoundIn([batch[c] EXCEPT ![report.name] = entry])
    BY <2>1, <2>2 DEF SoundIn, EntriesSound, Directory
  <2>4. \A k \in Callers : SoundIn(batch'[k])
    BY <1>1, <1>4, <2>1, <2>3 DEF EntriesSound, TypeOK
  <2>5. QED
    BY <1>2, <2>4 DEF EntriesSound, SoundIn
<1>5. QED
  BY <1>3, <1>4

LEMMA InsertSound ==
    ASSUME TypeOK, EntriesSound, NEW c \in Callers, NEW n \in Names, Insert(c, n)
    PROVE  EntriesSound'
<1>1. SoundIn(clients')
  BY DEF Insert, TypeOK, Directory, EntriesSound, SoundIn
<1>2. UNCHANGED <<batch, view>>
  BY DEF Insert, registering, reading
<1>3. QED
  BY <1>1, <1>2 DEF EntriesSound, SoundIn

LEMMA ViewSound ==
    ASSUME TypeOK, EntriesSound, NEW r \in Readers, UNCHANGED <<clients, batch>>,
           NEW directory, SoundIn(directory), view' = [view EXCEPT ![r] = directory]
    PROVE  EntriesSound'
<1>1. \A q \in Readers : SoundIn(view'[q])
  BY DEF TypeOK, EntriesSound
<1>2. QED
  BY <1>1 DEF EntriesSound, SoundIn

LEMMA SoundStep ==
    ASSUME TypeOK, EntriesSound, [Next]_vars PROVE EntriesSound'
<1>1. CASE UNCHANGED <<clients, batch, view>>
  BY <1>1 DEF EntriesSound, SoundIn
<1>2. ASSUME NEW c \in Callers, RegisterAll(c) \/ CallerStep(c) PROVE EntriesSound'
  <2>1. CASE Validate(c)
    BY <2>1, ValidateSound
  <2>2. CASE \E n \in Names : Insert(c, n)
    BY <2>2, InsertSound
  <2>3. CASE RegisterAll(c) \/ AskForLock(c) \/ Lock(c) \/ AlreadyRegistered(c)
             \/ NoneRegistered(c) \/ Unlock(c)
    <3>1. UNCHANGED <<clients, batch, view>>
      BY <2>3 DEF RegisterAll, AskForLock, Lock, AlreadyRegistered, NoneRegistered, Unlock, reading
    <3>2. QED
      BY <3>1, <1>1
  <2>4. QED
    BY <1>2, <2>1, <2>2, <2>3 DEF CallerStep
<1>3. ASSUME NEW r \in Readers, NEW n \in Names, Copy(r, n) PROVE EntriesSound'
  <2>1. SoundIn([view[r] EXCEPT ![n] = clients[n]])
    BY <1>3 DEF TypeOK, Directory, EntriesSound, SoundIn
  <2>2. view' = [view EXCEPT ![r] = [view[r] EXCEPT ![n] = clients[n]]] /\ UNCHANGED <<clients, batch>>
    BY <1>3 DEF Copy, registering
  <2>3. QED
    BY <2>1, <2>2, ViewSound
<1>4. ASSUME NEW r \in Readers, NEW n \in Names, Get(r, n) PROVE EntriesSound'
  <2>1. SoundIn([Nothing EXCEPT ![n] = clients[n]])
    BY <1>4 DEF TypeOK, Directory, EntriesSound, SoundIn, Nothing
  <2>2. view' = [view EXCEPT ![r] = [Nothing EXCEPT ![n] = clients[n]]] /\ UNCHANGED <<clients, batch>>
    BY <1>4 DEF Get, registering
  <2>3. QED
    BY <2>1, <2>2, ViewSound
<1>5. ASSUME NEW r \in Readers, Return(r) PROVE EntriesSound'
  <2>1. SoundIn(Nothing)
    BY DEF SoundIn, Nothing
  <2>2. view' = [view EXCEPT ![r] = Nothing] /\ UNCHANGED <<clients, batch>>
    BY <1>5 DEF Return, registering
  <2>3. QED
    BY <2>1, <2>2, ViewSound
<1>6. ASSUME NEW r \in Readers,
             \/ \E op \in Operations : RLock(r, op)
             \/ RUnlock(r) \/ Finish(r)
             \/ \E n \in Names : VisitHealth(r, n) \/ VisitCloser(r, n)
      PROVE EntriesSound'
  <2>1. UNCHANGED <<clients, batch, view>>
    BY <1>6 DEF RLock, RUnlock, Finish, VisitHealth, VisitCloser, registering
  <2>2. QED
    BY <2>1, <1>1
<1>7. CASE UNCHANGED vars
  BY <1>1, <1>7 DEF vars, registering, reading
<1>8. QED
  BY <1>2, <1>3, <1>4, <1>5, <1>6, <1>7 DEF Next, ReaderLocks, ReaderVisits

\* Another reader's step leaves a reader as it was.
LEMMA VisitedFrame ==
    ASSUME NEW r, Visited(r), reader'[r] = reader[r], view'[r] = view[r], todo'[r] = todo[r],
           states'[r] = states[r]
    PROVE  Visited(r)'
  BY DEF Visited, Wanted, Listed

LEMMA RLockVisited ==
    ASSUME TypeOK, NEW r \in Readers, NEW op \in Operations, RLock(r, op) PROVE Visited(r)'
<1>1. reader'[r].at = "copying"
  BY DEF TypeOK, RLock
<1>2. QED
  BY <1>1 DEF Visited

LEMMA CopyVisited ==
    ASSUME TypeOK, NEW r \in Readers, NEW n \in Names, Copy(r, n) PROVE Visited(r)'
  BY DEF Copy, Visited

LEMMA GetVisited ==
    ASSUME TypeOK, NEW r \in Readers, NEW n \in Names, Get(r, n) PROVE Visited(r)'
<1>1. reader'[r].op = "get"
  BY DEF TypeOK, Get
<1>2. QED
  BY <1>1 DEF Visited

LEMMA ReturnVisited ==
    ASSUME TypeOK, NEW r \in Readers, Return(r) PROVE Visited(r)'
<1>1. reader'[r] = Idle
  BY DEF TypeOK, Return
<1>2. QED
  BY <1>1 DEF Visited, Idle

LEMMA RUnlockVisited ==
    ASSUME TypeOK, NEW r \in Readers, RUnlock(r) PROVE Visited(r)'
<1>1. /\ reader'[r].at = "visiting" /\ reader'[r].op = reader[r].op
      /\ view'[r] = view[r] /\ todo'[r] = Wanted(r)
  BY DEF TypeOK, RUnlock, ReaderAt
<1>2. Wanted(r)' = Wanted(r)
  BY <1>1 DEF Wanted, Listed
<1>3. reader[r].op = "snapshot" => Wanted(r) = Listed(view[r])
  BY DEF Wanted
<1>4. QED
  BY <1>1, <1>2, <1>3 DEF Visited

LEMMA VisitHealthVisited ==
    ASSUME TypeOK, NEW r \in Readers, NEW n \in Names, Visited(r), VisitHealth(r, n)
    PROVE  Visited(r)'
<1>1. PICK state \in EffectiveStates : states' = [states EXCEPT ![r] = [@ EXCEPT ![n] = state]]
  BY DEF VisitHealth
<1>2. /\ reader'[r] = reader[r] /\ reader[r].at = "visiting" /\ reader[r].op = "snapshot"
      /\ view'[r] = view[r] /\ todo'[r] = todo[r] \ {n}
  BY DEF TypeOK, VisitHealth
<1>3. states[r] \in [Names -> States \union {"unread"}]
  BY DEF TypeOK
<1>4. states'[r] = [states[r] EXCEPT ![n] = state]
  BY <1>1 DEF TypeOK
<1>5. \A m \in Names : states'[r][m] = IF m = n THEN state ELSE states[r][m]
  BY <1>3, <1>4
<1>6. state \in States
  BY EffectiveStatesType
<1>7. \A m \in Listed(view[r]) : m \in todo[r] \ {n} \/ states'[r][m] \in States
  BY <1>2, <1>5, <1>6 DEF Visited, Listed
<1>8. QED
  BY <1>2, <1>7 DEF Visited

LEMMA VisitCloserVisited ==
    ASSUME TypeOK, NEW r \in Readers, NEW n \in Names, VisitCloser(r, n) PROVE Visited(r)'
  BY DEF VisitCloser, Visited

LEMMA FinishVisited ==
    ASSUME TypeOK, NEW r \in Readers, Visited(r), Finish(r) PROVE Visited(r)'
<1>1. /\ reader'[r].at = "done" /\ reader[r].at = "visiting" /\ reader'[r].op = reader[r].op
      /\ view'[r] = view[r] /\ todo'[r] = todo[r] /\ states'[r] = states[r]
      /\ todo[r] = {} \/ reader[r].op = "checks"
  BY DEF TypeOK, Finish, ReaderAt
<1>2. Wanted(r)' = Wanted(r)
  BY <1>1 DEF Wanted, Listed
<1>3. QED
  BY <1>1, <1>2 DEF Visited

ReaderStep(r) ==
    \/ \E op \in Operations : RLock(r, op)
    \/ \E n \in Names : Get(r, n)
    \/ ReaderLocks(r) \/ ReaderVisits(r) \/ Finish(r) \/ Return(r)

LEMMA OthersKeep ==
    ASSUME TypeOK, NEW r \in Readers, NEW q \in Readers, q # r, ReaderStep(r)
    PROVE  /\ reader'[q] = reader[q] /\ view'[q] = view[q] /\ todo'[q] = todo[q]
           /\ states'[q] = states[q]
<1>1. CASE \E op \in Operations : RLock(r, op)
  BY <1>1 DEF TypeOK, RLock
<1>2. CASE \E n \in Names : Get(r, n)
  BY <1>2 DEF TypeOK, Get
<1>3. CASE \E n \in Names : Copy(r, n)
  BY <1>3 DEF TypeOK, Copy
<1>4. CASE RUnlock(r)
  BY <1>4 DEF TypeOK, RUnlock, ReaderAt
<1>5. CASE \E n \in Names : VisitHealth(r, n)
  BY <1>5 DEF TypeOK, VisitHealth
<1>6. CASE \E n \in Names : VisitCloser(r, n)
  BY <1>6 DEF TypeOK, VisitCloser
<1>7. CASE Finish(r)
  BY <1>7 DEF TypeOK, Finish, ReaderAt
<1>8. CASE Return(r)
  BY <1>8 DEF TypeOK, Return
<1>9. QED
  BY <1>1, <1>2, <1>3, <1>4, <1>5, <1>6, <1>7, <1>8 DEF ReaderStep, ReaderLocks, ReaderVisits

LEMMA VisitedStep ==
    ASSUME TypeOK, ReadersVisited, [Next]_vars PROVE ReadersVisited'
<1>1. CASE UNCHANGED reading
  BY <1>1, VisitedFrame DEF ReadersVisited, reading
<1>2. ASSUME NEW c \in Callers, RegisterAll(c) \/ CallerStep(c) PROVE ReadersVisited'
  <2>1. UNCHANGED reading
    BY <1>2 DEF RegisterAll, CallerStep, Validate, AskForLock, Lock, AlreadyRegistered,
                NoneRegistered, Insert, Unlock
  <2>2. QED
    BY <1>1, <2>1
<1>3. ASSUME NEW r \in Readers, ReaderStep(r) PROVE ReadersVisited'
  <2>1. Visited(r)'
    BY <1>3, RLockVisited, GetVisited, CopyVisited, RUnlockVisited, VisitHealthVisited,
       VisitCloserVisited, FinishVisited, ReturnVisited
       DEF ReaderStep, ReaderLocks, ReaderVisits, ReadersVisited
  <2>2. \A q \in Readers : q # r => Visited(q)'
    BY <1>3, OthersKeep, VisitedFrame DEF ReadersVisited
  <2>3. QED
    BY <2>1, <2>2 DEF ReadersVisited
<1>4. CASE UNCHANGED vars
  BY <1>1, <1>4 DEF vars
<1>5. QED
  BY <1>2, <1>3, <1>4 DEF Next, ReaderStep

ReaderInv == TypeOK /\ EntriesSound /\ ReadersVisited

LEMMA ReaderInvariant == Spec => []ReaderInv
<1>1. Init => ReaderInv
  BY TypeInit, SoundInit DEF ReaderInv
<1>2. ReaderInv /\ [Next]_vars => ReaderInv'
  BY TypeStep, SoundStep, VisitedStep DEF ReaderInv
<1>3. QED
  BY <1>1, <1>2, PTL DEF Spec

\* Status, Readiness and the named checks agree about every snapshot a reader
\* can take, whatever its clients and the sanitizer report.
THEOREM EverySnapshotOneStory == Spec => []ProjectionsAgree
<1>1. ReaderInv => ProjectionsAgree
  <2> SUFFICES ASSUME ReaderInv, NEW r \in Readers, reader[r].at = "done", reader[r].op = "snapshot"
               PROVE  Agreement(SnapshotOf(r))
    BY DEF ProjectionsAgree
  <2>1. \A n \in Listed(view[r]) : states[r][n] \in States
    BY DEF ReaderInv, ReadersVisited, Visited
  <2>2. \A n \in Listed(view[r]) : view[r][n].policy \in Policies
    BY DEF ReaderInv, TypeOK, Directory, Listed, Entry
  <2>3. \A n \in DOMAIN SnapshotOf(r) : SnapshotOf(r)[n] \in ClientView
    BY <2>1, <2>2 DEF SnapshotOf, ClientView
  <2>4. QED
    BY <2>3, OneStory
<1>2. QED
  BY <1>1, ReaderInvariant, PTL

\* A checkable client that can block readiness is on every list of checks made
\* after its registration (healthCheckersSnapshot and validateRegistration).
THEOREM EveryBlockingClientChecked == Spec => []BlockingClientsChecked
<1>1. ReaderInv => BlockingClientsChecked
  <2> SUFFICES ASSUME ReaderInv, NEW r \in Readers, reader[r].at \in {"visiting", "done"},
                      reader[r].op = "checks", NEW n \in Listed(view[r]),
                      BlocksReadiness(view[r][n].policy), view[r][n].client \in Checkers
               PROVE  n \in todo[r]
    BY DEF BlockingClientsChecked
  <2>1. todo[r] = Wanted(r)
    BY DEF ReaderInv, ReadersVisited, Visited
  <2>2. view[r][n].enabled
    BY DEF ReaderInv, EntriesSound, SoundIn, Sound, Listed
  <2>3. QED
    BY <2>1, <2>2 DEF Wanted
<1>2. QED
  BY <1>1, ReaderInvariant, PTL

-----------------------------------------------------------------------------
(***************************************************************************)
(* CloseIdleConnections.                                                   *)
(***************************************************************************)

\* Who has been asked and who is still to be asked are all the capable clients, the
\* former in order and before the latter.
InOrder(s) == \A i, j \in DOMAIN s : i < j => s[i] < s[j]
AskedBefore(s, rest) == \A i \in DOMAIN s, m \in rest : s[i] < m
Elements(s) == {s[i] : i \in DOMAIN s}

Asked(r) ==
    /\ reader[r].at \in {"idle", "copying"} => asked[r] = <<>>
    /\ reader[r].op = "close" /\ reader[r].at \in {"visiting", "done"} =>
          /\ Elements(asked[r]) \union todo[r] = Wanted(r)
          /\ InOrder(asked[r]) /\ AskedBefore(asked[r], todo[r])
    /\ reader[r].op = "close" /\ reader[r].at = "done" => todo[r] = {}
AskedInv == asked \in [Readers -> Seq(Names)] /\ \A r \in Readers : Asked(r)

\* One more client is asked, the first of the rest.
LEMMA AskFirst ==
    ASSUME NEW s \in Seq(Names), NEW rest \in SUBSET Names, NEW n \in rest,
           \A m \in rest : n <= m, InOrder(s), AskedBefore(s, rest)
    PROVE  /\ Append(s, n) \in Seq(Names)
           /\ Elements(Append(s, n)) \union (rest \ {n}) = Elements(s) \union rest
           /\ InOrder(Append(s, n)) /\ AskedBefore(Append(s, n), rest \ {n})
<1>1. /\ Append(s, n) \in Seq(Names) /\ Len(s) \in Nat /\ DOMAIN s = 1..Len(s)
      /\ DOMAIN Append(s, n) = 1..(Len(s) + 1)
      /\ \A i \in 1..(Len(s) + 1) : Append(s, n)[i] = IF i = Len(s) + 1 THEN n ELSE s[i]
  OBVIOUS
<1>2. Names \subseteq Nat
  BY CompositionAssumption DEF Names
<1>3. \A i \in 1..Len(s) : s[i] < n
  <2>1. \A i \in DOMAIN s, m \in rest : s[i] < m
    BY DEF AskedBefore
  <2>2. QED
    BY <1>1, <2>1
<1>4. Elements(Append(s, n)) = Elements(s) \union {n}
  <2>1. \A x \in Elements(Append(s, n)) : x \in Elements(s) \union {n}
    BY <1>1 DEF Elements
  <2>2. \A x \in Elements(s) : x \in Elements(Append(s, n))
    <3> SUFFICES ASSUME NEW i \in 1..Len(s) PROVE s[i] \in Elements(Append(s, n))
      BY <1>1 DEF Elements
    <3>1. i \in DOMAIN Append(s, n) /\ Append(s, n)[i] = s[i]
      BY <1>1
    <3>2. QED
      BY <3>1 DEF Elements
  <2>3. n \in Elements(Append(s, n))
    <3>1. Len(s) + 1 \in DOMAIN Append(s, n) /\ Append(s, n)[Len(s) + 1] = n
      BY <1>1
    <3>2. QED
      BY <3>1 DEF Elements
  <2>4. QED
    BY <2>1, <2>2, <2>3
<1>5. InOrder(Append(s, n))
  <2> SUFFICES ASSUME NEW i \in 1..(Len(s) + 1), NEW j \in 1..(Len(s) + 1), i < j
               PROVE  Append(s, n)[i] < Append(s, n)[j]
    BY <1>1 DEF InOrder
  <2>1. i \in 1..Len(s) /\ Append(s, n)[i] = s[i]
    BY <1>1
  <2>2. CASE j = Len(s) + 1
    BY <1>1, <1>3, <2>1, <2>2
  <2>3. CASE j # Len(s) + 1
    <3>1. j \in 1..Len(s) /\ Append(s, n)[j] = s[j]
      BY <1>1, <2>3
    <3>2. QED
      BY <1>1, <2>1, <3>1 DEF InOrder
  <2>4. QED
    BY <2>2, <2>3
<1>6. AskedBefore(Append(s, n), rest \ {n})
  <2>1. \A m \in rest \ {n} : n < m
    BY <1>2
  <2>2. QED
    BY <1>1, <2>1 DEF AskedBefore
<1>7. QED
  BY <1>1, <1>4, <1>5, <1>6

LEMMA AskedFrame ==
    ASSUME NEW r, Asked(r), reader'[r] = reader[r], view'[r] = view[r], todo'[r] = todo[r],
           asked'[r] = asked[r]
    PROVE  Asked(r)'
<1>1. Wanted(r)' = Wanted(r)
  BY DEF Wanted, Listed
<1>2. QED
  BY <1>1 DEF Asked

\* The steps of a reader that ask nobody.
LEMMA QuietAsked ==
    ASSUME TypeOK, AskedInv, NEW r \in Readers, asked' = asked, Asked(r)', ReaderStep(r)
    PROVE  AskedInv'
<1>1. \A q \in Readers : q # r => Asked(q)'
  BY OthersKeep, AskedFrame DEF AskedInv
<1>2. QED
  BY <1>1 DEF AskedInv

LEMMA ListAsked ==
    ASSUME TypeOK, AskedInv, NEW r \in Readers,
           \/ \E op \in Operations : RLock(r, op)
           \/ \E n \in Names : Get(r, n) \/ Copy(r, n)
    PROVE  asked' = asked /\ Asked(r)'
<1>1. CASE \E op \in Operations : RLock(r, op)
  <2>1. reader'[r].at = "copying" /\ reader[r].at = "idle" /\ asked' = asked
    BY <1>1 DEF RLock, TypeOK
  <2>2. QED
    BY <2>1 DEF AskedInv, Asked
<1>2. CASE \E n \in Names : Get(r, n)
  <2>1. reader'[r].at = "done" /\ reader'[r].op = "get" /\ asked' = asked
    BY <1>2 DEF Get, TypeOK
  <2>2. QED
    BY <2>1 DEF Asked
<1>3. CASE \E n \in Names : Copy(r, n)
  <2>1. reader'[r].at = "copying" /\ reader[r].at = "copying" /\ asked' = asked
    BY <1>3 DEF Copy
  <2>2. QED
    BY <2>1 DEF AskedInv, Asked
<1>4. QED
  BY <1>1, <1>2, <1>3

LEMMA VisitAsked ==
    ASSUME TypeOK, AskedInv, NEW r \in Readers,
           RUnlock(r) \/ Finish(r) \/ \E n \in Names : VisitHealth(r, n)
    PROVE  asked' = asked /\ Asked(r)'
<1>1. CASE RUnlock(r)
  <2>1. /\ reader'[r].at = "visiting" /\ reader'[r].op = reader[r].op /\ reader[r].at = "copying"
        /\ view'[r] = view[r] /\ todo'[r] = Wanted(r) /\ asked' = asked
    BY <1>1 DEF TypeOK, RUnlock, ReaderAt
  <2>2. Wanted(r)' = Wanted(r)
    BY <2>1 DEF Wanted, Listed
  <2>3. asked[r] = <<>>
    BY <2>1 DEF AskedInv, Asked
  <2>4. Elements(<<>>) = {} /\ InOrder(<<>>) /\ AskedBefore(<<>>, Wanted(r))
    BY DEF Elements, InOrder, AskedBefore
  <2>5. QED
    BY <2>1, <2>2, <2>3, <2>4 DEF Asked
<1>2. CASE Finish(r)
  <2>1. /\ reader'[r].at = "done" /\ reader[r].at = "visiting" /\ reader'[r].op = reader[r].op
        /\ view'[r] = view[r] /\ todo'[r] = todo[r] /\ asked' = asked
        /\ todo[r] = {} \/ reader[r].op = "checks"
    BY <1>2 DEF TypeOK, Finish, ReaderAt
  <2>2. Wanted(r)' = Wanted(r)
    BY <2>1 DEF Wanted, Listed
  <2>3. QED
    BY <2>1, <2>2 DEF AskedInv, Asked
<1>3. CASE \E n \in Names : VisitHealth(r, n)
  <2>1. reader'[r].at = "visiting" /\ reader'[r].op = "snapshot" /\ asked' = asked
    BY <1>3 DEF VisitHealth
  <2>2. QED
    BY <2>1 DEF Asked
<1>4. QED
  BY <1>1, <1>2, <1>3

LEMMA CloserAsked ==
    ASSUME TypeOK, AskedInv, NEW r \in Readers, NEW n \in Names, VisitCloser(r, n)
    PROVE  AskedInv'
<1>1. /\ reader' = reader /\ view' = view /\ reader[r].at = "visiting" /\ reader[r].op = "close"
      /\ n \in todo[r] /\ \A m \in todo[r] : n <= m
      /\ asked' = [asked EXCEPT ![r] = Append(asked[r], n)]
  BY DEF VisitCloser
<1>2. todo'[r] = todo[r] \ {n}
  BY DEF VisitCloser, AfterClosePanic, TypeOK
<1>3. asked[r] \in Seq(Names) /\ todo[r] \in SUBSET Names
  BY DEF AskedInv, TypeOK
<1>4. /\ Elements(asked[r]) \union todo[r] = Wanted(r)
      /\ InOrder(asked[r]) /\ AskedBefore(asked[r], todo[r])
  BY <1>1 DEF AskedInv, Asked
<1>5. /\ Append(asked[r], n) \in Seq(Names)
      /\ Elements(Append(asked[r], n)) \union (todo[r] \ {n}) = Wanted(r)
      /\ InOrder(Append(asked[r], n)) /\ AskedBefore(Append(asked[r], n), todo[r] \ {n})
  BY <1>1, <1>3, <1>4, AskFirst
<1>6. asked'[r] = Append(asked[r], n) /\ asked' \in [Readers -> Seq(Names)]
  BY <1>1, <1>5 DEF AskedInv
<1>7. Wanted(r)' = Wanted(r)
  BY <1>1 DEF Wanted, Listed
<1>8. Asked(r)'
  BY <1>1, <1>2, <1>5, <1>6, <1>7 DEF Asked
<1>9. ASSUME NEW q \in Readers, q # r PROVE Asked(q)'
  <2>1. reader'[q] = reader[q] /\ view'[q] = view[q] /\ todo'[q] = todo[q]
    BY <1>9, OthersKeep DEF ReaderStep, ReaderVisits
  <2>2. asked'[q] = asked[q] /\ Asked(q)
    BY <1>1, <1>9 DEF AskedInv
  <2>3. QED
    BY <2>1, <2>2, AskedFrame
<1>10. QED
  BY <1>6, <1>8, <1>9 DEF AskedInv

LEMMA ReturnAsked ==
    ASSUME TypeOK, AskedInv, NEW r \in Readers, Return(r) PROVE AskedInv'
<1>1. reader'[r] = Idle /\ asked' = [asked EXCEPT ![r] = <<>>]
  BY DEF Return, TypeOK
<1>2. <<>> \in Seq(Names)
  OBVIOUS
<1>3. asked'[r] = <<>> /\ asked' \in [Readers -> Seq(Names)]
  BY <1>1, <1>2 DEF AskedInv
<1>4. Asked(r)'
  BY <1>1, <1>3 DEF Asked, Idle
<1>5. ASSUME NEW q \in Readers, q # r PROVE Asked(q)'
  <2>1. reader'[q] = reader[q] /\ view'[q] = view[q] /\ todo'[q] = todo[q]
    BY <1>5, OthersKeep DEF ReaderStep
  <2>2. asked'[q] = asked[q] /\ Asked(q)
    BY <1>1, <1>5 DEF AskedInv
  <2>3. QED
    BY <2>1, <2>2, AskedFrame
<1>6. QED
  BY <1>3, <1>4, <1>5 DEF AskedInv

LEMMA AskedStep == ASSUME TypeOK, AskedInv, [Next]_vars PROVE AskedInv'
<1>1. CASE UNCHANGED reading
  BY <1>1, AskedFrame DEF AskedInv, reading
<1>2. ASSUME NEW c \in Callers, RegisterAll(c) \/ CallerStep(c) PROVE AskedInv'
  <2>1. UNCHANGED reading
    BY <1>2 DEF RegisterAll, CallerStep, Validate, AskForLock, Lock, AlreadyRegistered,
                NoneRegistered, Insert, Unlock
  <2>2. QED
    BY <1>1, <2>1
<1>3. ASSUME NEW r \in Readers, ReaderStep(r) PROVE AskedInv'
  BY <1>3, ListAsked, VisitAsked, QuietAsked, CloserAsked, ReturnAsked
     DEF ReaderStep, ReaderLocks, ReaderVisits
<1>4. CASE UNCHANGED vars
  BY <1>1, <1>4 DEF vars
<1>5. QED
  BY <1>2, <1>3, <1>4 DEF Next, ReaderStep

\* CloseIdleConnections asks every capable client it listed, once and in name order,
\* whichever of them panic (closeIdleConnectionsSafely).
THEOREM EveryCloserIsAsked == Spec => []EveryCloserAsked
<1>1. Init => AskedInv
  <2> SUFFICES ASSUME Init PROVE AskedInv
    OBVIOUS
  <2>1. \A r \in Readers : reader[r].at = "idle" /\ asked[r] = <<>>
    BY DEF Init, Idle
  <2>2. asked \in [Readers -> Seq(Names)]
    BY DEF Init
  <2>3. QED
    BY <2>1, <2>2 DEF AskedInv, Asked
<1>2. TypeOK /\ AskedInv /\ [Next]_vars => AskedInv'
  BY AskedStep
<1>3. AskedInv => EveryCloserAsked
  <2> SUFFICES ASSUME AskedInv, NEW r \in Readers, reader[r].at = "done", reader[r].op = "close"
               PROVE  /\ {n \in Listed(view[r]) : view[r][n].client \in Closers} = Elements(asked[r])
                      /\ InOrder(asked[r])
    BY DEF EveryCloserAsked, Elements, InOrder
  <2>1. Elements(asked[r]) \union todo[r] = Wanted(r) /\ todo[r] = {} /\ InOrder(asked[r])
    BY DEF AskedInv, Asked
  <2>2. Wanted(r) = {n \in Listed(view[r]) : view[r][n].client \in Closers}
    BY DEF Wanted
  <2>3. QED
    BY <2>1, <2>2
<1>4. QED
  BY <1>1, <1>2, <1>3, TypeCorrect, PTL DEF Spec

-----------------------------------------------------------------------------
(***************************************************************************)
(* The Registry keeps what RegistryMembership promises: RegisterAll is     *)
(* atomic and readers see the members of one instant, for any number of    *)
(* callers, readers, names and clients.                                    *)
(*                                                                         *)
(* The argument is the lock's: who is between Lock and Unlock is the       *)
(* writer, who is copying is one of the readLocks, and the two exclude     *)
(* each other.  So what a reader has copied is still what the registry     *)
(* holds, and an entry whose caller is the writer has been seen by nobody. *)
(***************************************************************************)

\* The holders of the lock are the goroutines in its sections.
LockHeld ==
    /\ \A c \in Callers : caller[c] \in {"locked", "inserting"} <=> writer = c
    /\ \A r \in Readers : r \in readLocks <=> reader[r].at = "copying"
    /\ writer # Nobody => readLocks = {}

\* Entries carry their caller's name and come from its batch, and only its loop
\* puts them into the registry.
BatchesOwned == \A c \in Callers, n \in Names : batch[c][n] # NoEntry => batch[c][n].by = c
MembersOwned ==
    \A n \in Names : clients[n] # NoEntry =>
        /\ caller[clients[n].by] \in {"inserting", "registered"}
        /\ batch[clients[n].by][n] = clients[n]
InsertsOwn ==
    \A c \in Callers : caller[c] = "inserting" =>
        \A n \in Names : batch[c][n] # NoEntry => clients[n] = NoEntry \/ clients[n] = batch[c][n]

\* Whoever asks for the lock has something to register.
BatchesFilled ==
    \A c \in Callers :
        \/ caller[c] = "validating" /\ left[c] = 0
        \/ caller[c] \in {"waiting", "locked", "inserting"}
        => batch[c] # Nothing

\* What a reader has copied is what the registry holds.
CopyCurrent(r) ==
    /\ reader[r].at = "idle" => view[r] = Nothing
    /\ reader[r].at = "copying" => \A n \in Names : n \notin todo[r] => view[r][n] = clients[n]
CopiesCurrent == \A r \in Readers : CopyCurrent(r)

MembershipInv ==
    /\ TypeOK /\ LockHeld
    /\ BatchesOwned /\ MembersOwned /\ InsertsOwn /\ BatchesFilled
    /\ CopiesCurrent

LEMMA MembershipInit == Init => MembershipInv
<1> SUFFICES ASSUME Init PROVE MembershipInv
  OBVIOUS
<1>1. TypeOK
  BY TypeInit
<1>2. \A r \in Readers : reader[r].at = "idle" /\ view[r] = Nothing
  BY DEF Init, Idle
<1>3. \A c \in Callers : caller[c] = "idle" /\ batch[c] = Nothing
  BY DEF Init
<1>4. clients = Nothing /\ writer = Nobody /\ readLocks = {}
  BY DEF Init
<1>5. LockHeld
  BY <1>2, <1>3, <1>4, CompositionAssumption DEF LockHeld
<1>6. BatchesOwned /\ MembersOwned /\ InsertsOwn /\ BatchesFilled
  BY <1>3, <1>4 DEF BatchesOwned, MembersOwned, InsertsOwn, BatchesFilled, Nothing
<1>7. CopiesCurrent
  BY <1>2 DEF CopiesCurrent, CopyCurrent
<1>8. QED
  BY <1>1, <1>5, <1>6, <1>7 DEF MembershipInv

-----------------------------------------------------------------------------
(***************************************************************************)
(* The lock.                                                               *)
(***************************************************************************)
LEMMA CallerLockHeld ==
    ASSUME TypeOK, LockHeld, NEW c \in Callers, RegisterAll(c) \/ CallerStep(c)
    PROVE  LockHeld'
<1>1. reader' = reader /\ readLocks' = readLocks
  BY DEF RegisterAll, CallerStep, Validate, AskForLock, Lock, AlreadyRegistered,
         NoneRegistered, Insert, Unlock, reading, locks
<1>2. \A r \in Readers : r \in readLocks' <=> reader'[r].at = "copying"
  BY <1>1 DEF LockHeld
<1>3. CASE RegisterAll(c) \/ AskForLock(c)
  BY <1>2, <1>1, <1>3 DEF RegisterAll, AskForLock, CallerAt, locks, TypeOK, LockHeld
<1>4. CASE Validate(c)
  <2>1. writer' = writer /\ (caller' = caller \/ CallerAt(c, "validating", "refused"))
    BY <1>4 DEF Validate, locks
  <2>2. QED
    BY <1>1, <1>2, <2>1 DEF CallerAt, TypeOK, LockHeld
<1>5. CASE Lock(c)
  BY <1>1, <1>2, <1>5, CompositionAssumption DEF Lock, MayWrite, CallerAt, TypeOK, LockHeld
<1>6. CASE AlreadyRegistered(c) \/ Unlock(c)
  BY <1>1, <1>2, <1>6, CompositionAssumption
     DEF AlreadyRegistered, Unlock, CallerAt, TypeOK, LockHeld
<1>7. CASE NoneRegistered(c)
  BY <1>1, <1>2, <1>7 DEF NoneRegistered, CallerAt, locks, TypeOK, LockHeld
<1>8. CASE \E n \in Names : Insert(c, n)
  BY <1>1, <1>2, <1>8 DEF Insert, locks, registering, LockHeld
<1>9. QED
  BY <1>3, <1>4, <1>5, <1>6, <1>7, <1>8 DEF CallerStep

LEMMA ReaderLockHeld ==
    ASSUME TypeOK, LockHeld, NEW r \in Readers, ReaderStep(r)
    PROVE  LockHeld'
<1>1. caller' = caller /\ writer' = writer
  BY DEF ReaderStep, ReaderLocks, ReaderVisits, RLock, Get, Copy, RUnlock, VisitHealth, VisitCloser,
         Finish, Return, registering, locks
<1>2. CASE \E op \in Operations : RLock(r, op)
  BY <1>1, <1>2 DEF RLock, MayRead, TypeOK, LockHeld
<1>3. CASE RUnlock(r)
  BY <1>1, <1>3 DEF RUnlock, ReaderAt, TypeOK, LockHeld
<1>4. CASE ~(\E op \in Operations : RLock(r, op)) /\ ~RUnlock(r)
  <2>1. readLocks' = readLocks
    BY <1>4 DEF ReaderStep, ReaderLocks, ReaderVisits, Get, Copy, VisitHealth, VisitCloser,
                Finish, Return, locks
  <2>2. reader[r].at = "copying" <=> reader'[r].at = "copying"
    BY <1>4 DEF TypeOK, ReaderStep, ReaderLocks, ReaderVisits, Get, Copy, VisitHealth, VisitCloser,
                Finish, Return, ReaderAt, Idle
  <2>3. \A q \in Readers : reader[q].at = "copying" <=> reader'[q].at = "copying"
    BY <2>2, OthersKeep
  <2>4. QED
    BY <1>1, <2>1, <2>3 DEF LockHeld
<1>5. QED
  BY <1>2, <1>3, <1>4

-----------------------------------------------------------------------------
(***************************************************************************)
(* Callers.                                                                *)
(***************************************************************************)
Owned == BatchesOwned /\ MembersOwned /\ InsertsOwn /\ BatchesFilled

\* A caller that is not inserting moves on; batches and members stay.
LEMMA MoveOwned ==
    ASSUME TypeOK, Owned, NEW c \in Callers, NEW to,
           caller' = [caller EXCEPT ![c] = to], UNCHANGED <<clients, batch>>,
           caller[c] \in {"inserting", "registered"} => to \in {"inserting", "registered"},
           to = "inserting" => ~Taken(c),
           to = "validating" => left'[c] # 0,
           to \in {"waiting", "locked", "inserting"} => batch[c] # Nothing,
           \A k \in Callers : k # c => left'[k] = left[k]
    PROVE  Owned'
<1>1. \A k \in Callers : caller'[k] = IF k = c THEN to ELSE caller[k]
  BY DEF TypeOK
<1>2. BatchesOwned'
  BY DEF Owned, BatchesOwned
<1>3. \A n \in Names : clients[n] # NoEntry => clients[n].by \in Callers
  BY DEF TypeOK, Directory, Entry
<1>4. MembersOwned'
  BY <1>1, <1>3 DEF Owned, MembersOwned
<1>5. InsertsOwn'
  <2>1. to = "inserting" => \A n \in Names : batch[c][n] # NoEntry => clients[n] = NoEntry
    BY DEF Taken, Listed
  <2>2. QED
    BY <1>1, <2>1 DEF Owned, InsertsOwn
<1>6. BatchesFilled'
  BY <1>1 DEF Owned, BatchesFilled, Nothing
<1>7. QED
  BY <1>2, <1>4, <1>5, <1>6 DEF Owned

LEMMA RegisterAllOwned ==
    ASSUME TypeOK, Owned, NEW c \in Callers, RegisterAll(c) PROVE Owned'
<1>1. PICK size \in 0..MaxBatch :
          /\ CallerAt(c, "idle", IF size = 0 THEN "registered" ELSE "validating")
          /\ left' = [left EXCEPT ![c] = size]
  BY DEF RegisterAll
<1>2. UNCHANGED <<clients, batch>> /\ caller[c] = "idle"
  BY <1>1 DEF RegisterAll, CallerAt
<1>3. left'[c] = size /\ \A k \in Callers : k # c => left'[k] = left[k]
  BY <1>1 DEF TypeOK
<1>4. CASE size = 0
  <2>1. caller' = [caller EXCEPT ![c] = "registered"]
    BY <1>1, <1>4 DEF CallerAt
  <2>2. QED
    BY <1>2, <1>3, <2>1, MoveOwned
<1>5. CASE size # 0
  <2>1. caller' = [caller EXCEPT ![c] = "validating"]
    BY <1>1, <1>5 DEF CallerAt
  <2>2. QED
    BY <1>2, <1>3, <1>5, <2>1, MoveOwned
<1>6. QED
  BY <1>4, <1>5

LEMMA AdmittedOwned ==
    ASSUME TypeOK, Owned, NEW c \in Callers, NEW m \in Names, NEW entry \in Entry,
           caller[c] = "validating", entry.by = c,
           batch' = [batch EXCEPT ![c] = [batch[c] EXCEPT ![m] = entry]],
           left' = [left EXCEPT ![c] = left[c] - 1], UNCHANGED <<clients, caller>>
    PROVE  Owned'
<1>1. batch[c] \in Directory
  BY DEF TypeOK
<1>2. batch'[c] = [batch[c] EXCEPT ![m] = entry] /\ \A k \in Callers : k # c => batch'[k] = batch[k]
  BY DEF TypeOK
<1>3. \A n \in Names : batch'[c][n] = IF n = m THEN entry ELSE batch[c][n]
  BY <1>1, <1>2 DEF Directory
<1>4. BatchesOwned'
  BY <1>2, <1>3 DEF Owned, BatchesOwned
<1>5. \A n \in Names : clients[n] # NoEntry => clients[n].by \in Callers /\ clients[n].by # c
  BY DEF TypeOK, Directory, Entry, Owned, MembersOwned
<1>6. MembersOwned'
  BY <1>2, <1>5 DEF Owned, MembersOwned
<1>7. InsertsOwn'
  BY <1>2 DEF Owned, InsertsOwn
<1>8. BatchesFilled'
  <2>1. batch'[c] # Nothing
    BY <1>3, NoEntryAssumption DEF Nothing
  <2>2. \A k \in Callers : k # c => left'[k] = left[k]
    BY DEF TypeOK
  <2>3. QED
    BY <1>2, <2>1, <2>2 DEF Owned, BatchesFilled, Nothing
<1>9. QED
  BY <1>4, <1>6, <1>7, <1>8 DEF Owned

LEMMA ValidateOwned ==
    ASSUME TypeOK, Owned, NEW c \in Callers, Validate(c) PROVE Owned'
<1>1. PICK client \in Clients, report \in Reports :
          IF Acceptable(client, report) /\ batch[c][report.name] = NoEntry
          THEN /\ batch' = [batch EXCEPT ![c] = [@ EXCEPT ![report.name] =
                               [client |-> client, policy |-> Normalized(report.policy),
                                enabled |-> EnabledBy(client, report), by |-> c]]]
               /\ left' = [left EXCEPT ![c] = @ - 1]
               /\ UNCHANGED caller
          ELSE /\ CallerAt(c, "validating", "refused")
               /\ UNCHANGED <<batch, left>>
  BY DEF Validate
<1>2. UNCHANGED clients /\ caller[c] = "validating"
  BY DEF Validate
<1>3. CASE ~(Acceptable(client, report) /\ batch[c][report.name] = NoEntry)
  <2>1. caller' = [caller EXCEPT ![c] = "refused"] /\ UNCHANGED <<batch, left>>
    BY <1>1, <1>3 DEF CallerAt
  <2>2. QED
    BY <1>2, <2>1, MoveOwned
<1>4. CASE Acceptable(client, report) /\ batch[c][report.name] = NoEntry
  <2>1. PICK entry : entry = [client |-> client, policy |-> Normalized(report.policy),
                              enabled |-> EnabledBy(client, report), by |-> c]
    OBVIOUS
  <2>2. EnabledBy(client, report) \in BOOLEAN
    BY DEF EnabledBy
  <2>3. entry \in Entry /\ entry.by = c /\ report.name \in Names
    BY <2>1, <2>2, NormalizedType DEF Entry
  <2>4. /\ batch' = [batch EXCEPT ![c] = [batch[c] EXCEPT ![report.name] = entry]]
        /\ left' = [left EXCEPT ![c] = left[c] - 1] /\ UNCHANGED <<clients, caller>>
    BY <1>1, <1>2, <1>4, <2>1
  <2>5. QED
    BY <1>2, <2>3, <2>4, AdmittedOwned
<1>5. QED
  BY <1>3, <1>4

LEMMA LockStepOwned ==
    ASSUME TypeOK, Owned, NEW c \in Callers,
           AskForLock(c) \/ Lock(c) \/ AlreadyRegistered(c) \/ NoneRegistered(c) \/ Unlock(c)
    PROVE  Owned'
<1>1. UNCHANGED <<clients, batch, left>>
  BY DEF AskForLock, Lock, AlreadyRegistered, NoneRegistered, Unlock
<1>2. CASE AskForLock(c)
  <2>1. caller' = [caller EXCEPT ![c] = "waiting"] /\ caller[c] = "validating" /\ left[c] = 0
    BY <1>2 DEF AskForLock, CallerAt
  <2>2. batch[c] # Nothing
    BY <2>1 DEF Owned, BatchesFilled
  <2>3. QED
    BY <1>1, <2>1, <2>2, MoveOwned
<1>3. CASE Lock(c)
  <2>1. caller' = [caller EXCEPT ![c] = "locked"] /\ caller[c] = "waiting"
    BY <1>3 DEF Lock, CallerAt
  <2>2. batch[c] # Nothing
    BY <2>1 DEF Owned, BatchesFilled
  <2>3. QED
    BY <1>1, <2>1, <2>2, MoveOwned
<1>4. CASE AlreadyRegistered(c)
  <2>1. caller' = [caller EXCEPT ![c] = "refused"] /\ caller[c] = "locked"
    BY <1>4 DEF AlreadyRegistered, CallerAt
  <2>2. QED
    BY <1>1, <2>1, MoveOwned
<1>5. CASE NoneRegistered(c)
  <2>1. caller' = [caller EXCEPT ![c] = "inserting"] /\ caller[c] = "locked" /\ ~Taken(c)
    BY <1>5 DEF NoneRegistered, CallerAt
  <2>2. batch[c] # Nothing
    BY <2>1 DEF Owned, BatchesFilled
  <2>3. QED
    BY <1>1, <2>1, <2>2, MoveOwned
<1>6. CASE Unlock(c)
  <2>1. caller' = [caller EXCEPT ![c] = "registered"] /\ caller[c] = "inserting"
    BY <1>6 DEF Unlock, CallerAt
  <2>2. QED
    BY <1>1, <2>1, MoveOwned
<1>7. QED
  BY <1>2, <1>3, <1>4, <1>5, <1>6

LEMMA InsertOwned ==
    ASSUME TypeOK, LockHeld, Owned, NEW c \in Callers, NEW n \in Names, Insert(c, n)
    PROVE  Owned'
<1>1. UNCHANGED <<caller, left, batch>> /\ caller[c] = "inserting"
  BY DEF Insert, registering
<1>2. \A m \in Names : clients'[m] = IF m = n THEN batch[c][n] ELSE clients[m]
  BY DEF Insert, TypeOK, Directory
<1>3. batch[c][n].by = c
  BY DEF Insert, Owned, BatchesOwned
<1>4. MembersOwned'
  BY <1>1, <1>2, <1>3 DEF Owned, MembersOwned
<1>5. \A k \in Callers : caller[k] = "inserting" => k = c
  BY <1>1 DEF LockHeld
<1>6. InsertsOwn'
  BY <1>1, <1>2, <1>5 DEF Owned, InsertsOwn
<1>7. BatchesOwned' /\ BatchesFilled'
  BY <1>1 DEF Owned, BatchesOwned, BatchesFilled, Nothing
<1>8. QED
  BY <1>4, <1>6, <1>7 DEF Owned

-----------------------------------------------------------------------------
(***************************************************************************)
(* Readers' copies.                                                        *)
(***************************************************************************)
LEMMA CallerCopies ==
    ASSUME TypeOK, LockHeld, CopiesCurrent, NEW c \in Callers, RegisterAll(c) \/ CallerStep(c)
    PROVE  CopiesCurrent'
<1>1. UNCHANGED <<reader, view, todo>>
  BY DEF RegisterAll, CallerStep, Validate, AskForLock, Lock, AlreadyRegistered,
         NoneRegistered, Insert, Unlock, reading
<1>2. CASE UNCHANGED clients
  BY <1>1, <1>2 DEF CopiesCurrent, CopyCurrent, Nothing
<1>3. CASE \E n \in Names : Insert(c, n)
  <2>1. readLocks = {}
    BY <1>3, CompositionAssumption DEF Insert, LockHeld
  <2>2. \A r \in Readers : reader[r].at # "copying"
    BY <2>1 DEF LockHeld
  <2>3. QED
    BY <1>1, <2>2 DEF CopiesCurrent, CopyCurrent, Nothing
<1>4. QED
  BY <1>2, <1>3 DEF RegisterAll, CallerStep, Validate, AskForLock, Lock, AlreadyRegistered,
                    NoneRegistered, Unlock

LEMMA ReaderCopies ==
    ASSUME TypeOK, CopiesCurrent, NEW r \in Readers, ReaderStep(r)
    PROVE  CopiesCurrent'
<1>1. UNCHANGED clients
  BY DEF ReaderStep, ReaderLocks, ReaderVisits, RLock, Get, Copy, RUnlock, VisitHealth, VisitCloser,
         Finish, Return
<1>2. \A q \in Readers : q # r => CopyCurrent(q)'
  BY <1>1, OthersKeep DEF CopiesCurrent, CopyCurrent, Nothing
<1>3. CASE \E op \in Operations : RLock(r, op)
  <2>1. reader'[r].at = "copying" /\ todo'[r] = Names
    BY <1>3 DEF RLock, TypeOK
  <2>2. QED
    BY <1>2, <2>1 DEF CopiesCurrent, CopyCurrent
<1>4. CASE \E n \in Names : Copy(r, n)
  <2>1. PICK n \in Names : Copy(r, n)
    BY <1>4
  <2>2. view[r] \in Directory
    BY DEF TypeOK
  <2>3. view'[r] = [view[r] EXCEPT ![n] = clients[n]] /\ todo'[r] = todo[r] \ {n}
    BY <2>1 DEF Copy, TypeOK
  <2>4. \A m \in Names : view'[r][m] = IF m = n THEN clients[n] ELSE view[r][m]
    BY <2>2, <2>3 DEF Directory
  <2>5. reader'[r].at = "copying" /\ reader[r].at = "copying"
    BY <2>1 DEF Copy
  <2>6. QED
    BY <1>1, <1>2, <2>3, <2>4, <2>5 DEF CopiesCurrent, CopyCurrent
<1>5. CASE Return(r)
  <2>1. reader'[r].at = "idle" /\ view'[r] = Nothing
    BY <1>5 DEF Return, TypeOK, Idle
  <2>2. QED
    BY <1>2, <2>1 DEF CopiesCurrent, CopyCurrent, Nothing
<1>6. CASE RUnlock(r) \/ Finish(r) \/ ReaderVisits(r) \/ \E n \in Names : Get(r, n)
  <2>1. reader'[r].at \in {"visiting", "done"}
    BY <1>6 DEF RUnlock, Finish, ReaderVisits, VisitHealth, VisitCloser, Get, ReaderAt, TypeOK
  <2>2. QED
    BY <1>2, <2>1 DEF CopiesCurrent, CopyCurrent
<1>7. QED
  BY <1>3, <1>4, <1>5, <1>6 DEF ReaderStep, ReaderLocks

LEMMA MembershipStep == MembershipInv /\ [Next]_vars => MembershipInv'
<1> SUFFICES ASSUME MembershipInv, [Next]_vars PROVE MembershipInv'
  OBVIOUS
<1>0. TypeOK /\ LockHeld /\ Owned /\ CopiesCurrent
  BY DEF MembershipInv, Owned
<1>1. TypeOK'
  BY <1>0, TypeStep
<1>2. CASE UNCHANGED vars
  BY <1>0, <1>1, <1>2 DEF vars, locks, registering, reading, MembershipInv, LockHeld, Owned, BatchesOwned,
     MembersOwned, InsertsOwn, BatchesFilled, CopiesCurrent, CopyCurrent, Nothing
<1>3. ASSUME NEW c \in Callers, RegisterAll(c) \/ CallerStep(c) PROVE MembershipInv'
  <2>1. LockHeld'
    BY <1>0, <1>3, CallerLockHeld
  <2>2. Owned'
    BY <1>0, <1>3, RegisterAllOwned, ValidateOwned, LockStepOwned, InsertOwned DEF CallerStep
  <2>3. CopiesCurrent'
    BY <1>0, <1>3, CallerCopies
  <2>4. QED
    BY <1>1, <2>1, <2>2, <2>3 DEF MembershipInv, Owned
<1>4. ASSUME NEW r \in Readers, ReaderStep(r) PROVE MembershipInv'
  <2>1. LockHeld'
    BY <1>0, <1>4, ReaderLockHeld
  <2>2. UNCHANGED <<clients, caller, left, batch>>
    BY <1>4 DEF ReaderStep, ReaderLocks, ReaderVisits, RLock, Get, Copy, RUnlock, VisitHealth,
                VisitCloser, Finish, Return, registering
  <2>3. Owned'
    BY <1>0, <2>2 DEF Owned, BatchesOwned, MembersOwned, InsertsOwn, BatchesFilled, Nothing
  <2>4. CopiesCurrent'
    BY <1>0, <1>4, ReaderCopies
  <2>5. QED
    BY <1>1, <2>1, <2>3, <2>4 DEF MembershipInv, Owned
<1>5. QED
  BY <1>2, <1>3, <1>4 DEF Next, ReaderStep

-----------------------------------------------------------------------------
(***************************************************************************)
(* The refinement.                                                         *)
(***************************************************************************)

\* With nobody inserting, what is registered is what is there.
LEMMA SettledIdle ==
    ASSUME TypeOK, writer = Nobody \/ caller[writer] # "inserting" PROVE Settled = clients
  BY DEF TypeOK, Directory, Settled

LEMMA SettledFrame ==
    ASSUME TypeOK, LockHeld, NEW c \in Callers, NEW to, to # "inserting",
           caller[c] \notin {"locked", "inserting"},
           caller' = [caller EXCEPT ![c] = to], UNCHANGED <<clients, writer>>
    PROVE  Settled' = Settled
<1>1. writer # Nobody => writer \in Callers /\ caller'[writer] = caller[writer]
  BY DEF TypeOK, LockHeld
<1>2. QED
  BY <1>1 DEF Settled

LEMMA MapInit == Init => Membership!Init
<1> SUFFICES ASSUME Init PROVE Membership!Init
  OBVIOUS
<1>1. Settled = [n \in Names |-> NoEntry]
  BY DEF Init, Settled, Nothing
<1>2. SeenBy = [r \in Readers |-> [n \in Names |-> NoEntry]]
  BY DEF Init, SeenBy, Idle, Nothing
<1>3. QED
  BY <1>1, <1>2 DEF Init, Nothing, Membership!Init, Membership!Nothing

MapStep == [Membership!Next]_<<batch, Settled, SeenBy>>

\* Nobody but the registering caller changes what is registered.
LEMMA QuietMap ==
    ASSUME UNCHANGED <<clients, writer, caller, batch>> PROVE UNCHANGED <<batch, Settled>>
  BY DEF Settled

LEMMA UnlockMap ==
    ASSUME MembershipInv, NEW c \in Callers, Unlock(c) PROVE Membership!Register(c)
<1>0. TypeOK /\ LockHeld /\ BatchesOwned /\ MembersOwned /\ BatchesFilled
  BY DEF MembershipInv
<1>1. /\ caller[c] = "inserting" /\ writer = c /\ writer # Nobody /\ writer' = Nobody
      /\ UNCHANGED <<clients, batch, reader, view>>
  BY <1>0, CompositionAssumption DEF Unlock, CallerAt, LockHeld, reading
<1>2. \A n \in Names : Settled[n] = IF clients[n] # NoEntry /\ clients[n].by = c
                                    THEN NoEntry ELSE clients[n]
  BY <1>1 DEF Settled
<1>3. Settled' = clients
  BY <1>0, <1>1 DEF Settled, TypeOK, Directory
<1>4. \A n \in Names : batch[c][n] # NoEntry => clients[n] = batch[c][n] /\ clients[n].by = c
  BY <1>0 DEF Unlock, Listed, BatchesOwned
<1>5. \A n \in Names : batch[c][n] = NoEntry => Settled[n] = clients[n]
  BY <1>0, <1>2 DEF MembersOwned
<1>6. \A n \in Names : batch[c][n] # NoEntry => Settled[n] = NoEntry
  BY <1>2, <1>4
<1>7. clients = [n \in Names |-> IF batch[c][n] # NoEntry THEN batch[c][n] ELSE Settled[n]]
  BY <1>0, <1>4, <1>5 DEF TypeOK, Directory
<1>8. batch[c] # [n \in Names |-> NoEntry]
  BY <1>0, <1>1 DEF BatchesFilled, Nothing
<1>9. SeenBy' = SeenBy
  BY <1>1 DEF SeenBy, Nothing
<1>10. QED
  BY <1>1, <1>3, <1>6, <1>7, <1>8, <1>9 DEF Membership!Register, Membership!Nothing

LEMMA InsertMap ==
    ASSUME MembershipInv, NEW c \in Callers, NEW n \in Names, Insert(c, n)
    PROVE  UNCHANGED <<batch, Settled, SeenBy>>
<1>0. TypeOK /\ LockHeld /\ BatchesOwned /\ InsertsOwn
  BY DEF MembershipInv
<1>1. /\ caller[c] = "inserting" /\ writer = c /\ writer # Nobody
      /\ UNCHANGED <<writer, caller, batch, reader, view>>
  BY <1>0, CompositionAssumption DEF Insert, LockHeld, locks, registering, reading
<1>2. \A m \in Names : clients'[m] = IF m = n THEN batch[c][n] ELSE clients[m]
  BY <1>0 DEF Insert, TypeOK, Directory
<1>3. clients[n] = NoEntry /\ batch[c][n].by = c
  BY <1>0, <1>1 DEF Insert, InsertsOwn, BatchesOwned
<1>4. Settled' = Settled
  BY <1>1, <1>2, <1>3 DEF Settled
<1>5. QED
  BY <1>1, <1>4 DEF SeenBy, Nothing

LEMMA CallerMap ==
    ASSUME MembershipInv, NEW c \in Callers, RegisterAll(c) \/ CallerStep(c)
    PROVE  MapStep
<1>0. TypeOK /\ LockHeld /\ MembersOwned
  BY DEF MembershipInv
<1>1. SeenBy' = SeenBy
  <2>1. UNCHANGED <<reader, view>>
    BY DEF RegisterAll, CallerStep, Validate, AskForLock, Lock, AlreadyRegistered,
           NoneRegistered, Insert, Unlock, reading
  <2>2. QED
    BY <2>1 DEF SeenBy, Nothing
<1>2. CASE RegisterAll(c)
  <2>1. PICK to : to # "inserting" /\ CallerAt(c, "idle", to)
    BY <1>2 DEF RegisterAll
  <2>2. UNCHANGED <<clients, writer, batch>>
    BY <1>2 DEF RegisterAll, locks
  <2>3. Settled' = Settled
    BY <1>0, <2>1, <2>2, SettledFrame DEF CallerAt
  <2>4. QED
    BY <1>1, <2>2, <2>3 DEF MapStep
<1>3. CASE Validate(c)
  <2>1. UNCHANGED <<clients, writer>> /\ (caller' = caller \/ CallerAt(c, "validating", "refused"))
    BY <1>3 DEF Validate, locks
  <2>2. Settled' = Settled
    <3>1. CASE caller' = caller
      BY <2>1, <3>1 DEF Settled
    <3>2. CASE CallerAt(c, "validating", "refused")
      BY <1>0, <2>1, <3>2, SettledFrame DEF CallerAt
    <3>3. QED
      BY <2>1, <3>1, <3>2
  <2>3. batch' = [batch EXCEPT ![c] = batch'[c]]
    BY <1>0, <1>3 DEF Validate, TypeOK
  <2>4. Membership!Offer(c)
    BY <1>1, <2>2, <2>3 DEF Membership!Offer
  <2>5. QED
    BY <2>4 DEF MapStep, Membership!Next
<1>4. CASE AskForLock(c)
  <2>1. Settled' = Settled
    BY <1>0, <1>4, SettledFrame DEF AskForLock, CallerAt, locks
  <2>2. QED
    BY <1>1, <1>4, <2>1 DEF MapStep, AskForLock
<1>5. CASE Lock(c)
  <2>1. writer = Nobody /\ writer' = c /\ caller'[c] = "locked" /\ UNCHANGED <<clients, batch>>
    BY <1>0, <1>5 DEF Lock, MayWrite, CallerAt, TypeOK
  <2>2. Settled' = Settled
    BY <1>0, <2>1 DEF Settled
  <2>3. QED
    BY <1>1, <2>1, <2>2 DEF MapStep
<1>6. CASE AlreadyRegistered(c)
  <2>1. writer = c /\ caller[c] = "locked" /\ writer' = Nobody /\ UNCHANGED <<clients, batch>>
    BY <1>0, <1>6 DEF AlreadyRegistered, CallerAt, LockHeld
  <2>2. Settled' = Settled
    BY <2>1 DEF Settled
  <2>3. QED
    BY <1>1, <2>1, <2>2 DEF MapStep
<1>7. CASE NoneRegistered(c)
  <2>1. writer = c /\ caller[c] = "locked" /\ UNCHANGED <<clients, writer, batch>>
    BY <1>0, <1>7 DEF NoneRegistered, CallerAt, LockHeld, locks
  <2>2. \A n \in Names : clients[n] # NoEntry => clients[n].by # c
    BY <1>0, <2>1 DEF MembersOwned
  <2>3. Settled' = Settled
    BY <2>1, <2>2 DEF Settled
  <2>4. QED
    BY <1>1, <2>1, <2>3 DEF MapStep
<1>8. CASE \E n \in Names : Insert(c, n)
  BY <1>8, InsertMap DEF MapStep
<1>9. CASE Unlock(c)
  BY <1>9, UnlockMap DEF MapStep, Membership!Next
<1>10. QED
  BY <1>2, <1>3, <1>4, <1>5, <1>6, <1>7, <1>8, <1>9 DEF CallerStep

\* What a reader's step does to what it is said to see.
LEMMA SeenStep ==
    ASSUME TypeOK, NEW r \in Readers, ReaderStep(r)
    PROVE  SeenBy' = [SeenBy EXCEPT ![r] = IF reader'[r].at = "copying" THEN Nothing ELSE view'[r]]
<1>1. \A q \in Readers : q # r => reader'[q] = reader[q] /\ view'[q] = view[q]
  BY OthersKeep
<1>2. QED
  BY <1>1 DEF SeenBy, Nothing

LEMMA ReaderMap ==
    ASSUME MembershipInv, NEW r \in Readers, ReaderStep(r)
    PROVE  MapStep
<1>0. TypeOK /\ LockHeld /\ CopiesCurrent
  BY DEF MembershipInv
<1>1. UNCHANGED <<batch, Settled>>
  <2>1. UNCHANGED <<clients, writer, caller, batch>>
    BY DEF ReaderStep, ReaderLocks, ReaderVisits, RLock, Get, Copy, RUnlock, VisitHealth, VisitCloser,
           Finish, Return, registering, locks
  <2>2. QED
    BY <2>1, QuietMap
<1>2. SeenBy' = [SeenBy EXCEPT ![r] = IF reader'[r].at = "copying" THEN Nothing ELSE view'[r]]
  BY <1>0, SeenStep
<1>3. SeenBy[r] = IF reader[r].at = "copying" THEN Nothing ELSE view[r]
  BY DEF SeenBy
<1>4. ASSUME (IF reader'[r].at = "copying" THEN Nothing ELSE view'[r]) = SeenBy[r] PROVE MapStep
  <2>1. SeenBy' = SeenBy
    BY <1>2, <1>4 DEF SeenBy
  <2>2. QED
    BY <1>1, <2>1 DEF MapStep
<1>5. ASSUME (IF reader'[r].at = "copying" THEN Nothing ELSE view'[r]) = Nothing PROVE MapStep
  <2>1. Membership!List(r)
    BY <1>1, <1>2, <1>5 DEF Membership!List, Membership!Nothing, Nothing
  <2>2. QED
    BY <2>1 DEF MapStep, Membership!Next
<1>6. CASE \E op \in Operations : RLock(r, op)
  <2>1. reader'[r].at = "copying"
    BY <1>0, <1>6 DEF RLock, TypeOK
  <2>2. QED
    BY <1>5, <2>1
<1>7. CASE \E n \in Names : Copy(r, n)
  <2>1. reader'[r].at = "copying"
    BY <1>7 DEF Copy
  <2>2. QED
    BY <1>5, <2>1
<1>8. CASE RUnlock(r)
  <2>1. reader[r].at = "copying" /\ reader'[r].at = "visiting" /\ todo[r] = {} /\ view' = view
    BY <1>0, <1>8 DEF RUnlock, ReaderAt, TypeOK
  <2>2. view[r] = clients
    BY <1>0, <2>1 DEF CopiesCurrent, CopyCurrent, TypeOK, Directory
  <2>3. writer = Nobody
    BY <1>0, <2>1 DEF LockHeld
  <2>4. Settled = clients
    BY <1>0, <2>3, SettledIdle
  <2>5. Membership!List(r)
    BY <1>1, <1>2, <2>1, <2>2, <2>4 DEF Membership!List
  <2>6. QED
    BY <2>5 DEF MapStep, Membership!Next
<1>9. CASE \E n \in Names : Get(r, n)
  <2>1. PICK n \in Names : Get(r, n)
    BY <1>9
  <2>2. writer = Nobody /\ reader'[r].at = "done" /\ view'[r] = [Nothing EXCEPT ![n] = clients[n]]
    BY <1>0, <2>1 DEF Get, MayRead, TypeOK
  <2>3. Settled = clients
    BY <1>0, <2>2, SettledIdle
  <2>4. SeenBy' = [SeenBy EXCEPT ![r] = [Nothing EXCEPT ![n] = Settled[n]]]
    BY <1>2, <2>2, <2>3
  <2>5. Membership!List(r)
    BY <1>1, <2>4 DEF Membership!List, Membership!Nothing, Nothing
  <2>6. QED
    BY <2>5 DEF MapStep, Membership!Next
<1>10. CASE Return(r)
  <2>1. reader'[r].at = "idle" /\ view'[r] = Nothing
    BY <1>0, <1>10 DEF Return, TypeOK, Idle
  <2>2. QED
    BY <1>5, <2>1
<1>11. CASE Finish(r) \/ ReaderVisits(r)
  <2>1. /\ reader[r].at = "visiting" /\ reader'[r].at \in {"visiting", "done"} /\ view' = view
    BY <1>0, <1>11 DEF Finish, ReaderVisits, VisitHealth, VisitCloser, ReaderAt, TypeOK
  <2>2. QED
    BY <1>3, <1>4, <2>1
<1>12. QED
  BY <1>6, <1>7, <1>8, <1>9, <1>10, <1>11 DEF ReaderStep, ReaderLocks

\* Registry implements RegistryMembership: a batch appears whole or not at all,
\* no member is replaced, and every reader works from one instant's members,
\* whatever batches and readers overlap (RegisterAll, Snapshot, Get).
THEOREM ImplementsMembership == Spec => MembershipSpec
<1>1. MembershipInv /\ [Next]_vars => MapStep
  <2> SUFFICES ASSUME MembershipInv, [Next]_vars PROVE MapStep
    OBVIOUS
  <2>1. CASE UNCHANGED vars
    BY <2>1 DEF vars, locks, registering, reading, MapStep, Settled, SeenBy, Nothing
  <2>2. QED
    BY <2>1, CallerMap, ReaderMap DEF Next, ReaderStep
<1>2. QED
  BY <1>1, MembershipInit, MembershipStep, MapInit, PTL DEF Spec, MembershipSpec, Membership!Spec, MapStep
=============================================================================
