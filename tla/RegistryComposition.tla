------------------------ MODULE RegistryComposition ------------------------
(***************************************************************************)
(* Membership of a Registry (registry.go): concurrent RegisterAll batches  *)
(* against readers that list the members - Get, Snapshot with its Status,  *)
(* Readiness and Inspect projections, CloseIdleConnections and the list of *)
(* checks CheckAll starts from - under the registry's RWMutex.             *)
(*                                                                         *)
(* Clients are user code.  What a client reports about itself may differ   *)
(* from call to call, any of its methods may panic or block, and the       *)
(* interfaces it implements (HealthChecker, IdleConnectionCloser) are      *)
(* fixed.  The overrides that CheckAll leaves in an entry are the subject  *)
(* of RegistryChecks; here an override only is one more source of a        *)
(* client's effective health.                                              *)
(***************************************************************************)
EXTENDS Naturals, Sequences, ReadinessProjection

CONSTANTS
    MaxName,    \* client names are 1..MaxName, in their sort order
    Clients,    \* the values passed to RegisterAll
    NilClient,  \* a nil interface or a typed-nil pointer
    Checkers,   \* the clients that implement HealthChecker
    Closers,    \* the clients that implement IdleConnectionCloser
    Reports,    \* what clients may say when they are registered
    Callers,    \* goroutines that each call RegisterAll once
    Readers,    \* goroutines that list members, again and again
    MaxBatch,   \* clients per RegisterAll
    Sanitizer,  \* "default", "custom" or "disabled"
    Nobody,     \* no goroutine holds the write lock
    NoEntry     \* a name that is not registered

Names == 1..MaxName

\* Name, Protocol, ReadinessPolicy and HealthCheckEnabled of one client at one moment;
\* sound: the first three did not panic and their values are valid.
Report == [name : Names, policy : Policies \union {""}, enabled : {"yes", "no", "panics"},
           sound : BOOLEAN]

ASSUME CompositionAssumption ==
    /\ MaxName \in Nat /\ MaxBatch \in Nat
    /\ NilClient \in Clients /\ Checkers \subseteq Clients /\ Closers \subseteq Clients
    /\ Reports \subseteq Report
    /\ Nobody \notin Callers
    /\ Sanitizer \in {"default", "custom", "disabled"}

\* registeredClientEntry, with the caller that registered it (read by no action).
Entry == [client : Clients, policy : Policies, enabled : BOOLEAN, by : Callers]

ASSUME NoEntryAssumption == NoEntry \notin Entry

Directory == [Names -> Entry \union {NoEntry}]
Nothing == [n \in Names |-> NoEntry]
Listed(directory) == {n \in Names : directory[n] # NoEntry}

VARIABLES
    clients,    \* Registry.clients
    writer,     \* the holder of mu.Lock, or Nobody
    readLocks,  \* the holders of mu.RLock
    caller,     \* per caller: where it is in RegisterAll
    left,       \* per caller: arguments not yet validated
    batch,      \* per caller: the registrations validated so far
    reader,     \* per reader: where it is, and in which operation
    view,       \* per reader: the entries it copied
    todo,       \* per reader: names still to be visited
    states,     \* per reader: the effective health state of the visited clients
    asked       \* per reader: names whose CloseIdleConnections was called, in order

locks == <<writer, readLocks>>
registering == <<caller, left, batch>>
reading == <<reader, view, todo, states, asked>>
vars == <<clients, locks, registering, reading>>

\* "snapshot" stands for Snapshot, Status, Readiness and Inspect.
Operations == {"snapshot", "close", "checks"}
Idle == [at |-> "idle", op |-> "none"]

Init ==
    /\ clients = Nothing
    /\ writer = Nobody /\ readLocks = {}
    /\ caller = [c \in Callers |-> "idle"]
    /\ left = [c \in Callers |-> 0]
    /\ batch = [c \in Callers |-> Nothing]
    /\ reader = [r \in Readers |-> Idle]
    /\ view = [r \in Readers |-> Nothing]
    /\ todo = [r \in Readers |-> {}]
    /\ states = [r \in Readers |-> [n \in Names |-> "unread"]]
    /\ asked = [r \in Readers |-> <<>>]

-----------------------------------------------------------------------------
(***************************************************************************)
(* RegisterAll.                                                            *)
(***************************************************************************)
CallerAt(c, from, to) == caller[c] = from /\ caller' = [caller EXCEPT ![c] = to]

\* An empty batch is registered at once.
RegisterAll(c) ==
    /\ \E size \in 0..MaxBatch :
          /\ CallerAt(c, "idle", IF size = 0 THEN "registered" ELSE "validating")
          /\ left' = [left EXCEPT ![c] = size]
    /\ UNCHANGED <<clients, locks, batch, reading>>

\* registeredClientHealthCheckEnabled: only asked of a HealthChecker.
EnabledBy(client, report) == client \in Checkers /\ report.enabled = "yes"

AcceptableUnchecked(client, report) ==
    /\ client # NilClient /\ report.sound
    /\ client \in Checkers => report.enabled # "panics"

\* validateRegistration
Acceptable(client, report) ==
    /\ client # NilClient
    /\ report.sound
    /\ client \in Checkers =>
          /\ report.enabled # "panics"
          /\ BlocksReadiness(Normalized(report.policy)) => report.enabled = "yes"

Validate(c) ==
    /\ caller[c] = "validating" /\ left[c] > 0
    /\ \E client \in Clients, report \in Reports :
          IF Acceptable(client, report) /\ batch[c][report.name] = NoEntry
          THEN /\ batch' = [batch EXCEPT ![c] = [@ EXCEPT ![report.name] =
                               [client |-> client, policy |-> Normalized(report.policy),
                                enabled |-> EnabledBy(client, report), by |-> c]]]
               /\ left' = [left EXCEPT ![c] = @ - 1]
               /\ UNCHANGED caller
          ELSE /\ CallerAt(c, "validating", "refused")
               /\ UNCHANGED <<batch, left>>
    /\ UNCHANGED <<clients, locks, reading>>

\* A writer waits for the readers and, once it waits, keeps new readers out
\* (sync.RWMutex).
AskForLock(c) ==
    /\ left[c] = 0 /\ CallerAt(c, "validating", "waiting")
    /\ UNCHANGED <<clients, locks, left, batch, reading>>

MayWriteAfterVisits == writer = Nobody /\ \A r \in Readers : reader[r].at \in {"idle", "done"}
MayWrite == writer = Nobody /\ readLocks = {}

Lock(c) ==
    /\ MayWrite
    /\ CallerAt(c, "waiting", "locked")
    /\ writer' = c
    /\ UNCHANGED <<clients, readLocks, left, batch, reading>>

Taken(c) == Listed(batch[c]) \intersect Listed(clients) # {}

AlreadyRegistered(c) ==
    /\ CallerAt(c, "locked", "refused")
    /\ Taken(c)
    /\ writer' = Nobody
    /\ UNCHANGED <<clients, readLocks, left, batch, reading>>

NoneRegistered(c) ==
    /\ CallerAt(c, "locked", "inserting")
    /\ ~Taken(c)
    /\ UNCHANGED <<clients, locks, left, batch, reading>>

\* One iteration of the last loop.  The lock makes the order of the insertions
\* invisible; the model allows any.
Insert(c, n) ==
    /\ caller[c] = "inserting"
    /\ batch[c][n] # NoEntry /\ clients[n] # batch[c][n]
    /\ clients' = [clients EXCEPT ![n] = batch[c][n]]
    /\ UNCHANGED <<locks, registering, reading>>

Unlock(c) ==
    /\ \A n \in Listed(batch[c]) : clients[n] = batch[c][n]
    /\ CallerAt(c, "inserting", "registered")
    /\ writer' = Nobody
    /\ UNCHANGED <<clients, readLocks, left, batch, reading>>

-----------------------------------------------------------------------------
(***************************************************************************)
(* Readers.                                                                *)
(***************************************************************************)
ReaderAt(r, from, to) == reader[r].at = from /\ reader' = [reader EXCEPT ![r].at = to]

ReadsAnyway == TRUE
MayRead == writer = Nobody /\ \A c \in Callers : caller[c] # "waiting"

RLock(r, op) ==
    /\ MayRead
    /\ reader[r].at = "idle"
    /\ reader' = [reader EXCEPT ![r] = [at |-> "copying", op |-> op]]
    /\ readLocks' = readLocks \union {r}
    /\ todo' = [todo EXCEPT ![r] = Names]
    /\ UNCHANGED <<clients, writer, registering, view, states, asked>>

\* One iteration over the map, in any order.
Copy(r, n) ==
    /\ reader[r].at = "copying" /\ n \in todo[r]
    /\ view' = [view EXCEPT ![r] = [@ EXCEPT ![n] = clients[n]]]
    /\ todo' = [todo EXCEPT ![r] = @ \ {n}]
    /\ UNCHANGED <<clients, locks, registering, reader, states, asked>>

\* The members the operation is about: healthCheckersSnapshot,
\* idleConnectionClosersSnapshot, Snapshot.
Wanted(r) ==
    {n \in Listed(view[r]) :
        CASE reader[r].op = "close" -> view[r][n].client \in Closers
          [] reader[r].op = "checks" -> view[r][n].client \in Checkers /\ view[r][n].enabled
          [] OTHER -> TRUE}

\* The lock is released before any client is called.
RUnlock(r) ==
    /\ todo[r] = {} /\ ReaderAt(r, "copying", "visiting")
    /\ readLocks' = readLocks \ {r}
    /\ todo' = [todo EXCEPT ![r] = Wanted(r)]
    /\ UNCHANGED <<clients, writer, registering, view, states, asked>>

\* sanitizeHealthSafely: the states it may return; a panic is reported as unknown.
Sanitized(state) ==
    CASE Sanitizer = "disabled" -> {state}
      [] Sanitizer = "custom" -> States
      [] OTHER -> {IF state = "other" THEN "unknown" ELSE state}

\* One client of Snapshot: Health() or its panic, and then the sanitizer or an override
\* that CheckAll left.
EffectiveStates ==
    {"unknown", "unhealthy"} \union (UNION {Sanitized(state) : state \in States})

VisitHealth(r, n) ==
    /\ reader[r].at = "visiting" /\ reader[r].op = "snapshot" /\ n \in todo[r]
    /\ \E state \in EffectiveStates : states' = [states EXCEPT ![r] = [@ EXCEPT ![n] = state]]
    /\ todo' = [todo EXCEPT ![r] = @ \ {n}]
    /\ UNCHANGED <<clients, locks, registering, reader, view, asked>>

\* closeIdleConnectionsSafely, in name order; a panic of the client is dropped.
AfterClosePanicStops(r, n) == {}
AfterClosePanic(r, n) == todo[r] \ {n}

VisitCloser(r, n) ==
    /\ reader[r].at = "visiting" /\ reader[r].op = "close"
    /\ n \in todo[r] /\ \A m \in todo[r] : n <= m
    /\ asked' = [asked EXCEPT ![r] = Append(@, n)]
    /\ \E panics \in BOOLEAN :
          todo' = [todo EXCEPT ![r] = IF panics THEN AfterClosePanic(r, n) ELSE @ \ {n}]
    /\ UNCHANGED <<clients, locks, registering, reader, view, states>>

\* Every wanted client has been visited; "checks" only lists them.
Finish(r) ==
    /\ todo[r] = {} \/ reader[r].op = "checks"
    /\ ReaderAt(r, "visiting", "done")
    /\ UNCHANGED <<clients, locks, registering, view, todo, states, asked>>

\* The operation returns what it found (Inspect nothing, if its context is over).
Return(r) ==
    /\ reader[r].at = "done"
    /\ reader' = [reader EXCEPT ![r] = Idle]
    /\ view' = [view EXCEPT ![r] = Nothing]
    /\ todo' = [todo EXCEPT ![r] = {}]
    /\ states' = [states EXCEPT ![r] = [n \in Names |-> "unread"]]
    /\ asked' = [asked EXCEPT ![r] = <<>>]
    /\ UNCHANGED <<clients, locks, registering>>

\* Get: one name under the read lock.
Get(r, n) ==
    /\ MayRead
    /\ reader[r].at = "idle"
    /\ reader' = [reader EXCEPT ![r] = [at |-> "done", op |-> "get"]]
    /\ view' = [view EXCEPT ![r] = [Nothing EXCEPT ![n] = clients[n]]]
    /\ UNCHANGED <<clients, locks, registering, todo, states, asked>>

-----------------------------------------------------------------------------
CallerStep(c) ==
    \/ Validate(c) \/ AskForLock(c) \/ Lock(c) \/ AlreadyRegistered(c) \/ NoneRegistered(c)
    \/ \E n \in Names : Insert(c, n)
    \/ Unlock(c)

ReaderLocks(r) == (\E n \in Names : Copy(r, n)) \/ RUnlock(r)
ReaderVisits(r) == \E n \in Names : VisitHealth(r, n) \/ VisitCloser(r, n)

Next ==
    \/ \E c \in Callers : RegisterAll(c) \/ CallerStep(c)
    \/ \E r \in Readers :
          \/ \E op \in Operations : RLock(r, op)
          \/ \E n \in Names : Get(r, n)
          \/ ReaderLocks(r) \/ ReaderVisits(r) \/ Finish(r) \/ Return(r)

Spec == Init /\ [][Next]_vars

\* Goroutines run and the lock is granted.  Nothing is assumed of the clients a reader
\* visits (Health or CloseIdleConnections may hang); the metadata methods called while
\* validating return, as their contract says.
Fairness ==
    /\ \A c \in Callers : WF_vars(CallerStep(c))
    /\ \A r \in Readers : WF_vars(ReaderLocks(r))

FairSpec == Spec /\ Fairness

-----------------------------------------------------------------------------
TypeOK ==
    /\ clients \in Directory
    /\ writer \in Callers \union {Nobody}
    /\ readLocks \subseteq Readers
    /\ caller \in [Callers -> {"idle", "validating", "waiting", "locked", "inserting",
                               "registered", "refused"}]
    /\ left \in [Callers -> 0..MaxBatch]
    /\ batch \in [Callers -> Directory]
    /\ reader \in [Readers -> [at : {"idle", "copying", "visiting", "done"},
                               op : Operations \union {"none", "get"}]]
    /\ view \in [Readers -> Directory]
    /\ todo \in [Readers -> SUBSET Names]
    /\ states \in [Readers -> [Names -> States \union {"unread"}]]

\* A refused batch leaves nothing behind, a registered one is there as a whole, members
\* are never replaced, and a reader works from the membership of one instant: Registry
\* implements RegistryMembership (RegisterAll: "validation or duplicate errors register
\* none of the batch").  An insertion in progress counts as not begun.
Settled ==
    [n \in Names |-> IF /\ clients[n] # NoEntry /\ writer # Nobody
                        /\ clients[n].by = writer /\ caller[writer] = "inserting"
                     THEN NoEntry ELSE clients[n]]
SeenBy == [r \in Readers |-> IF reader[r].at = "copying" THEN Nothing ELSE view[r]]

Membership == INSTANCE RegistryMembership WITH
    offered <- batch, members <- Settled, seen <- SeenBy
MembershipSpec == Membership!Spec

\* Status, Readiness and the checks tell one story about one snapshot, whatever clients
\* and sanitizers report (Registry.Status, Registry.Readiness, opskitNamedClientCheck).
SnapshotOf(r) == [n \in Listed(view[r]) |-> [policy |-> view[r][n].policy, state |-> states[r][n]]]

ProjectionsAgree ==
    \A r \in Readers :
        reader[r].at = "done" /\ reader[r].op = "snapshot" => Agreement(SnapshotOf(r))

\* CloseIdleConnections asks every capable client it listed, once and in name order,
\* although clients panic on the way.
EveryCloserAsked ==
    \A r \in Readers : reader[r].at = "done" /\ reader[r].op = "close" =>
        /\ {n \in Listed(view[r]) : view[r][n].client \in Closers} =
              {asked[r][i] : i \in DOMAIN asked[r]}
        /\ \A i, j \in DOMAIN asked[r] : i < j => asked[r][i] < asked[r][j]

\* A client that can block readiness and can be checked is on every list of checks made
\* after its registration, whatever it reports later; otherwise it could keep the
\* service unready with nothing left to refresh its health.
BlockingClientsChecked ==
    \A r \in Readers : reader[r].at \in {"visiting", "done"} /\ reader[r].op = "checks" =>
        \A n \in Listed(view[r]) :
            BlocksReadiness(view[r][n].policy) /\ view[r][n].client \in Checkers => n \in todo[r]

\* RegisterAll returns even if a client that some reader is visiting never does: no user
\* code runs under the registry's lock.
RegistrationReturns ==
    \A c \in Callers : caller[c] = "validating" ~> caller[c] \in {"registered", "refused"}
=============================================================================
