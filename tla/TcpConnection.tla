--------------------------- MODULE TcpConnection ---------------------------
(***************************************************************************)
(* One operation of the TCP client: DialResult (tcpclient/dial.go), whose  *)
(* connection becomes the caller's, or Check (tcpclient/check.go), which   *)
(* dials the same way, may run a probe over the connection and closes it.  *)
(* The question is who owns the connection at each point, with contexts    *)
(* that may end between any two steps, dialers and TLS callbacks that fail *)
(* or panic, and a cancellation callback that runs on its own goroutine.   *)
(*                                                                         *)
(* pc names the statement that runs next:                                  *)
(*                                                                         *)
(*   start        nothing has happened                                     *)
(*   dial         dialConnection;  dialing: inside the dialer              *)
(*   handshaking  inside HandshakeContext                                  *)
(*   established  establishConnection has returned, with or without error  *)
(*   probing      inside the probe;  stopping: after it, before the        *)
(*                cancellation callback is stopped                         *)
(*   closing      the end of Check                                         *)
(*   returned, unwound   the operation is over, by return or by a panic    *)
(*                                                                         *)
(* net.Dialer, the custom dialer, crypto/tls and the probe are external.   *)
(***************************************************************************)
EXTENDS Naturals

CONSTANT Setups     \* the clients and operations considered, a subset of Setup

Setup == [
    check     : BOOLEAN,    \* Check, rather than DialResult
    probe     : BOOLEAN,    \* CheckConfig.Probe is set
    custom    : BOOLEAN,    \* Config.DialContext replaces net.Dialer
    deadlines : BOOLEAN,    \* its connections honor SetDeadline, whose error is ignored
    tls       : BOOLEAN,    \* TLSConfig.Enabled
    timeout   : BOOLEAN,    \* CheckConfig.Timeout
    dialTimeout : BOOLEAN,
    handshakeTimeout : BOOLEAN]

ASSUME SetupsAssumption == Setups \subseteq Setup

VARIABLES
    setup,      \* fixed when the operation is called
    pc,
    ctx,        \* caller's context, check's, and that of the dial or handshake
    conn,       \* the connection: none, open, closed
    err,        \* what establishConnection returns, as a set of traits
    handshakeFailed,    \* connectionMetadata.tlsHandshakeFailed
    outcome,    \* Result.Outcome
    class,      \* Result.FailureClass
    health,     \* state and failureClass in Check
    watcher,    \* the AfterFunc that closes the connection on cancellation
    observed    \* the operation observation: none, started, ended

vars == <<setup, pc, ctx, conn, err, handshakeFailed, outcome, class, health, watcher, observed>>

-----------------------------------------------------------------------------
(***************************************************************************)
(* Contexts.  "absent": no timeout is configured, the parent is used.      *)
(* "released": ended by its cancel function.                               *)
(***************************************************************************)
Ended == {"canceled", "deadline"}
CheckCtx == IF ctx.check = "absent" THEN ctx.caller ELSE ctx.check
StageCtx == IF ctx.stage = "absent" THEN CheckCtx ELSE ctx.stage
Over(x) == x # "live"
Inherit(x, cause) == IF x = "live" THEN cause ELSE x
Stage(timeout) == [ctx EXCEPT !.stage = IF timeout THEN CheckCtx ELSE "absent"]
StageReleased == [ctx EXCEPT !.stage = Inherit(@, "released")]

-----------------------------------------------------------------------------
(***************************************************************************)
(* Errors.  An error may wrap several causes, so it is the set of what     *)
(* errors.Is and errors.As find in it; the empty set stands for nil.       *)
(***************************************************************************)
Traits == {"canceled", "deadline", "timeout", "tls", "network", "noConnection"}
Nil == {}
Canceled(e) == "canceled" \in e
TimedOut(e) == ~Canceled(e) /\ e \intersect {"deadline", "timeout"} # Nil
Failed(e) == e # Nil /\ ~Canceled(e) /\ ~TimedOut(e)

\* classifyFailure, failure.Network
ClassOf(e, tlsStage) ==
    CASE e = Nil -> "none"
      [] Canceled(e) -> "canceled"
      [] TimedOut(e) -> "timeout"
      [] Failed(e) -> IF tlsStage \/ "tls" \in e THEN "tls" ELSE "transport"

\* classifyOutcome
OutcomeIfStageFirst(e, tlsStage, failureClass) ==
    CASE e = Nil -> "success"
      [] e # Nil /\ tlsStage -> "tls_error"
      [] Canceled(e) /\ ~tlsStage -> "canceled"
      [] TimedOut(e) /\ ~tlsStage -> "timeout"
      [] Failed(e) /\ ~tlsStage -> IF failureClass = "tls" THEN "tls_error" ELSE "dial_error"
OutcomeOf(e, tlsStage, failureClass) ==
    CASE e = Nil -> "success"
      [] Canceled(e) -> "canceled"
      [] TimedOut(e) -> "timeout"
      [] Failed(e) -> IF tlsStage \/ failureClass = "tls" THEN "tls_error" ELSE "dial_error"

States == {"healthy", "degraded", "unhealthy"}
HealthClasses == {"none", "canceled", "timeout", "tls", "transport", "policy", "request",
                  "remote_response"}
NoHealth == [state |-> "unknown", class |-> "none"]
Unhealthy(c) == [state |-> "unhealthy", class |-> c]

\* The health of an assessment the probe returned in time.
AssessedVerbatim(state, c) == [state |-> state, class |-> c]
Assessed(state, c) ==
    CASE state \notin States -> Unhealthy("policy")
      [] state = "healthy" -> [state |-> state, class |-> "none"]
      [] OTHER -> [state |-> state, class |-> IF c = "none" THEN "remote_response" ELSE c]

TypeOK ==
    /\ setup \in Setups
    /\ pc \in {"start", "dial", "dialing", "handshaking", "established", "probing",
               "stopping", "closing", "returned", "unwound"}
    /\ ctx \in [caller : {"live"} \union Ended,
                check : {"absent", "live", "released"} \union Ended,
                stage : {"absent", "live", "released"} \union Ended]
    /\ conn \in {"none", "open", "closed"}
    /\ err \subseteq Traits
    /\ handshakeFailed \in BOOLEAN
    /\ outcome \in {"none", "success", "canceled", "timeout", "tls_error", "dial_error"}
    /\ class \in HealthClasses
    /\ health \in [state : States \union {"unknown"}, class : HealthClasses]
    /\ watcher \in {"idle", "armed", "running", "finished"}
    /\ observed \in {"none", "started", "ended"}

Init ==
    /\ setup \in Setups
    /\ pc = "start"
    /\ ctx = [caller |-> "live", check |-> "absent", stage |-> "absent"]
    /\ conn = "none"
    /\ err = Nil
    /\ handshakeFailed = FALSE
    /\ outcome = "none" /\ class = "none"
    /\ health = NoHealth
    /\ watcher = "idle"
    /\ observed = "none"

-----------------------------------------------------------------------------
(***************************************************************************)
(* The environment: the caller's context and the two timers.               *)
(***************************************************************************)
CallerEnds(cause) ==
    /\ ctx.caller = "live" /\ pc \notin {"returned", "unwound"}
    /\ ctx' = [caller |-> cause, check |-> Inherit(ctx.check, cause),
               stage |-> Inherit(ctx.stage, cause)]
    /\ UNCHANGED <<setup, pc, conn, err, handshakeFailed, outcome, class, health, watcher, observed>>

CheckExpires ==
    /\ ctx.check = "live"
    /\ ctx' = [ctx EXCEPT !.check = "deadline", !.stage = Inherit(@, "deadline")]
    /\ UNCHANGED <<setup, pc, conn, err, handshakeFailed, outcome, class, health, watcher, observed>>

StageExpires ==
    /\ ctx.stage = "live"
    /\ ctx' = [ctx EXCEPT !.stage = "deadline"]
    /\ UNCHANGED <<setup, pc, conn, err, handshakeFailed, outcome, class, health, watcher, observed>>

-----------------------------------------------------------------------------
(***************************************************************************)
(* Dialing.                                                                *)
(***************************************************************************)
\* Unconfigured clients, missing contexts and disabled checks do not dial.
Refuse ==
    /\ pc = "start"
    /\ pc' = "returned"
    /\ \/ ~setup.check /\ outcome' = "dial_error" /\ class' = "request" /\ UNCHANGED health
       \/ /\ setup.check /\ UNCHANGED <<outcome, class>>
          /\ health' \in {NoHealth, Unhealthy("request")}
    /\ UNCHANGED <<setup, ctx, conn, err, handshakeFailed, watcher, observed>>

\* StartOperation and the contexts of the check and of the dial.
StartDial ==
    /\ pc = "start"
    /\ pc' = "dial"
    /\ LET check == IF setup.check /\ setup.timeout THEN ctx.caller ELSE "absent"
           parent == IF check = "absent" THEN ctx.caller ELSE check
       IN  ctx' = [ctx EXCEPT !.check = check,
                              !.stage = IF setup.dialTimeout THEN parent ELSE "absent"]
    /\ observed' = "started"
    /\ UNCHANGED <<setup, conn, err, handshakeFailed, outcome, class, health, watcher>>

\* establishConnection returns this connection and error.
Establish(c, e, inHandshake) ==
    /\ pc' = "established"
    /\ conn' = c
    /\ err' = e
    /\ handshakeFailed' = (inHandshake /\ e # Nil)
    /\ ctx' = StageReleased
    /\ UNCHANGED <<setup, outcome, class, health, watcher, observed>>

\* A panic of the dialer or of a TLS callback passes through dialObserved; only the
\* deferred cleanups run.
Unwind(c) ==
    /\ pc' = "unwound"
    /\ conn' = c
    /\ ctx' = [StageReleased EXCEPT !.check = Inherit(@, "released")]
    /\ UNCHANGED <<setup, err, handshakeFailed, outcome, class, health, watcher, observed>>

InvokeDialer ==
    /\ pc = "dial"
    /\ IF setup.custom /\ Over(StageCtx)
       THEN Establish("none", {StageCtx}, FALSE)
       ELSE /\ pc' = "dialing"
            /\ UNCHANGED <<setup, ctx, conn, err, handshakeFailed, outcome, class, health,
                           watcher, observed>>

\* A custom dialer's answer is rejected if its context is over.
LateDialStands == FALSE
DialTooLate == setup.custom /\ Over(StageCtx)

\* What becomes of a connection that is not going to be used.
Closed(c) == IF c = "open" THEN "closed" ELSE c

Handshake ==
    /\ pc' = "handshaking"
    /\ conn' = "open"
    /\ ctx' = Stage(setup.handshakeTimeout)
    /\ UNCHANGED <<setup, err, handshakeFailed, outcome, class, health, watcher, observed>>

\* net.Dialer returns either a connection or an error; a custom dialer anything.
DialerReturns ==
    /\ pc = "dialing"
    /\ \E c \in {"none", "open"}, e \in SUBSET (Traits \ {"noConnection"}) :
          /\ setup.custom \/ (c = "open") = (e = Nil)
          /\ \/ DialTooLate /\ Establish(Closed(c), {StageCtx}, FALSE)
             \/ ~DialTooLate /\ e # Nil /\ Establish(Closed(c), e, FALSE)
             \/ ~DialTooLate /\ e = Nil /\ c = "none" /\ Establish(c, {"noConnection"}, FALSE)
             \/ /\ ~DialTooLate /\ e = Nil /\ c = "open"
                /\ IF setup.tls THEN Handshake ELSE Establish(c, Nil, FALSE)

DialerPanics ==
    /\ pc = "dialing" /\ setup.custom
    /\ Unwind("none")

\* HandshakeContext fails if its context ended before it returned.  Until then the
\* deferred function of establishConnection closes the connection.
OwnedConnectionForgotten(c) == c
OwnedConnection(c) == Closed(c)

HandshakeReturns ==
    /\ pc = "handshaking"
    /\ \/ ~Over(StageCtx) /\ Establish(conn, Nil, TRUE)
       \/ Over(StageCtx) /\ Establish(OwnedConnection(conn), {StageCtx}, TRUE)
       \/ /\ ~Over(StageCtx)
          /\ \E e \in (SUBSET (Traits \ {"noConnection"})) \ {Nil} :
                Establish(OwnedConnection(conn), e, TRUE)

HandshakePanics ==
    /\ pc = "handshaking"
    /\ Unwind(OwnedConnection(conn))

-----------------------------------------------------------------------------
(***************************************************************************)
(* The end of dialObserved and what Check makes of its result.             *)
(***************************************************************************)
EndDial ==
    /\ pc = "established"
    /\ class' = ClassOf(err, handshakeFailed)
    /\ outcome' = OutcomeOf(err, handshakeFailed, class')
    /\ observed' = "ended"
    /\ pc' = CASE ~setup.check -> "returned"
               [] setup.check /\ err = Nil /\ setup.probe -> "probing"
               [] OTHER -> "closing"
    /\ watcher' = IF pc' = "probing" THEN "armed" ELSE watcher
    /\ health' = IF ~setup.check THEN health
                 ELSE IF err = Nil THEN [state |-> "healthy", class |-> "none"]
                 ELSE Unhealthy(class')
    /\ UNCHANGED <<setup, ctx, conn, err, handshakeFailed>>

-----------------------------------------------------------------------------
(***************************************************************************)
(* The probe, and the AfterFunc that closes the connection under it.       *)
(***************************************************************************)
WatchesStage == Over(StageCtx)
NoWatcher == FALSE
WatcherDue == Over(CheckCtx)

WatcherStarts ==
    /\ watcher = "armed" /\ WatcherDue
    /\ watcher' = "running"
    /\ UNCHANGED <<setup, pc, ctx, conn, err, handshakeFailed, outcome, class, health, observed>>

WatcherCloses ==
    /\ watcher = "running"
    /\ watcher' = "finished"
    /\ conn' = Closed(conn)
    /\ UNCHANGED <<setup, pc, ctx, err, handshakeFailed, outcome, class, health, observed>>

\* The context decides before the assessment does; a panic before either.
ProbeReturns ==
    /\ pc = "probing"
    /\ pc' = "stopping"
    /\ \/ health' = Unhealthy("policy")
       \/ /\ Over(CheckCtx)
          /\ health' = Unhealthy(IF CheckCtx = "canceled" THEN "canceled" ELSE "timeout")
       \/ /\ ~Over(CheckCtx)
          /\ \E state \in States \union {"invalid"}, c \in {"none", "policy"} :
                health' = Assessed(state, c)
    /\ UNCHANGED <<setup, ctx, conn, err, handshakeFailed, outcome, class, watcher, observed>>

\* The deferred stopCancellation; a callback that has started is not awaited.
StopWatcher ==
    /\ pc = "stopping"
    /\ pc' = "closing"
    /\ watcher' = IF watcher = "armed" THEN "idle" ELSE watcher
    /\ UNCHANGED <<setup, ctx, conn, err, handshakeFailed, outcome, class, health, observed>>

\* Check closes the connection, records the health and cancels its context.
FinishCheck ==
    /\ pc = "closing"
    /\ pc' = "returned"
    /\ conn' = Closed(conn)
    /\ ctx' = [ctx EXCEPT !.check = Inherit(@, "released")]
    /\ UNCHANGED <<setup, err, handshakeFailed, outcome, class, health, watcher, observed>>

-----------------------------------------------------------------------------
Statement == StartDial \/ InvokeDialer \/ EndDial \/ StopWatcher \/ FinishCheck

\* The I/O of a probe fails on a closed connection, and on one that honors deadlines
\* when the deadline has passed that probeConnectionSafely gave it.
ProbeUnblocked == conn = "closed" \/ (setup.deadlines /\ CheckCtx = "deadline")

\* Code that honors its context, or is blocked in I/O that fails.
Interrupted ==
    \/ Over(StageCtx) /\ (DialerReturns \/ HandshakeReturns)
    \/ ProbeUnblocked /\ ProbeReturns

Quiet == pc \in {"returned", "unwound"} /\ watcher # "running" /\ UNCHANGED vars

Next ==
    \/ Refuse \/ Statement
    \/ DialerReturns \/ DialerPanics \/ HandshakeReturns \/ HandshakePanics
    \/ ProbeReturns \/ WatcherStarts \/ WatcherCloses
    \/ CheckExpires \/ StageExpires
    \/ \E cause \in Ended : CallerEnds(cause)
    \/ Quiet

Spec == Init /\ [][Next]_vars

\* Go runs a goroutine that can proceed and fires timers.  Dialers and handshakes honor
\* their contexts; a probe need not, but its I/O fails once the connection is closed or,
\* if the connection honors deadlines, past the deadline of the check.
Fairness ==
    /\ WF_vars(Statement) /\ WF_vars(Interrupted)
    /\ WF_vars(WatcherStarts) /\ WF_vars(WatcherCloses)
    /\ WF_vars(CheckExpires) /\ WF_vars(StageExpires)

FairSpec == Spec /\ Fairness

-----------------------------------------------------------------------------
(***************************************************************************)
(* Safety.                                                                 *)
(***************************************************************************)
\* A connection outlives the operation only as the result of a successful dial: not
\* beside an error, after a check or behind a panic (dial.go, connectionOwned; the
\* Close at the end of Check).
ConnectionAccountedFor ==
    pc \in {"returned", "unwound"} /\ conn = "open" => ~setup.check /\ outcome = "success"

\* The timers and callbacks that close connections do not hit one in use: the caller's
\* is open when it is handed over, the probe's as long as the check's context lasts.
InUseIsOpen ==
    \/ pc = "probing" /\ ~Over(CheckCtx)
    \/ pc = "returned" /\ ~setup.check /\ outcome = "success"
    => conn = "open"

\* classifyOutcome and classifyFailure are two walks over the same error chain; what
\* they say of an error with several causes agrees, and so does the health made of it.
OutcomeMatchesClass ==
    pc \in {"probing", "closing", "returned"} /\ observed = "ended" =>
        /\ (outcome = "success") = (class = "none")
        /\ (outcome = "canceled") = (class = "canceled")
        /\ (outcome = "timeout") = (class = "timeout")
        /\ (outcome = "tls_error") = (class = "tls")
        /\ setup.check => (health.state = "healthy") = (health.class = "none")

\* No answer that came in after its context had ended counts: not the custom dialer's,
\* not the handshake's, and not the probe's.
LateAnswersRejected ==
    [][/\ setup.custom /\ pc = "dialing" /\ pc' # pc /\ Over(StageCtx) =>
              pc' = "unwound" \/ err' = {StageCtx}
       /\ pc = "handshaking" /\ pc' # pc /\ Over(StageCtx) =>
              pc' = "unwound" \/ err' = {StageCtx}
       /\ pc = "probing" /\ pc' # pc /\ Over(CheckCtx) => health'.state = "unhealthy"]_vars

\* Every operation an observer was told about ends (observer.go, OperationObservation:
\* "End observes the final operation outcome exactly once").
ObservedOperationsEnd == pc \in {"returned", "unwound"} => observed # "started"

-----------------------------------------------------------------------------
(***************************************************************************)
(* Liveness: a check with a timeout returns, even if its probe ignores the *)
(* context and is blocked on a connection that ignores deadlines.          *)
(***************************************************************************)
Checking == setup.check /\ setup.timeout /\ observed = "started"

CheckReturns == Checking ~> pc \in {"returned", "unwound"}
=============================================================================
