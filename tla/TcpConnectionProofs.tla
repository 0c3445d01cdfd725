------------------------ MODULE TcpConnectionProofs ------------------------
(***************************************************************************)
(* Proofs about TcpConnection, for any clients and operations.             *)
(***************************************************************************)
EXTENDS TcpConnection, TLAPS

(***************************************************************************)
(* Where a context may have been released by Clientkit itself.  Without    *)
(* this the types are not inductive: the error of a late answer is the     *)
(* context's, and a released context has none that errors.Is would find.   *)
(***************************************************************************)
Establishing == {"dial", "dialing", "handshaking"}

ContextInv ==
    /\ ctx.check = "released" => pc \in {"returned", "unwound"}
    /\ ctx.stage = "released" => pc \notin {"start"} \union Establishing
    /\ pc = "start" => ctx.check = "absent" /\ ctx.stage = "absent"

\* Who owns the connection.  Until it is established, establishConnection does; then it is
\* open exactly if there is no error, and only Check's own steps and its watcher, which
\* has started only if the check's context is over, close it.
OwnerInv ==
    /\ pc \in {"start", "dial", "dialing"} => conn = "none"
    /\ pc = "handshaking" => conn = "open"
    /\ pc = "established" => (err = Nil <=> conn = "open")
    /\ pc = "probing" => setup.check /\ err = Nil /\ (conn = "open" \/ watcher = "finished")
    /\ pc \in {"stopping", "closing"} => setup.check
    /\ pc = "returned" => (conn = "open" <=> ~setup.check /\ outcome = "success")
    /\ pc = "unwound" => conn # "open"
    /\ watcher # "idle" => setup.check /\ pc \in {"probing", "stopping", "closing", "returned"}
    /\ watcher \in {"running", "finished"} => Over(CheckCtx)

\* What an ended dial reports is read off one error.
ReportInv ==
    /\ pc \in {"start", "established"} \union Establishing => outcome = "none" /\ class = "none"
    /\ observed = "ended" =>
          /\ class = ClassOf(err, handshakeFailed)
          /\ outcome = OutcomeOf(err, handshakeFailed, class)
          /\ setup.check => (health.state = "healthy") = (health.class = "none")
    /\ pc \in {"start"} => observed = "none"
    /\ pc \in Establishing \union {"established"} => observed = "started"
    /\ pc \in {"probing", "stopping", "closing"} => observed = "ended"

IndInv == TypeOK /\ ContextInv /\ OwnerInv /\ ReportInv

(***************************************************************************)
(* The three contexts, and what the steps do to them.                      *)
(***************************************************************************)
Contexts ==
    [caller : {"live"} \union Ended, check : {"absent", "live", "released"} \union Ended,
     stage : {"absent", "live", "released"} \union Ended]

LEMMA ContextsTyped ==
    ASSUME ctx \in Contexts, NEW timeout
    PROVE  /\ StageReleased \in Contexts
           /\ [StageReleased EXCEPT !.check = Inherit(@, "released")] \in Contexts
           /\ Stage(timeout) \in Contexts
           /\ [ctx EXCEPT !.check = "deadline", !.stage = Inherit(@, "deadline")] \in Contexts
<1>1. \A x \in {"absent", "live", "released"} \union Ended :
         /\ Inherit(x, "released") \in {"absent", "live", "released"} \union Ended
         /\ Inherit(x, "deadline") \in {"absent", "live", "released"} \union Ended
  BY DEF Inherit, Ended
<1>2. StageReleased \in Contexts
  BY <1>1 DEF StageReleased, Contexts
<1>3. [StageReleased EXCEPT !.check = Inherit(@, "released")] \in Contexts
  BY <1>1, <1>2 DEF Contexts
<1>4. CheckCtx \in {"absent", "live", "released"} \union Ended
  BY DEF CheckCtx, Contexts
<1>5. Stage(timeout) \in Contexts
  BY <1>4 DEF Stage, Contexts
<1>6. [ctx EXCEPT !.check = "deadline", !.stage = Inherit(@, "deadline")] \in Contexts
  BY <1>1 DEF Contexts, Ended
<1> QED
  BY <1>2, <1>3, <1>5, <1>6

\* While a connection is being established, its context is over only by an end that
\* errors.Is finds in the error made of it.
LEMMA LateErrorTyped ==
    ASSUME TypeOK, ContextInv, pc \in Establishing, Over(StageCtx)
    PROVE  {StageCtx} \subseteq Traits /\ {StageCtx} # Nil
<1>1. StageCtx \in Ended
  BY DEF TypeOK, ContextInv, Establishing, Over, StageCtx, CheckCtx, Ended
<1> QED
  BY <1>1 DEF Ended, Traits, Nil

\* The two ways out of establishConnection are well-typed.
LEMMA EstablishTyped ==
    ASSUME TypeOK, NEW c \in {"none", "open", "closed"}, NEW e \in SUBSET Traits,
           NEW inHandshake \in BOOLEAN, Establish(c, e, inHandshake)
    PROVE  TypeOK'
<1>1. ctx' \in Contexts
  BY ContextsTyped DEF TypeOK, Contexts, Establish
<1>2. handshakeFailed' \in BOOLEAN
  BY Zenon DEF Establish
<1> QED
  BY <1>1, <1>2 DEF TypeOK, Contexts, Establish

LEMMA UnwindTyped ==
    ASSUME TypeOK, NEW c \in {"none", "open", "closed"}, Unwind(c)
    PROVE  TypeOK'
<1>1. ctx' \in Contexts
  BY ContextsTyped DEF TypeOK, Contexts, Unwind
<1> QED
  BY <1>1 DEF TypeOK, Contexts, Unwind

(***************************************************************************)
(* One step.                                                               *)
(***************************************************************************)
LEMMA CallerEndsInv ==
    ASSUME IndInv, NEW cause \in Ended, CallerEnds(cause)
    PROVE  IndInv'
<1>1. TypeOK'
  BY DEF CallerEnds, IndInv, TypeOK, ContextInv, Nil, Traits, Establishing, Inherit, Stage,
         StageReleased, CheckCtx, StageCtx, Over, Ended
<1>2. ContextInv'
  BY DEF CallerEnds, IndInv, TypeOK, ContextInv, Establishing, Inherit, Stage, StageReleased,
         CheckCtx, StageCtx, Over, Ended
<1>3. OwnerInv'
  BY DEF CallerEnds, IndInv, TypeOK, ContextInv, OwnerInv, ReportInv, Nil, Establishing, Inherit,
         Stage, StageReleased, CheckCtx, StageCtx, Over, Ended
<1>4. ReportInv'
  BY DEF CallerEnds, IndInv, TypeOK, ContextInv, OwnerInv, ReportInv, Nil, Establishing
<1> QED
  BY <1>1, <1>2, <1>3, <1>4 DEF IndInv

LEMMA CheckExpiresInv ==
    ASSUME IndInv, CheckExpires
    PROVE  IndInv'
<1>1. TypeOK'
  BY ContextsTyped DEF CheckExpires, IndInv, TypeOK, Contexts
<1>2. ContextInv'
  BY DEF CheckExpires, IndInv, TypeOK, ContextInv, Establishing, Inherit, Stage, StageReleased,
         CheckCtx, StageCtx, Over, Ended
<1>3. OwnerInv'
  BY DEF CheckExpires, IndInv, TypeOK, ContextInv, OwnerInv, ReportInv, Nil, Establishing,
         Inherit, Stage, StageReleased, CheckCtx, StageCtx, Over, Ended
<1>4. ReportInv'
  BY DEF CheckExpires, IndInv, TypeOK, ContextInv, OwnerInv, ReportInv, Nil, Establishing
<1> QED
  BY <1>1, <1>2, <1>3, <1>4 DEF IndInv

LEMMA StageExpiresInv ==
    ASSUME IndInv, StageExpires
    PROVE  IndInv'
<1>1. TypeOK'
  BY DEF StageExpires, IndInv, TypeOK, ContextInv, Nil, Traits, Establishing, Inherit, Stage,
         StageReleased, CheckCtx, StageCtx, Over, Ended
<1>2. ContextInv'
  BY DEF StageExpires, IndInv, TypeOK, ContextInv, Establishing, Inherit, Stage, StageReleased,
         CheckCtx, StageCtx, Over, Ended
<1>3. OwnerInv'
  BY DEF StageExpires, IndInv, TypeOK, ContextInv, OwnerInv, ReportInv, Nil, Establishing,
         Inherit, Stage, StageReleased, CheckCtx, StageCtx, Over, Ended
<1>4. ReportInv'
  BY DEF StageExpires, IndInv, TypeOK, ContextInv, OwnerInv, ReportInv, Nil, Establishing
<1> QED
  BY <1>1, <1>2, <1>3, <1>4 DEF IndInv

LEMMA RefuseInv ==
    ASSUME IndInv, Refuse
    PROVE  IndInv'
<1>1. TypeOK'
  BY DEF Refuse, IndInv, TypeOK, ContextInv, Nil, Traits, Establishing, Inherit, Stage,
         StageReleased, CheckCtx, StageCtx, Over, Ended, Assessed, Unhealthy, NoHealth, States,
         HealthClasses
<1>2. ContextInv'
  BY DEF Refuse, IndInv, TypeOK, ContextInv, Establishing, Inherit, Stage, StageReleased,
         CheckCtx, StageCtx, Over, Ended
<1>3. OwnerInv'
  BY DEF Refuse, IndInv, TypeOK, ContextInv, OwnerInv, ReportInv, Nil, Establishing, Inherit,
         Stage, StageReleased, CheckCtx, StageCtx, Over, Ended
<1>4. ReportInv'
  BY DEF Refuse, IndInv, TypeOK, ContextInv, OwnerInv, ReportInv, Nil, Establishing, Assessed,
         Unhealthy, NoHealth, States, HealthClasses
<1> QED
  BY <1>1, <1>2, <1>3, <1>4 DEF IndInv

LEMMA StartDialInv ==
    ASSUME IndInv, StartDial
    PROVE  IndInv'
<1>1. TypeOK'
  BY DEF StartDial, IndInv, TypeOK, ContextInv, Nil, Traits, Establishing, Inherit, Stage,
         StageReleased, CheckCtx, StageCtx, Over, Ended
<1>2. ContextInv'
  BY DEF StartDial, IndInv, TypeOK, ContextInv, Establishing, Inherit, Stage, StageReleased,
         CheckCtx, StageCtx, Over, Ended
<1>3. OwnerInv'
  BY DEF StartDial, IndInv, TypeOK, ContextInv, OwnerInv, ReportInv, Nil, Establishing, Inherit,
         Stage, StageReleased, CheckCtx, StageCtx, Over, Ended
<1>4. ReportInv'
  BY DEF StartDial, IndInv, TypeOK, ContextInv, OwnerInv, ReportInv, Nil, Establishing
<1> QED
  BY <1>1, <1>2, <1>3, <1>4 DEF IndInv

LEMMA InvokeDialerInv ==
    ASSUME IndInv, InvokeDialer
    PROVE  IndInv'
<1>1. TypeOK'
  <2>1. CASE setup.custom /\ Over(StageCtx)
    BY <2>1, LateErrorTyped, EstablishTyped DEF InvokeDialer, IndInv, Establishing
  <2>2. CASE ~(setup.custom /\ Over(StageCtx))
    BY <2>2 DEF InvokeDialer, IndInv, TypeOK
  <2> QED
    BY <2>1, <2>2
<1>2. ContextInv'
  BY DEF InvokeDialer, IndInv, TypeOK, ContextInv, Establishing, Inherit, Stage, StageReleased,
         CheckCtx, StageCtx, Over, Ended, Establish, Unwind, Handshake, Closed, OwnedConnection,
         DialTooLate
<1>3. OwnerInv'
  BY DEF InvokeDialer, IndInv, TypeOK, ContextInv, OwnerInv, ReportInv, Nil, Establishing,
         Inherit, Stage, StageReleased, CheckCtx, StageCtx, Over, Ended, Establish, Unwind,
         Handshake, Closed, OwnedConnection, DialTooLate
<1>4. ReportInv'
  BY DEF InvokeDialer, IndInv, TypeOK, ContextInv, OwnerInv, ReportInv, Nil, Establishing,
         Establish, Unwind, Handshake, Closed, OwnedConnection, DialTooLate
<1> QED
  BY <1>1, <1>2, <1>3, <1>4 DEF IndInv

LEMMA DialerReturnsInv ==
    ASSUME IndInv, DialerReturns
    PROVE  IndInv'
<1>1. TypeOK'
  <2>1. PICK c \in {"none", "open"}, e \in SUBSET (Traits \ {"noConnection"}) :
           \/ DialTooLate /\ Establish(Closed(c), {StageCtx}, FALSE)
           \/ Establish(Closed(c), e, FALSE)
           \/ Establish(c, {"noConnection"}, FALSE)
           \/ Handshake \/ Establish(c, Nil, FALSE)
    BY DEF DialerReturns
  <2>2. Closed(c) \in {"none", "open", "closed"} /\ {"noConnection"} \in SUBSET Traits
    BY DEF Closed, Traits
  <2>3. CASE DialTooLate /\ Establish(Closed(c), {StageCtx}, FALSE)
    BY <2>2, <2>3, LateErrorTyped, EstablishTyped DEF DialerReturns, DialTooLate, IndInv,
           Establishing
  <2>4. CASE Handshake
    BY <2>4, ContextsTyped DEF Handshake, IndInv, TypeOK, Contexts
  <2> QED
    BY <2>1, <2>2, <2>3, <2>4, EstablishTyped DEF IndInv, Nil
<1>2. ContextInv'
  BY DEF DialerReturns, IndInv, TypeOK, ContextInv, Establishing, Inherit, Stage, StageReleased,
         CheckCtx, StageCtx, Over, Ended, Establish, Unwind, Handshake, Closed, OwnedConnection,
         DialTooLate
<1>3. OwnerInv'
  BY DEF DialerReturns, IndInv, TypeOK, ContextInv, OwnerInv, ReportInv, Nil, Establishing,
         Inherit, Stage, StageReleased, CheckCtx, StageCtx, Over, Ended, Establish, Unwind,
         Handshake, Closed, OwnedConnection, DialTooLate
<1>4. ReportInv'
  BY DEF DialerReturns, IndInv, TypeOK, ContextInv, OwnerInv, ReportInv, Nil, Establishing,
         Establish, Unwind, Handshake, Closed, OwnedConnection, DialTooLate
<1> QED
  BY <1>1, <1>2, <1>3, <1>4 DEF IndInv

LEMMA DialerPanicsInv ==
    ASSUME IndInv, DialerPanics
    PROVE  IndInv'
<1>1. TypeOK'
  BY UnwindTyped DEF DialerPanics, IndInv
<1>2. ContextInv'
  BY DEF DialerPanics, IndInv, TypeOK, ContextInv, Establishing, Inherit, Stage, StageReleased,
         CheckCtx, StageCtx, Over, Ended, Establish, Unwind, Handshake, Closed, OwnedConnection,
         DialTooLate
<1>3. OwnerInv'
  BY DEF DialerPanics, IndInv, TypeOK, ContextInv, OwnerInv, ReportInv, Nil, Establishing,
         Inherit, Stage, StageReleased, CheckCtx, StageCtx, Over, Ended, Establish, Unwind,
         Handshake, Closed, OwnedConnection, DialTooLate
<1>4. ReportInv'
  BY DEF DialerPanics, IndInv, TypeOK, ContextInv, OwnerInv, ReportInv, Nil, Establishing,
         Establish, Unwind, Handshake, Closed, OwnedConnection, DialTooLate
<1> QED
  BY <1>1, <1>2, <1>3, <1>4 DEF IndInv

LEMMA HandshakeReturnsInv ==
    ASSUME IndInv, HandshakeReturns
    PROVE  IndInv'
<1>1. TypeOK'
  <2>1. /\ OwnedConnection(conn) \in {"none", "open", "closed"}
        /\ conn \in {"none", "open", "closed"} /\ Nil \in SUBSET Traits
    BY DEF IndInv, TypeOK, OwnedConnection, Closed, Nil
  <2>2. CASE Over(StageCtx) /\ Establish(OwnedConnection(conn), {StageCtx}, TRUE)
    BY <2>1, <2>2, LateErrorTyped, EstablishTyped DEF HandshakeReturns, IndInv, Establishing
  <2>3. CASE Establish(conn, Nil, TRUE)
    BY <2>1, <2>3, EstablishTyped DEF IndInv
  <2>4. ASSUME NEW e \in (SUBSET (Traits \ {"noConnection"})) \ {Nil},
               Establish(OwnedConnection(conn), e, TRUE)
        PROVE  TypeOK'
    BY <2>1, <2>4, EstablishTyped DEF IndInv
  <2> QED
    BY <2>2, <2>3, <2>4 DEF HandshakeReturns
<1>2. ContextInv'
  BY DEF HandshakeReturns, IndInv, TypeOK, ContextInv, Establishing, Inherit, Stage,
         StageReleased, CheckCtx, StageCtx, Over, Ended, Establish, Unwind, Handshake, Closed,
         OwnedConnection, DialTooLate
<1>3. OwnerInv'
  <2>1. conn = "open" /\ watcher = "idle"
    BY DEF HandshakeReturns, IndInv, OwnerInv
  <2>2. Over(StageCtx) => {StageCtx} # Nil
    BY DEF Nil
  <2>3. pc' = "established" /\ UNCHANGED watcher
    BY DEF HandshakeReturns, Establish
  <2>4. OwnedConnection(conn) # "open"
    BY DEF OwnedConnection, Closed
  <2>5. err' = Nil <=> conn' = "open"
    <3>1. CASE Establish(conn, Nil, TRUE)
      BY <2>1, <3>1 DEF Establish
    <3>2. CASE Over(StageCtx) /\ Establish(OwnedConnection(conn), {StageCtx}, TRUE)
      BY <2>2, <2>4, <3>2 DEF Establish
    <3>3. ASSUME NEW e \in (SUBSET (Traits \ {"noConnection"})) \ {Nil},
                 Establish(OwnedConnection(conn), e, TRUE)
          PROVE  err' = Nil <=> conn' = "open"
      BY <2>4, <3>3 DEF Establish
    <3> QED
      BY <3>1, <3>2, <3>3 DEF HandshakeReturns
  <2> QED
    BY <2>1, <2>3, <2>5 DEF OwnerInv
<1>4. ReportInv'
  BY DEF HandshakeReturns, IndInv, TypeOK, ContextInv, OwnerInv, ReportInv, Nil, Establishing,
         Establish, Unwind, Handshake, Closed, OwnedConnection, DialTooLate
<1> QED
  BY <1>1, <1>2, <1>3, <1>4 DEF IndInv

LEMMA HandshakePanicsInv ==
    ASSUME IndInv, HandshakePanics
    PROVE  IndInv'
<1>1. TypeOK'
  BY UnwindTyped DEF HandshakePanics, IndInv, TypeOK, OwnedConnection, Closed
<1>2. ContextInv'
  BY DEF HandshakePanics, IndInv, TypeOK, ContextInv, Establishing, Inherit, Stage, StageReleased,
         CheckCtx, StageCtx, Over, Ended, Establish, Unwind, Handshake, Closed, OwnedConnection,
         DialTooLate
<1>3. OwnerInv'
  BY DEF HandshakePanics, IndInv, TypeOK, ContextInv, OwnerInv, ReportInv, Nil, Establishing,
         Inherit, Stage, StageReleased, CheckCtx, StageCtx, Over, Ended, Establish, Unwind,
         Handshake, Closed, OwnedConnection, DialTooLate
<1>4. ReportInv'
  BY DEF HandshakePanics, IndInv, TypeOK, ContextInv, OwnerInv, ReportInv, Nil, Establishing,
         Establish, Unwind, Handshake, Closed, OwnedConnection, DialTooLate
<1> QED
  BY <1>1, <1>2, <1>3, <1>4 DEF IndInv

LEMMA EndDialInv ==
    ASSUME IndInv, EndDial
    PROVE  IndInv'
<1>1. TypeOK'
  BY DEF EndDial, IndInv, TypeOK, ContextInv, Nil, Traits, Establishing, Inherit, Stage,
         StageReleased, CheckCtx, StageCtx, Over, Ended, Assessed, Unhealthy, NoHealth, States,
         HealthClasses, ClassOf, OutcomeOf, Canceled, TimedOut, Failed
<1>2. ContextInv'
  BY DEF EndDial, IndInv, TypeOK, ContextInv, Establishing, Inherit, Stage, StageReleased,
         CheckCtx, StageCtx, Over, Ended
<1>3. OwnerInv'
  BY DEF EndDial, IndInv, TypeOK, ContextInv, OwnerInv, ReportInv, Nil, Establishing, Inherit,
         Stage, StageReleased, CheckCtx, StageCtx, Over, Ended, ClassOf, OutcomeOf, Canceled,
         TimedOut, Failed
<1>4. ReportInv'
  BY DEF EndDial, IndInv, TypeOK, ContextInv, OwnerInv, ReportInv, Nil, Establishing, Assessed,
         Unhealthy, NoHealth, States, HealthClasses, ClassOf, OutcomeOf, Canceled, TimedOut,
         Failed
<1> QED
  BY <1>1, <1>2, <1>3, <1>4 DEF IndInv

LEMMA WatcherStartsInv ==
    ASSUME IndInv, WatcherStarts
    PROVE  IndInv'
<1>1. TypeOK'
  BY DEF WatcherStarts, IndInv, TypeOK, ContextInv, Nil, Traits, Establishing, Inherit, Stage,
         StageReleased, CheckCtx, StageCtx, Over, Ended, WatcherDue
<1>2. ContextInv'
  BY DEF WatcherStarts, IndInv, TypeOK, ContextInv, Establishing, Inherit, Stage, StageReleased,
         CheckCtx, StageCtx, Over, Ended, WatcherDue
<1>3. OwnerInv'
  BY DEF WatcherStarts, IndInv, TypeOK, ContextInv, OwnerInv, ReportInv, Nil, Establishing,
         Inherit, Stage, StageReleased, CheckCtx, StageCtx, Over, Ended, WatcherDue
<1>4. ReportInv'
  BY DEF WatcherStarts, IndInv, TypeOK, ContextInv, OwnerInv, ReportInv, Nil, Establishing,
         WatcherDue
<1> QED
  BY <1>1, <1>2, <1>3, <1>4 DEF IndInv

LEMMA WatcherClosesInv ==
    ASSUME IndInv, WatcherCloses
    PROVE  IndInv'
<1>1. TypeOK'
  BY DEF WatcherCloses, IndInv, TypeOK, ContextInv, Nil, Traits, Establishing, Inherit, Stage,
         StageReleased, CheckCtx, StageCtx, Over, Ended, Closed
<1>2. ContextInv'
  BY DEF WatcherCloses, IndInv, TypeOK, ContextInv, Establishing, Inherit, Stage, StageReleased,
         CheckCtx, StageCtx, Over, Ended, Closed
<1>3. OwnerInv'
  BY DEF WatcherCloses, IndInv, TypeOK, ContextInv, OwnerInv, ReportInv, Nil, Establishing,
         Inherit, Stage, StageReleased, CheckCtx, StageCtx, Over, Ended, Closed
<1>4. ReportInv'
  BY DEF WatcherCloses, IndInv, TypeOK, ContextInv, OwnerInv, ReportInv, Nil, Establishing, Closed
<1> QED
  BY <1>1, <1>2, <1>3, <1>4 DEF IndInv

LEMMA ProbeReturnsInv ==
    ASSUME IndInv, ProbeReturns
    PROVE  IndInv'
<1>1. TypeOK'
  BY DEF ProbeReturns, IndInv, TypeOK, ContextInv, Nil, Traits, Establishing, Inherit, Stage,
         StageReleased, CheckCtx, StageCtx, Over, Ended, Assessed, Unhealthy, NoHealth, States,
         HealthClasses
<1>2. ContextInv'
  BY DEF ProbeReturns, IndInv, TypeOK, ContextInv, Establishing, Inherit, Stage, StageReleased,
         CheckCtx, StageCtx, Over, Ended
<1>3. OwnerInv'
  BY DEF ProbeReturns, IndInv, TypeOK, ContextInv, OwnerInv, ReportInv, Nil, Establishing,
         Inherit, Stage, StageReleased, CheckCtx, StageCtx, Over, Ended
<1>4. ReportInv'
  BY DEF ProbeReturns, IndInv, TypeOK, ContextInv, OwnerInv, ReportInv, Nil, Establishing,
         Assessed, Unhealthy, NoHealth, States, HealthClasses
<1> QED
  BY <1>1, <1>2, <1>3, <1>4 DEF IndInv

LEMMA StopWatcherInv ==
    ASSUME IndInv, StopWatcher
    PROVE  IndInv'
<1>1. TypeOK'
  BY DEF StopWatcher, IndInv, TypeOK, ContextInv, Nil, Traits, Establishing, Inherit, Stage,
         StageReleased, CheckCtx, StageCtx, Over, Ended
<1>2. ContextInv'
  BY DEF StopWatcher, IndInv, TypeOK, ContextInv, Establishing, Inherit, Stage, StageReleased,
         CheckCtx, StageCtx, Over, Ended
<1>3. OwnerInv'
  BY DEF StopWatcher, IndInv, TypeOK, ContextInv, OwnerInv, ReportInv, Nil, Establishing, Inherit,
         Stage, StageReleased, CheckCtx, StageCtx, Over, Ended
<1>4. ReportInv'
  BY DEF StopWatcher, IndInv, TypeOK, ContextInv, OwnerInv, ReportInv, Nil, Establishing
<1> QED
  BY <1>1, <1>2, <1>3, <1>4 DEF IndInv

LEMMA FinishCheckInv ==
    ASSUME IndInv, FinishCheck
    PROVE  IndInv'
<1>1. TypeOK'
  BY DEF FinishCheck, IndInv, TypeOK, ContextInv, Nil, Traits, Establishing, Inherit, Stage,
         StageReleased, CheckCtx, StageCtx, Over, Ended, Closed
<1>2. ContextInv'
  BY DEF FinishCheck, IndInv, TypeOK, ContextInv, Establishing, Inherit, Stage, StageReleased,
         CheckCtx, StageCtx, Over, Ended, Closed
<1>3. OwnerInv'
  BY DEF FinishCheck, IndInv, TypeOK, ContextInv, OwnerInv, ReportInv, Nil, Establishing, Inherit,
         Stage, StageReleased, CheckCtx, StageCtx, Over, Ended, Closed
<1>4. ReportInv'
  BY DEF FinishCheck, IndInv, TypeOK, ContextInv, OwnerInv, ReportInv, Nil, Establishing, Closed
<1> QED
  BY <1>1, <1>2, <1>3, <1>4 DEF IndInv

LEMMA IndInvInit == Init => IndInv
<1> SUFFICES ASSUME Init PROVE IndInv
  OBVIOUS
<1>1. TypeOK
  BY SetupsAssumption DEF Init, TypeOK, Ended, Nil, NoHealth, States, HealthClasses
<1>2. ContextInv /\ OwnerInv
  BY DEF Init, ContextInv, OwnerInv, Establishing
<1>3. ReportInv
  BY DEF Init, ReportInv, Establishing
<1> QED
  BY <1>1, <1>2, <1>3 DEF IndInv

LEMMA IndInvNext == ASSUME IndInv, [Next]_vars PROVE IndInv'
<1>1. CASE UNCHANGED vars
  BY <1>1 DEF IndInv, TypeOK, ContextInv, OwnerInv, ReportInv, vars, Over, CheckCtx
<1>2. CASE Next
  BY <1>1, <1>2, CallerEndsInv, CheckExpiresInv, StageExpiresInv, RefuseInv, StartDialInv,
     InvokeDialerInv, DialerReturnsInv, DialerPanicsInv, HandshakeReturnsInv, HandshakePanicsInv,
     EndDialInv, WatcherStartsInv, WatcherClosesInv, ProbeReturnsInv, StopWatcherInv, FinishCheckInv
     DEF Next, Statement, Quiet
<1> QED
  BY <1>1, <1>2

LEMMA IndInvAlways == Spec => []IndInv
  BY IndInvInit, IndInvNext, PTL DEF Spec

\* TypeOK: in particular the error of every late answer is one that errors.Is recognizes.
THEOREM TypesCorrect == Spec => []TypeOK
<1>1. IndInv => TypeOK
  BY DEF IndInv
<1> QED
  BY <1>1, IndInvAlways, PTL

\* ConnectionAccountedFor: establishConnection, the end of Check and the watcher close every
\* connection but the one a successful DialResult returns.
THEOREM ConnectionsAccountedFor == Spec => []ConnectionAccountedFor
<1>1. IndInv => ConnectionAccountedFor
  BY DEF IndInv, OwnerInv, ConnectionAccountedFor
<1> QED
  BY <1>1, IndInvAlways, PTL

\* InUseIsOpen: no deferred Close, timer or AfterFunc closes a connection that is in use.
THEOREM ConnectionsInUseOpen == Spec => []InUseIsOpen
<1>1. IndInv => InUseIsOpen
  BY DEF IndInv, OwnerInv, InUseIsOpen
<1> QED
  BY <1>1, IndInvAlways, PTL

\* The two classifications agree about any error, whatever it wraps.
LEMMA ClassificationsAgree ==
    ASSUME NEW e, NEW tlsStage \in BOOLEAN, NEW c, c = ClassOf(e, tlsStage)
    PROVE  /\ (OutcomeOf(e, tlsStage, c) = "success") = (c = "none")
           /\ (OutcomeOf(e, tlsStage, c) = "canceled") = (c = "canceled")
           /\ (OutcomeOf(e, tlsStage, c) = "timeout") = (c = "timeout")
           /\ (OutcomeOf(e, tlsStage, c) = "tls_error") = (c = "tls")
  BY DEF ClassOf, OutcomeOf, Failed, TimedOut, Canceled, Nil

\* OutcomeMatchesClass: classifyFailure, classifyOutcome and the health made of them agree
\* for every set of causes an error may wrap.
THEOREM OutcomesMatchClasses == Spec => []OutcomeMatchesClass
<1>1. ASSUME IndInv, observed = "ended"
      PROVE  /\ (outcome = "success") = (class = "none")
             /\ (outcome = "canceled") = (class = "canceled")
             /\ (outcome = "timeout") = (class = "timeout")
             /\ (outcome = "tls_error") = (class = "tls")
             /\ setup.check => (health.state = "healthy") = (health.class = "none")
  <2>1. handshakeFailed \in BOOLEAN /\ class = ClassOf(err, handshakeFailed)
    BY <1>1 DEF IndInv, TypeOK, ReportInv
  <2>2. /\ outcome = OutcomeOf(err, handshakeFailed, class)
        /\ setup.check => (health.state = "healthy") = (health.class = "none")
    BY <1>1 DEF IndInv, ReportInv
  <2> QED
    BY <2>1, <2>2, ClassificationsAgree
<1>2. IndInv => OutcomeMatchesClass
  BY <1>1 DEF OutcomeMatchesClass
<1> QED
  BY <1>2, IndInvAlways, PTL

-----------------------------------------------------------------------------
(***************************************************************************)
(* Late answers.  What leaves each of the three waits, and with what.      *)
(***************************************************************************)
LEMMA LeavesDialing ==
    ASSUME [Next]_vars, setup.custom, pc = "dialing", pc' # pc, Over(StageCtx)
    PROVE  pc' = "unwound" \/ err' = {StageCtx}
<1>1. DialerReturns \/ DialerPanics
  BY DEF Next, vars, Refuse, Statement, StartDial, InvokeDialer, EndDial, StopWatcher, FinishCheck,
         HandshakeReturns, HandshakePanics, ProbeReturns, WatcherStarts, WatcherCloses,
         CheckExpires, StageExpires, CallerEnds, Quiet
<1>2. DialerReturns => \E c \in {"none", "open"} : Establish(Closed(c), {StageCtx}, FALSE)
  BY DEF DialerReturns, DialTooLate
<1> QED
  BY <1>1, <1>2 DEF DialerPanics, Unwind, Establish

LEMMA LeavesHandshake ==
    ASSUME [Next]_vars, pc = "handshaking", pc' # pc, Over(StageCtx)
    PROVE  pc' = "unwound" \/ err' = {StageCtx}
<1>1. HandshakeReturns \/ HandshakePanics
  BY DEF Next, vars, Refuse, Statement, StartDial, InvokeDialer, EndDial, StopWatcher, FinishCheck,
         DialerReturns, DialerPanics, ProbeReturns, WatcherStarts, WatcherCloses,
         CheckExpires, StageExpires, CallerEnds, Quiet
<1> QED
  BY <1>1 DEF HandshakeReturns, HandshakePanics, Unwind, Establish

LEMMA LeavesProbe ==
    ASSUME [Next]_vars, pc = "probing", pc' # pc, Over(CheckCtx)
    PROVE  health'.state = "unhealthy"
<1>1. ProbeReturns
  BY DEF Next, vars, Refuse, Statement, StartDial, InvokeDialer, EndDial, StopWatcher, FinishCheck,
         DialerReturns, DialerPanics, HandshakeReturns, HandshakePanics, WatcherStarts,
         WatcherCloses, CheckExpires, StageExpires, CallerEnds, Quiet
<1> QED
  BY <1>1 DEF ProbeReturns, Unhealthy

\* LateAnswersRejected: a connection, a handshake or an assessment that comes back after
\* its context has ended is not used (dial.go, check.go: the context is asked first).
THEOREM LateAnswersAreRejected == Spec => LateAnswersRejected
<1>1. [Next]_vars =>
        [/\ setup.custom /\ pc = "dialing" /\ pc' # pc /\ Over(StageCtx) =>
              pc' = "unwound" \/ err' = {StageCtx}
         /\ pc = "handshaking" /\ pc' # pc /\ Over(StageCtx) =>
              pc' = "unwound" \/ err' = {StageCtx}
         /\ pc = "probing" /\ pc' # pc /\ Over(CheckCtx) => health'.state = "unhealthy"]_vars
  BY LeavesDialing, LeavesHandshake, LeavesProbe
<1> QED
  BY <1>1, PTL DEF Spec, LateAnswersRejected
=============================================================================
