-------------------------- MODULE HttpCheckProofs --------------------------
(***************************************************************************)
(* Proofs about HttpCheck, for any number of concurrent checks, any check  *)
(* configurations, and any bounds on real time and on the clock's error.   *)
(*                                                                         *)
(* What a reader concludes from a stamp rests on a fact about two clocks.  *)
(* The drift of the wall clock, real - wall, grows by exactly what the     *)
(* clock is set back; so since a stamp was made it has grown by at most    *)
(* stepped.  The stamp travels: from the check to the cache to the reader, *)
(* while both clocks move.  What a sanitizer makes of the timestamp does   *)
(* not touch this: the bounds a reader gets are relative to the stamp.     *)
(***************************************************************************)
EXTENDS HttpCheck, TLAPS

\* A moment in the past, stamped by a clock that has drifted by at most stepped since.
Sound(stamp, checked) ==
    /\ stamp \in Int /\ checked \in Nat /\ checked <= real
    /\ (real - wall) - (checked - stamp) <= stepped

HealthOf(state, checkedAt, stamped, checked) ==
    [state |-> state, checkedAt |-> checkedAt, stamped |-> stamped, checked |-> checked]
IsHealth(health) ==
    /\ health = HealthOf(health.state, health.checkedAt, health.stamped, health.checked)
    /\ health.checkedAt \in Int

CheckState ==
    [pc : {"idle", "executing", "draining", "closing", "record", "update", "observe", "returned"},
     ctx : {"none", "live", "over"}, result : Results \union {"none", "request"},
     checkedAt : Int, checked : Nat]

StampInv ==
    /\ config \in Configs
    /\ real \in Nat /\ wall \in Int /\ stepped \in Nat
    /\ Sound(0, 0)
    /\ IsHealth(cache) /\ Sound(cache.stamped, cache.checked)
    /\ IsHealth(reader.health) /\ Sound(reader.health.stamped, reader.health.checked)
    /\ check \in [Checkers -> CheckState]
    /\ \A k \in Checkers : Sound(check[k].checkedAt, check[k].checked)

LEMMA StampInit == Init => StampInv
<1> SUFFICES ASSUME Init PROVE StampInv
  OBVIOUS
<1>1. real = 0 /\ wall = 0 /\ stepped = 0 /\ config \in Configs
  BY DEF Init
<1>2. Sound(0, 0)
  BY <1>1 DEF Sound
<1>3. /\ IsHealth(cache) /\ cache.stamped = 0 /\ cache.checked = 0
      /\ IsHealth(reader.health) /\ reader.health.stamped = 0 /\ reader.health.checked = 0
  BY DEF Init, Unknown, IsHealth, HealthOf, Never
<1>4. /\ check \in [Checkers -> CheckState]
      /\ \A k \in Checkers : check[k].checkedAt = 0 /\ check[k].checked = 0
  <2>1. NoCheck \in CheckState
    BY DEF NoCheck, CheckState
  <2>2. NoCheck.checkedAt = 0 /\ NoCheck.checked = 0
    BY DEF NoCheck
  <2>3. check = [k \in Checkers |-> NoCheck]
    BY DEF Init
  <2> QED
    BY <2>1, <2>2, <2>3
<1> QED
  BY <1>1, <1>2, <1>3, <1>4 DEF StampInv

\* Stamps stay sound while the clocks move, whoever holds them.
LEMMA SoundTick ==
    ASSUME StampInv, NEW a, NEW c, Sound(a, c), Tick
    PROVE  Sound(a, c)'
  BY DEF StampInv, Sound, Tick

LEMMA SoundClockStep ==
    ASSUME StampInv, NEW a, NEW c, Sound(a, c), ClockStep
    PROVE  Sound(a, c)' /\ wall' \in Int /\ stepped' \in Nat
<1>0. real \in Nat /\ wall \in Int /\ stepped \in Nat /\ MaxStep \in Int
  BY CheckAssumption DEF StampInv
<1>1. PICK to \in (real - MaxStep)..(real + MaxStep) :
         /\ wall' = to
         /\ stepped' = stepped + (IF to < wall THEN wall - to ELSE 0)
  BY DEF ClockStep
<1> QED
  BY <1>0, <1>1 DEF Sound, ClockStep

LEMMA StampClocks ==
    ASSUME StampInv, Tick \/ ClockStep
    PROVE  StampInv'
<1>0. /\ UNCHANGED <<config, cache, check, reader>>
      /\ real' \in Nat /\ wall' \in Int /\ stepped' \in Nat
  <2>1. CASE Tick
    BY <2>1 DEF Tick, StampInv
  <2>2. CASE ClockStep
    BY <2>2, SoundClockStep DEF ClockStep, StampInv
  <2> QED
    BY <2>1, <2>2
<1>1. ASSUME NEW a, NEW c, Sound(a, c)
      PROVE  Sound(a, c)'
  BY <1>1, SoundTick, SoundClockStep
<1>2. Sound(cache.stamped, cache.checked)'
  BY <1>0, <1>1 DEF StampInv
<1>3. Sound(reader.health.stamped, reader.health.checked)'
  BY <1>0, <1>1 DEF StampInv
<1>4. ASSUME NEW k \in Checkers
      PROVE  Sound(check[k].checkedAt, check[k].checked)'
  BY <1>0, <1>1 DEF StampInv
<1>5. Sound(0, 0)'
  BY <1>1 DEF StampInv
<1> QED
  BY <1>0, <1>2, <1>3, <1>4, <1>5 DEF StampInv, IsHealth, HealthOf

LEMMA SoundSame ==
    ASSUME NEW a, NEW c, Sound(a, c), UNCHANGED clocks
    PROVE  Sound(a, c)'
  BY DEF Sound, clocks

LEMMA StampAt ==
    ASSUME StampInv, NEW k \in Checkers, NEW s \in CheckState,
           Sound(s.checkedAt, s.checked),
           UNCHANGED <<config, clocks, reader>>, check' = [check EXCEPT ![k] = s],
           IsHealth(cache'), Sound(cache'.stamped, cache'.checked)
    PROVE  StampInv'
<1>1. \A j \in Checkers : check'[j] = IF j = k THEN s ELSE check[j]
  BY DEF StampInv
<1>2. check' \in [Checkers -> CheckState]
  BY DEF StampInv
<1>3. ASSUME NEW j \in Checkers
      PROVE  Sound(check[j].checkedAt, check[j].checked)'
  <2>1. Sound(check'[j].checkedAt, check'[j].checked)
    BY <1>1 DEF StampInv
  <2> QED
    BY <2>1, SoundSame
<1>4. Sound(cache.stamped, cache.checked)' /\ IsHealth(cache)'
  BY SoundSame DEF IsHealth, HealthOf
<1>5. Sound(reader.health.stamped, reader.health.checked)' /\ IsHealth(reader.health)'
  BY SoundSame DEF IsHealth, HealthOf, StampInv
<1>6. Sound(0, 0)'
  BY SoundSame DEF StampInv
<1> QED
  BY <1>2, <1>3, <1>4, <1>5, <1>6 DEF StampInv, clocks

\* A checker that goes on with the stamp it has.
LEMMA StampKept ==
    ASSUME StampInv, NEW k \in Checkers, NEW s \in CheckState,
           s.checkedAt = check[k].checkedAt, s.checked = check[k].checked,
           UNCHANGED <<config, cache, clocks, reader>>, check' = [check EXCEPT ![k] = s]
    PROVE  StampInv'
<1>1. Sound(s.checkedAt, s.checked)
  BY DEF StampInv
<1>2. IsHealth(cache') /\ Sound(cache'.stamped, cache'.checked)
  BY DEF StampInv
<1> QED
  BY <1>1, <1>2, StampAt

\* A checker that is done with it.
LEMMA StampDropped ==
    ASSUME StampInv, NEW k \in Checkers, NEW pc \in {"observe", "returned", "idle"},
           check' = [check EXCEPT ![k] = [NoCheck EXCEPT !.pc = pc]],
           UNCHANGED <<config, clocks, reader>>,
           IsHealth(cache'), Sound(cache'.stamped, cache'.checked)
    PROVE  StampInv'
<1> DEFINE s == [NoCheck EXCEPT !.pc = pc]
<1>1. s \in CheckState /\ s.checkedAt = 0 /\ s.checked = 0
  BY DEF NoCheck, CheckState
<1>2. Sound(s.checkedAt, s.checked)
  BY <1>1 DEF StampInv
<1> QED
  BY <1>1, <1>2, StampAt

\* Whatever a sanitizer returns, the cache keeps the checker's stamp or has none.
LEMMA StampCached ==
    ASSUME StampInv, NEW k \in Checkers, NEW state,
           NEW h \in Sanitized(HealthOf(state, check[k].checkedAt, check[k].checkedAt, check[k].checked))
    PROVE  IsHealth(h) /\ Sound(h.stamped, h.checked)
<1>0. /\ Sound(check[k].checkedAt, check[k].checked) /\ Sound(0, 0)
      /\ check[k].checkedAt \in Int /\ MaxShift \in Int
  BY CheckAssumption DEF StampInv, Sound
<1>1. ASSUME NEW st, NEW at \in Int, h = HealthOf(st, at, check[k].checkedAt, check[k].checked)
      PROVE  IsHealth(h) /\ Sound(h.stamped, h.checked)
  BY <1>0, <1>1 DEF IsHealth, HealthOf
<1>2. CASE h = Unknown
  BY <1>2, <1>0 DEF IsHealth, HealthOf, Unknown, Never
<1>3. CASE h # Unknown
  <2>1. CASE ~config.custom
    BY <1>0, <1>1, <1>3, <2>1 DEF Sanitized
  <2>2. CASE config.custom
    <3>1. h \in [state : Known,
                 checkedAt : {Never} \union
                             (check[k].checkedAt - MaxShift)..(check[k].checkedAt + MaxShift),
                 stamped : {check[k].checkedAt}, checked : {check[k].checked}]
      BY <1>3, <2>2 DEF Sanitized, HealthOf
    <3>2. h.checkedAt \in Int
      BY <1>0, <3>1 DEF Never
    <3>3. h = HealthOf(h.state, h.checkedAt, check[k].checkedAt, check[k].checked)
      BY <3>1 DEF HealthOf
    <3> QED
      BY <1>1, <3>2, <3>3
  <2> QED
    BY <2>1, <2>2
<1> QED
  BY <1>2, <1>3

LEMMA StampChecker ==
    ASSUME StampInv, NEW k \in Checkers,
           \/ Start(k) \/ RefuseRequest(k) \/ Disabled(k) \/ ContextEnds(k)
           \/ DrainEnds(k) \/ CloseBody(k)
           \/ \E result \in Results : ExecutionReturns(k, result)
    PROVE  StampInv'
<1>0. check[k] \in CheckState
  BY DEF StampInv
<1>1. CASE Start(k)
  <2> DEFINE s == [check[k] EXCEPT !.pc = "executing", !.ctx = "live"]
  <2>1. s \in CheckState /\ s.checkedAt = check[k].checkedAt /\ s.checked = check[k].checked
    BY <1>0 DEF CheckState
  <2> QED
    BY <1>1, <2>1, StampKept DEF Start
<1>2. CASE RefuseRequest(k)
  <2> DEFINE s == [check[k] EXCEPT !.pc = "record", !.result = "request"]
  <2>1. s \in CheckState /\ s.checkedAt = check[k].checkedAt /\ s.checked = check[k].checked
    BY <1>0 DEF CheckState
  <2> QED
    BY <1>2, <2>1, StampKept DEF RefuseRequest
<1>3. CASE Disabled(k)
  <2> DEFINE s == [check[k] EXCEPT !.pc = "returned"]
  <2>1. s \in CheckState /\ s.checkedAt = check[k].checkedAt /\ s.checked = check[k].checked
    BY <1>0 DEF CheckState
  <2> QED
    BY <1>3, <2>1, StampKept DEF Disabled
<1>4. CASE ContextEnds(k)
  <2> DEFINE s == [check[k] EXCEPT !.ctx = "over"]
  <2>1. s \in CheckState /\ s.checkedAt = check[k].checkedAt /\ s.checked = check[k].checked
    BY <1>0 DEF CheckState
  <2> QED
    BY <1>4, <2>1, StampKept DEF ContextEnds
<1>5. CASE DrainEnds(k)
  <2> DEFINE s == [check[k] EXCEPT !.pc = "closing"]
  <2>1. s \in CheckState /\ s.checkedAt = check[k].checkedAt /\ s.checked = check[k].checked
    BY <1>0 DEF CheckState
  <2> QED
    BY <1>5, <2>1, StampKept DEF DrainEnds
<1>6. CASE CloseBody(k)
  <2> DEFINE s == [check[k] EXCEPT !.pc = "record", !.ctx = "none"]
  <2>1. s \in CheckState /\ s.checkedAt = check[k].checkedAt /\ s.checked = check[k].checked
    BY <1>0 DEF CheckState
  <2> QED
    BY <1>6, <2>1, StampKept DEF CloseBody
<1>7. ASSUME NEW result \in Results, ExecutionReturns(k, result)
      PROVE  StampInv'
  <2>1. PICK pc \in {"draining", "closing"} :
           check' = [check EXCEPT ![k] = [@ EXCEPT !.pc = pc, !.result = result]]
    BY <1>7 DEF ExecutionReturns
  <2> DEFINE s == [check[k] EXCEPT !.pc = pc, !.result = result]
  <2>2. s \in CheckState /\ s.checkedAt = check[k].checkedAt /\ s.checked = check[k].checked
    BY <1>0 DEF CheckState
  <2> QED
    BY <1>7, <2>1, <2>2, StampKept DEF ExecutionReturns
<1> QED
  BY <1>1, <1>2, <1>3, <1>4, <1>5, <1>6, <1>7

LEMMA StampRecord ==
    ASSUME StampInv, NEW k \in Checkers,
           Stamp(k) \/ UpdateHealth(k) \/ ReturnHealth(k) \/ CallAgain(k)
    PROVE  StampInv'
<1>0. check[k] \in CheckState /\ real \in Nat /\ wall \in Int /\ stepped \in Nat
  BY DEF StampInv
<1>c. IsHealth(cache) /\ Sound(cache.stamped, cache.checked)
  BY DEF StampInv
<1>1. CASE Stamp(k)
  <2> DEFINE s == [check[k] EXCEPT !.pc = "update", !.checkedAt = wall, !.checked = real]
  <2>1. s \in CheckState /\ s.checkedAt = wall /\ s.checked = real
    BY <1>0 DEF CheckState
  <2>2. Sound(s.checkedAt, s.checked)
    BY <1>0, <2>1 DEF Sound
  <2> QED
    BY <1>1, <1>c, <2>1, <2>2, StampAt DEF Stamp
<1>2. CASE UpdateHealth(k)
  <2>1. cache' \in Sanitized(HealthOf(Assessed(check[k].result), check[k].checkedAt,
                                    check[k].checkedAt, check[k].checked))
    BY <1>2 DEF UpdateHealth, HealthOf
  <2>2. IsHealth(cache') /\ Sound(cache'.stamped, cache'.checked)
    BY <2>1, StampCached
  <2> QED
    BY <1>2, <2>2, StampDropped DEF UpdateHealth
<1>3. CASE ReturnHealth(k)
  BY <1>3, <1>c, StampDropped DEF ReturnHealth
<1>4. CASE CallAgain(k)
  <2>1. NoCheck = [NoCheck EXCEPT !.pc = "idle"]
    BY DEF NoCheck
  <2> QED
    BY <1>4, <1>c, <2>1, StampDropped DEF CallAgain
<1> QED
  BY <1>1, <1>2, <1>3, <1>4

LEMMA StampReader ==
    ASSUME StampInv, ReadCache \/ Project
    PROVE  StampInv'
<1>1. /\ UNCHANGED <<config, cache, clocks, check>>
      /\ reader'.health \in {cache, Unknown}
  BY DEF ReadCache, Project
<1>2. IsHealth(reader'.health) /\ Sound(reader'.health.stamped, reader'.health.checked)
  BY <1>1 DEF StampInv, IsHealth, HealthOf, Unknown, Never
<1>3. Sound(reader.health.stamped, reader.health.checked)' /\ IsHealth(reader.health)'
  BY <1>1, <1>2, SoundSame DEF IsHealth, HealthOf
<1>4. Sound(cache.stamped, cache.checked)' /\ IsHealth(cache)'
  BY <1>1, SoundSame DEF IsHealth, HealthOf, StampInv
<1>5. ASSUME NEW j \in Checkers
      PROVE  Sound(check[j].checkedAt, check[j].checked)'
  BY <1>1, SoundSame DEF StampInv
<1>6. Sound(0, 0)'
  BY <1>1, SoundSame DEF StampInv
<1> QED
  BY <1>1, <1>3, <1>4, <1>5, <1>6 DEF StampInv, clocks

LEMMA StampNext ==
    ASSUME StampInv, Next
    PROVE  StampInv'
<1>1. CASE Tick \/ ClockStep
  BY <1>1, StampClocks
<1>2. CASE ReadCache \/ Project
  BY <1>2, StampReader
<1>3. ASSUME NEW k \in Checkers,
             \/ Start(k) \/ RefuseRequest(k) \/ CallAgain(k) \/ Step(k) \/ DrainEnds(k)
             \/ \E result \in Results : ExecutionReturns(k, result)
             \/ TimerFires(k) \/ CallerCancels(k)
      PROVE  StampInv'
  <2>1. ExecutionGivesUp(k) => \E result \in Results : ExecutionReturns(k, result)
    BY DEF ExecutionGivesUp, Results
  <2>2. TimerFires(k) \/ CallerCancels(k) => ContextEnds(k)
    BY DEF TimerFires, CallerCancels
  <2>3. DrainInterrupted(k) => DrainEnds(k)
    BY DEF DrainInterrupted
  <2> QED
    BY <1>3, <2>1, <2>2, <2>3, StampChecker, StampRecord DEF Step
<1> QED
  BY <1>1, <1>2, <1>3 DEF Next

LEMMA StampSame ==
    ASSUME StampInv, UNCHANGED vars
    PROVE  StampInv'
  BY DEF StampInv, Sound, IsHealth, HealthOf, vars, clocks

\* Every stamp, whether a checker, the cache or a reader holds it, is sound.
THEOREM StampsSound == Spec => []StampInv
<1>1. StampInv /\ [Next]_vars => StampInv'
  BY StampNext, StampSame
<1> QED
  BY <1>1, StampInit, PTL DEF Spec

-----------------------------------------------------------------------------
(***************************************************************************)
(* What a reader shows.  Only Project ends a read.                         *)
(***************************************************************************)
LEMMA OnlyProjectShows ==
    ASSUME [Next]_vars, reader.pc = "read", reader'.pc = "idle"
    PROVE  Project
<1>1. ASSUME UNCHANGED reader PROVE FALSE
  BY <1>1
<1>2. Tick \/ ClockStep => UNCHANGED reader
  BY DEF Tick, ClockStep
<1>3. ASSUME NEW k \in Checkers,
             \/ Start(k) \/ RefuseRequest(k) \/ CallAgain(k) \/ Step(k) \/ DrainEnds(k)
             \/ \E result \in Results : ExecutionReturns(k, result)
             \/ TimerFires(k) \/ CallerCancels(k)
      PROVE  UNCHANGED reader
  BY <1>3 DEF Start, RefuseRequest, CallAgain, Step, DrainEnds, ExecutionReturns, TimerFires,
              CallerCancels, ContextEnds, Disabled, ExecutionGivesUp, DrainInterrupted,
              CloseBody, Stamp, UpdateHealth, ReturnHealth
<1>4. ReadCache => reader'.pc = "read"
  BY DEF ReadCache
<1> QED
  BY <1>1, <1>2, <1>3, <1>4 DEF Next, vars

LEMMA StaleAfterInt ==
    ASSUME StampInv
    PROVE  StaleAfter \in Int
  BY CheckAssumption DEF StampInv, StaleAfter, Duration

\* StaleHealthHidden: a health that Client.Health shows as current was assessed at most
\* StaleAfter ago in real time, give or take what the clock was set back and what the
\* sanitizer added to the timestamp, whatever checks recorded meanwhile and however long
\* the reader took between the cache and the clock.
THEOREM StaleIsHidden == Spec => StaleHealthHidden
<1>1. ASSUME StampInv, [Next]_vars,
             reader.pc = "read", reader'.pc = "idle", reader'.shown # "unknown", StaleAfter > 0
      PROVE  real - reader.health.checked <=
                 StaleAfter + stepped + (reader.health.checkedAt - reader.health.stamped)
  <2>1. Project
    BY <1>1, OnlyProjectShows
  <2>2. ProjectStaleness(reader.health, wall) # "unknown"
    BY <1>1, <2>1 DEF Project
  <2>3. StaleAfter \in Int
    BY <1>1, StaleAfterInt
  <2>4. /\ reader.health.checkedAt # Never
        /\ wall - reader.health.checkedAt <= StaleAfter
    BY <1>1, <2>2, <2>3 DEF ProjectStaleness
  <2>5. /\ reader.health.checkedAt \in Int /\ reader.health.checked \in Nat
        /\ reader.health.stamped \in Int
        /\ (real - wall) - (reader.health.checked - reader.health.stamped) <= stepped
        /\ real \in Nat /\ wall \in Int /\ stepped \in Nat
    BY <1>1 DEF StampInv, Sound, IsHealth
  <2> QED
    BY <2>3, <2>4, <2>5
<1>2. StampInv /\ [Next]_vars =>
         [reader.pc = "read" /\ reader'.pc = "idle" /\ reader'.shown # "unknown" /\ StaleAfter > 0 =>
            real - reader.health.checked <=
                StaleAfter + stepped + (reader.health.checkedAt - reader.health.stamped)]_vars
  BY <1>1
<1> QED
  BY <1>2, StampsSound, PTL DEF Spec, StaleHealthHidden

\* CurrentHealthShown: without a jump of the clock, ProjectStaleness keeps every health
\* that is no older than StaleAfter, the last instant included.
THEOREM CurrentIsShown == Spec => CurrentHealthShown
<1>1. ASSUME StampInv, [Next]_vars, reader.pc = "read", reader'.pc = "idle", StaleAfter > 0,
             wall = real, reader.health.checkedAt = reader.health.checked,
             real - reader.health.checked <= StaleAfter
      PROVE  reader'.shown = reader.health.state
  <2>1. reader'.shown = ProjectStaleness(reader.health, wall)
    BY <1>1, OnlyProjectShows DEF Project
  <2>2. /\ reader.health.checkedAt \in Nat /\ reader.health.checkedAt <= real
        /\ reader.health.checkedAt # Never
    BY <1>1 DEF StampInv, Sound, Never
  <2> QED
    BY <1>1, <2>1, <2>2 DEF ProjectStaleness
<1>2. StampInv /\ [Next]_vars =>
         [(/\ reader.pc = "read" /\ reader'.pc = "idle" /\ StaleAfter > 0
           /\ wall = real /\ reader.health.checkedAt = reader.health.checked
           /\ real - reader.health.checked <= StaleAfter)
          => reader'.shown = reader.health.state]_vars
  BY <1>1
<1> QED
  BY <1>2, StampsSound, PTL DEF Spec, CurrentHealthShown
=============================================================================
