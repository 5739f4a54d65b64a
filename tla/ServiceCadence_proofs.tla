------------------------ MODULE ServiceCadence_proofs ------------------------
(***************************************************************************)
(* The timers keep pace for every set of timers, all intervals and delays, *)
(* and every length of a round.                                            *)
(***************************************************************************)
EXTENDS ServiceCadence, TLAPS

\* How the ticks h that a timer has waited relate to its clock.  Below its interval
\* the clock counts at least as many; from there on only the current round adds.
InStep(h, t) ==
  /\ ~Ready(t) => h = 0
  /\ since[t] < Interval[t] => h <= since[t]
  /\ open => h <= Interval[t] - 1 + waited
  /\ h < Overdue(t)

IInv ==
  /\ TypeOK
  /\ \A t \in {"ping", "isr"} : InStep(silent[t], t)
  /\ \A t \in Timers : InStep(idle[t], t)
  /\ ReportedWasObserved

-----------------------------------------------------------------------------
(* Arithmetic of the bounds                                                *)

LEMMA CappedBound ==
  ASSUME NEW n \in Nat, NEW max \in Nat
  PROVE  /\ Capped(n, max) \in Nat
         /\ Capped(n, max) <= max
         /\ Capped(n, max) <= n
         /\ Capped(n, max) = max \/ Capped(n, max) = n
BY DEF Capped

LEMMA ConstantTypes ==
  /\ MaxAge \in Nat
  /\ \A t \in Timers : /\ Interval[t] \in Nat \ {0}
                       /\ Delay[t] \in Nat
                       /\ Delay[t] <= MaxAge
                       /\ Overdue(t) \in Nat
                       /\ Interval[t] < Overdue(t)
<1>1. \A t \in Timers : Interval[t] \in Nat \ {0} /\ Delay[t] \in Nat
  BY CadenceAssumption
<1>2. /\ Delay["heartbeat"] \in Nat /\ Delay["ping"] \in Nat
      /\ Delay["isr"] \in Nat /\ Delay["physics"] \in Nat
  BY <1>1 DEF Timers
<1>3. MaxAge \in Nat
  BY <1>2 DEF MaxAge
<1>4. ASSUME NEW t \in Timers
      PROVE  Delay[t] <= MaxAge
  BY <1>2 DEF Timers, MaxAge
<1>5. ASSUME NEW t \in Timers
      PROVE  Overdue(t) \in Nat /\ Interval[t] < Overdue(t)
  BY <1>1, CadenceAssumption DEF Overdue
<1> QED
  BY <1>1, <1>3, <1>4, <1>5

\* The first ping pair and the first heartbeat only recede.
LEMMA OlderBound ==
  ASSUME NEW n \in Never .. Gate
  PROVE  Older(n) \in Never .. Gate /\ n <= Older(n)
BY CadenceAssumption DEF Older, Capped, Never

-----------------------------------------------------------------------------
(* The types                                                               *)

LEMMA TypeStep == TypeOK /\ [Next]_vars => TypeOK'
<1> SUFFICES ASSUME TypeOK, [Next]_vars
             PROVE  TypeOK'
  OBVIOUS
<1> USE CadenceAssumption, ConstantTypes
<1>1. CASE Tick
  <2>1. /\ open' = open /\ looping' = looping
        /\ authenticated' = authenticated /\ registered' = registered
        /\ span' = span /\ reported' = reported
    BY <1>1 DEF Tick, flags
  <2>2. waited' \in 0 .. ReceiveInterval
    BY <1>1 DEF Tick, TypeOK
  <2>3. age' \in 0 .. MaxAge
    BY <1>1 DEF Tick, TypeOK, Capped
  <2>4. since' \in [Timers -> Nat] /\ \A t \in Timers : since'[t] <= Interval[t]
    BY <1>1 DEF Tick, TypeOK, Capped
  <2>5. pinging' \in Never .. Gate /\ beating' \in Never .. Gate
    BY <1>1, OlderBound DEF Tick, TypeOK
  <2>6. silent' \in [Timers -> Nat] /\ \A t \in Timers : silent'[t] <= Overdue(t)
    <3>1. silent' = [t \in Timers |-> IF Ready(t) THEN Capped(silent[t] + 1, Overdue(t)) ELSE 0]
      BY <1>1 DEF Tick
    <3>2. ASSUME NEW t \in Timers
          PROVE  /\ Capped(silent[t] + 1, Overdue(t)) \in Nat
                 /\ Capped(silent[t] + 1, Overdue(t)) <= Overdue(t)
      <4>1. silent[t] + 1 \in Nat /\ Overdue(t) \in Nat
        BY DEF TypeOK
      <4> QED
        BY <4>1, CappedBound
    <3>3. \A t \in Timers : silent'[t] \in Nat /\ silent'[t] <= Overdue(t)
      <4>1. 0 \in Nat /\ \A t \in Timers : 0 <= Overdue(t)
        OBVIOUS
      <4> QED
        BY <3>1, <3>2, <4>1
    <3> QED
      BY <3>1, <3>3
  <2>7. idle' \in [Timers -> Nat] /\ \A t \in Timers : idle'[t] <= Overdue(t)
    <3>1. idle' = [t \in Timers |-> IF Ready(t) THEN Capped(idle[t] + 1, Overdue(t)) ELSE 0]
      BY <1>1 DEF Tick
    <3>2. ASSUME NEW t \in Timers
          PROVE  /\ Capped(idle[t] + 1, Overdue(t)) \in Nat
                 /\ Capped(idle[t] + 1, Overdue(t)) <= Overdue(t)
      <4>1. idle[t] + 1 \in Nat /\ Overdue(t) \in Nat
        BY DEF TypeOK
      <4> QED
        BY <4>1, CappedBound
    <3>3. \A t \in Timers : idle'[t] \in Nat /\ idle'[t] <= Overdue(t)
      <4>1. 0 \in Nat /\ \A t \in Timers : 0 <= Overdue(t)
        OBVIOUS
      <4> QED
        BY <3>1, <3>2, <4>1
    <3> QED
      BY <3>1, <3>3
  <2> QED
    BY <2>1, <2>2, <2>3, <2>4, <2>5, <2>6, <2>7 DEF TypeOK
<1>2. CASE Authenticate
  BY <1>2 DEF Authenticate, TypeOK, history
<1>3. CASE StartLoop
  BY <1>3 DEF StartLoop, TypeOK, clocks, history
<1>4. ASSUME NEW registers \in BOOLEAN, NEW beats \in BOOLEAN, NEW raisedIn \in Ends,
             Datagram(registers, beats, raisedIn)
      PROVE  TypeOK'
  <2>1. beating' \in Never .. Gate /\ span' \in 0 .. Gate /\ reported' \in 0 .. Gate
    BY <1>4 DEF Datagram, TypeOK, Never
  <2>2. since' \in [Timers -> Nat] /\ \A t \in Timers : since'[t] <= Interval[t]
    BY <1>4 DEF Datagram, TypeOK
  <2>3. idle' \in [Timers -> Nat] /\ \A t \in Timers : idle'[t] <= Overdue(t)
    BY <1>4 DEF Datagram, TypeOK
  <2>4. registered' \in BOOLEAN
    BY <1>4 DEF Datagram, TypeOK
  <2>5. UNCHANGED <<open, looping, authenticated, waited, age, pinging, silent>>
    BY <1>4 DEF Datagram
  <2> QED
    BY <2>1, <2>2, <2>3, <2>4, <2>5 DEF TypeOK
<1>5. ASSUME NEW S \in SUBSET Timers, Serve(S), open' \in BOOLEAN
      PROVE  TypeOK'
  <2>1. pinging' \in Never .. Gate /\ reported' \in 0 .. Gate
    BY <1>5 DEF Serve, TypeOK, Never
  <2>2. since' \in [Timers -> Nat] /\ \A t \in Timers : since'[t] <= Interval[t]
    BY <1>5 DEF Serve, TypeOK
  <2>3. silent' \in [Timers -> Nat] /\ \A t \in Timers : silent'[t] <= Overdue(t)
    BY <1>5 DEF Serve, TypeOK
  <2>4. idle' \in [Timers -> Nat] /\ \A t \in Timers : idle'[t] <= Overdue(t)
    BY <1>5 DEF Serve, TypeOK
  <2> QED
    BY <1>5, <2>1, <2>2, <2>3, <2>4 DEF Serve, TypeOK
<1>6. CASE Service
  BY <1>5, <1>6 DEF Service, TypeOK
<1>7. CASE LastService
  <2>1. \A t \in Timers : {u \in Earlier(t) : Due(u)} \in SUBSET Timers
    BY DEF Earlier, Timers
  <2> QED
    BY <1>5, <1>7, <2>1 DEF LastService
<1>8. CASE End
  BY <1>8 DEF End, TypeOK, clocks, history
<1>9. CASE UNCHANGED vars
  BY <1>9 DEF vars, flags, clocks, history, TypeOK
<1> QED
  BY <1>1, <1>2, <1>3, <1>4, <1>6, <1>7, <1>8, <1>9 DEF Next

LEMMA TypeInit == Init => TypeOK
<1> SUFFICES ASSUME Init
             PROVE  TypeOK
  OBVIOUS
<1> USE CadenceAssumption, ConstantTypes
<1>1. since \in [Timers -> Nat] /\ \A t \in Timers : since[t] <= Interval[t]
  <2>1. since = Interval /\ Interval \in [Timers -> Nat]
    BY DEF Init
  <2> QED
    BY <2>1
<1>2. /\ silent \in [Timers -> Nat] /\ \A t \in Timers : silent[t] <= Overdue(t)
      /\ idle \in [Timers -> Nat] /\ \A t \in Timers : idle[t] <= Overdue(t)
  BY DEF Init
<1>3. /\ waited \in 0 .. ReceiveInterval /\ age \in 0 .. MaxAge
      /\ pinging \in Never .. Gate /\ beating \in Never .. Gate
      /\ span \in 0 .. Gate /\ reported \in 0 .. Gate
  BY DEF Init, Never
<1> QED
  BY <1>1, <1>2, <1>3 DEF Init, TypeOK

\* The types hold throughout: a round never exceeds its interval.
THEOREM TypeCorrect == Spec => []TypeOK
BY TypeInit, TypeStep, PTL DEF Spec

-----------------------------------------------------------------------------
(* The pace                                                                *)

\* Serving all due timers at the end of a round, or some of them in the last one.
LEMMA ServedInStep ==
  ASSUME TypeOK, NEW S \in SUBSET Timers, Serve(S), NEW t \in Timers,
         NEW h \in Nat, NEW k \in Nat, InStep(h, t), k = (IF t \in S THEN 0 ELSE h),
         \/ ~open'
         \/ S = {u \in Timers : Due(u)} /\ open' = open
  PROVE  InStep(k, t)'
<1> USE CadenceAssumption, ConstantTypes
<1>1. /\ Ready(t)' <=> Ready(t)
      /\ since'[t] = (IF t \in S THEN 0 ELSE since[t])
      /\ waited' = 0
      /\ since[t] \in Nat
  BY DEF Serve, Ready, TypeOK
<1>2. CASE t \in S
  BY <1>1, <1>2 DEF InStep
<1>3. CASE t \notin S
  <2>1. /\ ~Ready(t) => k = 0
        /\ since[t] < Interval[t] => k <= since[t]
        /\ k < Overdue(t)
    BY <1>3 DEF InStep
  <2>2. open' => k <= Interval[t] - 1
    <3>1. open' => ~Due(t)
      BY <1>3
    <3>2. ~Due(t) => ~Ready(t) \/ since[t] < Interval[t]
      BY <1>1 DEF Due
    <3> QED
      BY <1>1, <2>1, <3>1, <3>2
  <2> QED
    BY <1>1, <1>3, <2>1, <2>2 DEF InStep
<1> QED
  BY <1>2, <1>3

\* A tick counts for a ready timer on both sides, and belongs to the round.
LEMMA TickInStep ==
  ASSUME TypeOK, Tick, NEW t \in Timers, NEW h \in Nat, NEW k \in Nat, InStep(h, t),
         k = (IF Ready(t) THEN Capped(h + 1, Overdue(t)) ELSE 0)
  PROVE  InStep(k, t)'
<1> USE CadenceAssumption, ConstantTypes
<1>1. /\ since'[t] = Capped(since[t] + 1, Interval[t])
      /\ since[t] \in Nat /\ since[t] <= Interval[t]
      /\ open /\ open'
      /\ waited \in 0 .. ReceiveInterval /\ waited' \in 0 .. ReceiveInterval
  BY TypeStep DEF Tick, TypeOK, flags, Next
<1>2. CASE Ready(t)
  <2>1. k <= h + 1
    BY <1>2, CappedBound
  <2>2. Ready(t)'
    BY <1>2 DEF Ready, Tick, flags, TypeOK, Capped
  <2>3. waited' = waited + 1 /\ waited + 1 <= ReceiveInterval
    <3>1. looping
      BY <1>2 DEF Ready
    <3>2. waited' = waited + 1 /\ waited < ReceiveInterval
      BY <3>1 DEF Tick
    <3> QED
      BY <1>1, <3>2
  <2>4. since'[t] < Interval[t] => k <= since'[t]
    BY <1>1, <2>1 DEF InStep, Capped
  <2>5. h <= Interval[t] - 1 + waited
    BY <1>1 DEF InStep
  <2>6. k <= Interval[t] - 1 + waited'
    BY <1>1, <2>1, <2>3, <2>5
  <2>7. k < Overdue(t)
    BY <1>1, <2>3, <2>6 DEF Overdue
  <2> QED
    BY <2>2, <2>4, <2>6, <2>7 DEF InStep
<1>3. CASE ~Ready(t)
  <2>1. k = 0
    BY <1>3
  <2>2. since'[t] \in Nat
    BY <1>1, CappedBound
  <2> QED
    BY <1>1, <2>1, <2>2 DEF InStep
<1> QED
  BY <1>2, <1>3

LEMMA PaceStep ==
  ASSUME IInv, [Next]_vars
  PROVE  /\ \A t \in {"ping", "isr"} : InStep(silent[t], t)'
         /\ \A t \in Timers : InStep(idle[t], t)'
<1> USE CadenceAssumption, ConstantTypes
<1> DEFINE Both == /\ \A t \in {"ping", "isr"} : InStep(silent[t], t)'
                   /\ \A t \in Timers : InStep(idle[t], t)'
<1>1. /\ TypeOK
      /\ \A t \in {"ping", "isr"} : t \in Timers /\ InStep(silent[t], t)
      /\ \A t \in Timers : InStep(idle[t], t)
      /\ \A t \in Timers : silent[t] \in Nat /\ idle[t] \in Nat
  BY DEF IInv, TypeOK, Timers
<1>2. \A t \in Timers : silent'[t] \in Nat /\ idle'[t] \in Nat
  BY <1>1, TypeStep DEF TypeOK
<1>3. CASE Tick
  <2>1. \A t \in Timers :
          /\ silent'[t] = (IF Ready(t) THEN Capped(silent[t] + 1, Overdue(t)) ELSE 0)
          /\ idle'[t] = (IF Ready(t) THEN Capped(idle[t] + 1, Overdue(t)) ELSE 0)
    BY <1>3 DEF Tick
  <2>2. ASSUME NEW t \in {"ping", "isr"}
        PROVE  InStep(silent[t], t)'
    <3> DEFINE h == silent[t]  k == silent'[t]
    <3>1. t \in Timers /\ h \in Nat /\ k \in Nat /\ InStep(h, t)
      BY <1>1, <1>2
    <3>2. k = (IF Ready(t) THEN Capped(h + 1, Overdue(t)) ELSE 0)
      BY <2>1, <3>1
    <3> QED
      BY <1>1, <1>3, <3>1, <3>2, TickInStep DEF InStep
  <2>3. ASSUME NEW t \in Timers
        PROVE  InStep(idle[t], t)'
    BY <1>1, <1>2, <1>3, <2>1, TickInStep DEF InStep
  <2> QED
    BY <2>2, <2>3
<1>4. ASSUME UNCHANGED <<since, waited, silent, idle>>, open' => open,
             \A t \in Timers : Ready(t) => Ready(t)'
      PROVE  Both
  BY <1>1, <1>4 DEF InStep
<1>5. CASE Authenticate
  BY <1>1, <1>4, <1>5 DEF Authenticate, history, Ready, TypeOK
<1>6. CASE StartLoop
  BY <1>1, <1>4, <1>6 DEF StartLoop, clocks, history, Ready, TypeOK
<1>7. CASE End
  BY <1>1, <1>4, <1>7 DEF End, clocks, history, Ready, TypeOK
<1>8. CASE UNCHANGED vars
  BY <1>1, <1>4, <1>8 DEF vars, flags, clocks, history, Ready
<1>9. ASSUME NEW registers \in BOOLEAN, NEW beats \in BOOLEAN, NEW raisedIn \in Ends,
             Datagram(registers, beats, raisedIn)
      PROVE  Both
  <2>1. /\ UNCHANGED <<open, looping, authenticated, waited, age, pinging, silent>>
        /\ registered => registered'
    BY <1>9 DEF Datagram
  <2>2. \A t \in Timers : Ready(t) => Ready(t)'
    BY <2>1 DEF Ready
  <2>3. ASSUME NEW t \in Timers
        PROVE  \/ since'[t] = since[t] /\ idle'[t] = idle[t]
               \/ t \notin {"ping", "isr"} /\ since'[t] = 0 /\ idle'[t] = 0
    BY <1>1, <1>9 DEF Datagram, TypeOK, Restarted, Timers
  <2>4. \A t \in {"ping", "isr"} : InStep(silent[t], t)'
    BY <1>1, <2>1, <2>2, <2>3 DEF InStep
  <2>5. ASSUME NEW t \in Timers
        PROVE  InStep(idle[t], t)'
    <3>1. waited \in Nat
      BY <1>1 DEF TypeOK
    <3> QED
      BY <1>1, <2>1, <2>2, <2>3, <3>1 DEF InStep
  <2> QED
    BY <2>4, <2>5
<1>10. ASSUME NEW S \in SUBSET Timers, Serve(S),
              \/ ~open'
              \/ S = {u \in Timers : Due(u)} /\ open' = open
       PROVE  Both
  <2>1. \A t \in Timers : /\ silent'[t] = (IF t \in S THEN 0 ELSE silent[t])
                          /\ idle'[t] = (IF t \in S THEN 0 ELSE idle[t])
    BY <1>10 DEF Serve
  <2>2. ASSUME NEW t \in {"ping", "isr"}
        PROVE  InStep(silent[t], t)'
    BY <1>1, <1>2, <1>10, <2>1, ServedInStep DEF InStep
  <2>3. ASSUME NEW t \in Timers
        PROVE  InStep(idle[t], t)'
    BY <1>1, <1>2, <1>10, <2>1, ServedInStep DEF InStep
  <2> QED
    BY <2>2, <2>3
<1>11. CASE Service
  BY <1>10, <1>11 DEF Service
<1>12. CASE LastService
  <2>1. \A t \in Timers : {u \in Earlier(t) : Due(u)} \in SUBSET Timers
    BY DEF Earlier, Timers
  <2> QED
    BY <1>10, <1>12, <2>1 DEF LastService
<1> QED
  BY <1>3, <1>5, <1>6, <1>7, <1>8, <1>9, <1>11, <1>12 DEF Next

-----------------------------------------------------------------------------
(* What is reported                                                        *)

LEMMA ObservedStep ==
  ASSUME IInv, [Next]_vars
  PROVE  ReportedWasObserved'
<1> USE CadenceAssumption
<1>1. /\ TypeOK /\ ReportedWasObserved
      /\ pinging \in Never .. Gate /\ beating \in Never .. Gate
      /\ span \in 0 .. Gate /\ reported \in 0 .. Gate
  BY DEF IInv, TypeOK
<1>2. CASE Tick
  <2>1. /\ pinging' \in Never .. Gate /\ pinging <= pinging'
        /\ beating' \in Never .. Gate /\ beating <= beating'
        /\ span' = span /\ reported' = reported
    BY <1>1, <1>2, OlderBound DEF Tick
  <2> QED
    BY <1>1, <2>1 DEF ReportedWasObserved, Never
<1>3. ASSUME NEW registers \in BOOLEAN, NEW beats \in BOOLEAN, NEW raisedIn \in Ends,
             Datagram(registers, beats, raisedIn)
      PROVE  ReportedWasObserved'
  <2>1. /\ beating' = IF beats /\ beating = Never THEN 0 ELSE beating
        /\ span' = IF beats THEN beating' ELSE span
        /\ reported' = span' \/ reported' = reported
        /\ pinging' = pinging
    BY <1>3 DEF Datagram
  <2>2. beating <= beating' /\ beating' \in Never .. Gate
    BY <1>1, <2>1 DEF Never
  <2>3. span' <= beating' \/ span' = 0
    BY <1>1, <2>1, <2>2 DEF ReportedWasObserved, Never
  <2>4. span <= span'
    BY <1>1, <2>1 DEF ReportedWasObserved, Never
  <2> QED
    BY <1>1, <2>1, <2>2, <2>3, <2>4 DEF ReportedWasObserved, Never
<1>4. ASSUME NEW S, Serve(S)
      PROVE  ReportedWasObserved'
  <2>1. /\ beating' = beating /\ span' = span
        /\ reported' = pinging' \/ reported' = reported
        /\ pinging' = pinging \/ (pinging = Never /\ pinging' = 0)
    BY <1>4 DEF Serve
  <2> QED
    BY <1>1, <2>1 DEF ReportedWasObserved, Never
<1>5. CASE Authenticate \/ StartLoop \/ End \/ UNCHANGED vars
  <2>1. UNCHANGED <<pinging, beating, span, reported>>
    BY <1>5 DEF Authenticate, StartLoop, End, vars, clocks
  <2> QED
    BY <1>1, <2>1 DEF ReportedWasObserved
<1>6. CASE Service \/ LastService
  BY <1>4, <1>6 DEF Service, LastService
<1> QED
  BY <1>2, <1>3, <1>5, <1>6 DEF Next

-----------------------------------------------------------------------------
(* The theorems                                                            *)

LEMMA Invariance == Spec => []IInv
<1>1. Init => IInv
  <2>1. Init => \A t \in Timers : /\ silent[t] = 0 /\ idle[t] = 0 /\ waited = 0
                                  /\ since[t] = Interval[t]
    BY DEF Init
  <2>2. ASSUME NEW t \in Timers, since[t] = Interval[t], waited = 0
        PROVE  InStep(0, t)
    BY <2>2, ConstantTypes DEF InStep
  <2>3. Init => ReportedWasObserved
    BY DEF Init, ReportedWasObserved
  <2>4. "ping" \in Timers /\ "isr" \in Timers
    BY DEF Timers
  <2> QED
    BY <2>1, <2>2, <2>3, <2>4, TypeInit DEF IInv
<1>2. IInv /\ [Next]_vars => IInv'
  BY TypeStep, PaceStep, ObservedStep DEF IInv
<1> QED
  BY <1>1, <1>2, PTL DEF Spec

\* However often the server sends, a ping pair or an ISR batch is late by less
\* than one round.
THEOREM PingsKeepPace == Spec => []PingKeepsPace
<1>1. IInv => PingKeepsPace
  BY DEF IInv, InStep, PingKeepsPace
<1> QED
  BY <1>1, Invariance, PTL

\* Every timer is late by less than one round when no datagram intervenes.
THEOREM AllKeepPaceInQuiet == Spec => []KeepsPaceInQuiet
<1>1. IInv => KeepsPaceInQuiet
  BY DEF IInv, InStep, KeepsPaceInQuiet
<1> QED
  BY <1>1, Invariance, PTL

\* The reported heartbeat time is covered by pings or by received heartbeats.
THEOREM ReportIsNotUptime == Spec => []ReportedWasObserved
<1>1. IInv => ReportedWasObserved
  BY DEF IInv
<1> QED
  BY <1>1, Invariance, PTL

\* The gate of the report opens without a span heard from the server only when the
\* first ping pair is that long ago: HeartbeatGateHonest fails in this way alone,
\* and time without a ping pair and without a beat opens nothing.
THEOREM GateOpensByPings ==
  Spec => [](HeartbeatGateHonest \/ (reported > span /\ pinging >= Gate))
<1>1. IInv => HeartbeatGateHonest \/ (reported > span /\ pinging >= Gate)
  <2> SUFFICES ASSUME IInv, ~HeartbeatGateHonest
               PROVE  reported > span /\ pinging >= Gate
    OBVIOUS
  <2>1. /\ reported \in Int /\ span \in Int /\ pinging \in Int /\ Gate \in Nat
        /\ reported <= span \/ reported <= pinging
    BY CadenceAssumption DEF IInv, TypeOK, ReportedWasObserved, Never
  <2>2. reported >= Gate /\ ~(span >= Gate)
    BY DEF HeartbeatGateHonest
  <2> QED
    BY <2>1, <2>2
<1> QED
  BY <1>1, Invariance, PTL

\* A step that makes the reported time shorter is a ping pair that overwrites a
\* longer span of received heartbeats; the span itself is kept and grows.
OverwrittenByPing ==
  /\ reported' < reported => reported' = pinging' /\ reported <= span'
  /\ span <= span'

\* The reported time is shortened by ping pairs only, and then the span that was
\* reported is still known (the assignment in _service_lifecycle takes no maximum).
THEOREM OnlyPingsShorten == Spec => [][OverwrittenByPing]_vars
<1>1. IInv /\ [Next]_vars => [OverwrittenByPing]_vars
  <2> SUFFICES ASSUME IInv, [Next]_vars
               PROVE  OverwrittenByPing
    OBVIOUS
  <2> USE CadenceAssumption
  <2>1. /\ pinging \in Never .. Gate /\ beating \in Never .. Gate
        /\ span \in 0 .. Gate /\ reported \in 0 .. Gate
        /\ ReportedWasObserved
    BY DEF IInv, TypeOK
  <2>2. ASSUME NEW registers \in BOOLEAN, NEW beats \in BOOLEAN, NEW raisedIn \in Ends,
               Datagram(registers, beats, raisedIn)
        PROVE  OverwrittenByPing
    <3>1. /\ beating' = IF beats /\ beating = Never THEN 0 ELSE beating
          /\ span' = IF beats THEN beating' ELSE span
          /\ reported' = IF raisedIn # "handlers" /\ span' > reported THEN span' ELSE reported
      BY <2>2 DEF Datagram
    <3> QED
      BY <2>1, <3>1 DEF OverwrittenByPing, ReportedWasObserved, Never
  <2>3. ASSUME NEW S, Serve(S)
        PROVE  OverwrittenByPing
    <3>1. /\ pinging' = pinging \/ (pinging = Never /\ pinging' = 0)
          /\ reported' = pinging' \/ reported' = reported
          /\ span' = span
      BY <2>3 DEF Serve
    <3> QED
      BY <2>1, <3>1 DEF OverwrittenByPing, ReportedWasObserved, Never
  <2>4. CASE Tick \/ Authenticate \/ StartLoop \/ End \/ UNCHANGED vars
    <3>1. span' = span /\ reported' = reported
      BY <2>4 DEF Tick, Authenticate, StartLoop, End, vars, clocks
    <3> QED
      BY <2>1, <3>1 DEF OverwrittenByPing
  <2>5. CASE Service \/ LastService
    BY <2>3, <2>5 DEF Service, LastService
  <2> QED
    BY <2>2, <2>3, <2>4, <2>5 DEF Next
<1> QED
  BY <1>1, Invariance, PTL DEF Spec

=============================================================================
