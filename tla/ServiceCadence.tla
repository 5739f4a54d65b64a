---------------------------- MODULE ServiceCadence ----------------------------
(***************************************************************************)
(* The timers of RakNetClient: what RakNetClient.run and _service_lifecycle*)
(* of rift_headless.py do with the monotonic clock, and what becomes of    *)
(* stats["heartbeat_seconds"].                                             *)
(*                                                                         *)
(* Each round of the run loop receives for one interval and then calls the *)
(* service once.  The service sends what is due and restarts its clocks.   *)
(* Two of the clocks are also restarted by every server datagram that is   *)
(* handled to the end (_send_lifecycle_profile).  The clock advances in an *)
(* action of its own; a datagram and a service take no time.               *)
(***************************************************************************)
EXTENDS Integers

CONSTANTS
  Configured,       \* the timers that have a payload or are enabled
  Interval,         \* ticks between two sends, per timer
  Delay,            \* ticks from authentication to the first send, per timer
  ReceiveInterval,  \* ticks in one round of the run loop
  Gate              \* the heartbeat_seconds that the report asks for

Timers == {"heartbeat", "ping", "isr", "physics"}

\* Mutant: it restarts all of them.
RestartedAll == Timers

\* The timers whose clocks _send_lifecycle_profile restarts.
Restarted == {"heartbeat", "physics"}

ASSUME CadenceAssumption ==
  /\ Configured \subseteq Timers
  /\ Interval \in [Timers -> Nat \ {0}]
  /\ Delay \in [Timers -> Nat]
  /\ ReceiveInterval \in Nat \ {0}
  /\ Gate \in Nat \ {0}

VARIABLES
  open,           \* run has neither returned nor raised
  looping,        \* the handshake is over
  authenticated,  \* stats["authenticated"]
  registered,     \* ReplicatorState.replicator_registered
  waited,         \* ticks of this round
  age,            \* ticks since authentication
  since,          \* ticks since a clock was restarted; never is long ago
  pinging,        \* ticks since _first_replication_ping_at, or Never
  beating,        \* ticks since ReplicatorState.first_heartbeat_at, or Never
  span,           \* first_heartbeat_at to last_heartbeat_at
  reported,       \* stats["heartbeat_seconds"]
  silent,         \* ticks that a ready timer has not been served
  idle            \* the same, counted from the last datagram handled to the end

flags == <<open, looping, authenticated, registered>>
clocks == <<waited, age, since, pinging, beating, span, reported>>
history == <<silent, idle>>
vars == <<flags, clocks, history>>

Never == -1

\* Bounds: no comparison tells larger values apart.
MaxAge == Delay["heartbeat"] + Delay["ping"] + Delay["isr"] + Delay["physics"]
Overdue(t) == Interval[t] + ReceiveInterval

Capped(n, max) == IF n > max THEN max ELSE n

Init ==
  /\ open = TRUE
  /\ looping = FALSE /\ authenticated = FALSE /\ registered = FALSE
  /\ waited = 0
  /\ age = 0
  /\ since = Interval
  /\ pinging = Never /\ beating = Never
  /\ span = 0
  /\ reported = 0
  /\ silent = [t \in Timers |-> 0]
  /\ idle = [t \in Timers |-> 0]

\* The conditions on a timer other than its interval.
Ready(t) ==
  /\ looping
  /\ authenticated
  /\ registered
  /\ t \in Configured
  /\ age >= Delay[t]

Due(t) == Ready(t) /\ since[t] >= Interval[t]

-----------------------------------------------------------------------------
(* Time and the phases of the run                                          *)

Older(n) == IF n = Never THEN Never ELSE Capped(n + 1, Gate)

\* Mutant: a round has no end.
TickOn ==
  /\ open
  /\ waited' = IF looping THEN waited + 1 ELSE 0
  /\ age' = IF authenticated THEN Capped(age + 1, MaxAge) ELSE 0
  /\ since' = [t \in Timers |-> Capped(since[t] + 1, Interval[t])]
  /\ pinging' = Older(pinging)
  /\ beating' = Older(beating)
  /\ silent' = [t \in Timers |-> IF Ready(t) THEN Capped(silent[t] + 1, Overdue(t)) ELSE 0]
  /\ idle' = [t \in Timers |-> IF Ready(t) THEN Capped(idle[t] + 1, Overdue(t)) ELSE 0]
  /\ UNCHANGED <<flags, span, reported>>

\* The monotonic clock.  _recv_until ends a round after one interval.
Tick ==
  /\ open
  /\ looping => waited < ReceiveInterval
  /\ waited' = IF looping THEN waited + 1 ELSE 0
  /\ age' = IF authenticated THEN Capped(age + 1, MaxAge) ELSE 0
  /\ since' = [t \in Timers |-> Capped(since[t] + 1, Interval[t])]
  /\ pinging' = Older(pinging)
  /\ beating' = Older(beating)
  /\ silent' = [t \in Timers |-> IF Ready(t) THEN Capped(silent[t] + 1, Overdue(t)) ELSE 0]
  /\ idle' = [t \in Timers |-> IF Ready(t) THEN Capped(idle[t] + 1, Overdue(t)) ELSE 0]
  /\ UNCHANGED <<flags, span, reported>>

\* _promote_reply2, in the handshake or later.
Authenticate ==
  /\ open
  /\ ~authenticated
  /\ authenticated' = TRUE
  /\ age' = 0
  /\ UNCHANGED <<open, looping, registered, waited, since, pinging, beating, span,
                 reported, history>>

\* The handshake has an answer, and the first round begins.
StartLoop ==
  /\ open
  /\ ~looping
  /\ looping' = TRUE
  /\ UNCHANGED <<open, authenticated, registered, clocks, history>>

-----------------------------------------------------------------------------
(* A datagram with data                                                    *)

\* Where an exception ends the handling of a datagram.
Ends == {"handlers", "profile", "none"}

\* ReplicatorState.apply counts the heartbeats, the snapshot publishes their
\* span, and _send_lifecycle_profile restarts two clocks.
Datagram(registers, beats, raisedIn) ==
  /\ open
  /\ authenticated
  /\ registered' = (registered \/ registers)
  /\ beating' = IF beats /\ beating = Never THEN 0 ELSE beating
  /\ span' = IF beats THEN beating' ELSE span
  /\ reported' = IF raisedIn # "handlers" /\ span' > reported THEN span' ELSE reported
  /\ raisedIn = "profile" => registered'
  /\ IF raisedIn = "none" /\ registered'
       THEN /\ since' = [t \in Timers |-> IF t \in Restarted THEN 0 ELSE since[t]]
            /\ idle' = [t \in Timers |-> IF t \in {"heartbeat", "physics"} THEN 0 ELSE idle[t]]
       ELSE UNCHANGED <<since, idle>>
  /\ UNCHANGED <<open, looping, authenticated, waited, age, pinging, silent>>

-----------------------------------------------------------------------------
(* The service                                                             *)

\* Mutant: every clock is restarted, due or not.
ServeAndRestart(S) ==
  /\ waited' = 0
  /\ since' = [t \in Timers |-> 0]
  /\ silent' = [t \in Timers |-> IF t \in S THEN 0 ELSE silent[t]]
  /\ idle' = [t \in Timers |-> IF t \in S THEN 0 ELSE idle[t]]
  /\ pinging' = IF "ping" \in S /\ pinging = Never THEN 0 ELSE pinging
  /\ reported' = IF "ping" \in S THEN pinging' ELSE reported
  /\ UNCHANGED <<looping, authenticated, registered, age, beating, span>>

\* Mutant: the ping pair reports the time since authentication.
ServeReportingAge(S) ==
  /\ waited' = 0
  /\ since' = [t \in Timers |-> IF t \in S THEN 0 ELSE since[t]]
  /\ silent' = [t \in Timers |-> IF t \in S THEN 0 ELSE silent[t]]
  /\ idle' = [t \in Timers |-> IF t \in S THEN 0 ELSE idle[t]]
  /\ pinging' = IF "ping" \in S /\ pinging = Never THEN 0 ELSE pinging
  /\ reported' = IF "ping" \in S THEN Capped(age, Gate) ELSE reported
  /\ UNCHANGED <<looping, authenticated, registered, age, beating, span>>

\* Sends for the timers in S.  The ping pair overwrites heartbeat_seconds.
Serve(S) ==
  /\ waited' = 0
  /\ since' = [t \in Timers |-> IF t \in S THEN 0 ELSE since[t]]
  /\ silent' = [t \in Timers |-> IF t \in S THEN 0 ELSE silent[t]]
  /\ idle' = [t \in Timers |-> IF t \in S THEN 0 ELSE idle[t]]
  /\ pinging' = IF "ping" \in S /\ pinging = Never THEN 0 ELSE pinging
  /\ reported' = IF "ping" \in S THEN pinging' ELSE reported
  /\ UNCHANGED <<looping, authenticated, registered, age, beating, span>>

\* _service_lifecycle at the end of a round.
Service ==
  /\ open
  /\ looping
  /\ waited = ReceiveInterval
  /\ Serve({t \in Timers : Due(t)})
  /\ UNCHANGED open

\* The order of the sends.
Earlier(t) ==
  CASE t = "heartbeat" -> {}
    [] t = "ping"      -> {"heartbeat"}
    [] t = "isr"       -> {"heartbeat", "ping"}
    [] OTHER           -> {"heartbeat", "ping", "isr"}

\* The service of the last round, which the deadline cuts short, or one in which
\* the send for a timer raises; either ends the run.
LastService ==
  /\ open
  /\ looping
  /\ waited > 0
  /\ \/ Serve({t \in Timers : Due(t)})
     \/ \E t \in Timers : Due(t) /\ Serve({u \in Earlier(t) : Due(u)})
  /\ open' = FALSE

\* The handshake fails, or another send of the run loop raises.
End ==
  /\ open
  /\ open' = FALSE
  /\ UNCHANGED <<looping, authenticated, registered, clocks, history>>

Next ==
  \/ Tick
  \/ Authenticate
  \/ StartLoop
  \/ \E registers, beats \in BOOLEAN, raisedIn \in Ends : Datagram(registers, beats, raisedIn)
  \/ Service
  \/ LastService
  \/ End

Spec == Init /\ [][Next]_vars

\* Time passes, and a round that is over is followed by its service, as long as
\* the run lasts.  Nothing is assumed of the server.
FairSpec == Spec /\ WF_vars(Tick) /\ WF_vars(Service)

-----------------------------------------------------------------------------
(* Properties                                                              *)

\* The types; a round never exceeds its interval.
TypeOK ==
  /\ open \in BOOLEAN /\ looping \in BOOLEAN
  /\ authenticated \in BOOLEAN /\ registered \in BOOLEAN
  /\ waited \in 0 .. ReceiveInterval
  /\ age \in 0 .. MaxAge
  /\ since \in [Timers -> Nat] /\ \A t \in Timers : since[t] <= Interval[t]
  /\ pinging \in Never .. Gate /\ beating \in Never .. Gate
  /\ span \in 0 .. Gate
  /\ reported \in 0 .. Gate
  /\ silent \in [Timers -> Nat] /\ \A t \in Timers : silent[t] <= Overdue(t)
  /\ idle \in [Timers -> Nat] /\ \A t \in Timers : idle[t] <= Overdue(t)

\* The ping pair and the ISR checkpoints keep their interval, late by less than
\* one round, whatever the server sends, whenever registration comes, and
\* wherever handlers raise.
PingKeepsPace ==
  \A t \in {"ping", "isr"} : silent[t] < Overdue(t)

\* Every timer keeps its interval, late by less than one round, while no
\* datagram is handled to its end.
KeepsPaceInQuiet ==
  \A t \in Timers : idle[t] < Overdue(t)

\* The time reported as heartbeat is covered by what the server was heard to beat,
\* which is never longer than the time since its first beat, or by the time since
\* the first ping pair: it is not uptime.
ReportedWasObserved ==
  /\ reported <= span \/ reported <= pinging
  /\ span <= beating \/ span = 0

\* What the docstring of _service_lifecycle says: it maintains the heartbeat.  As
\* long as the run lasts, a heartbeat that is waited for is sent.
HeartbeatMaintained ==
  silent["heartbeat"] > 0 ~> silent["heartbeat"] = 0 \/ ~open

\* What the comment in the runner says: the heartbeat gate does not open for
\* outbound requests, only for what was received.
HeartbeatGateHonest == reported >= Gate => span >= Gate

=============================================================================
