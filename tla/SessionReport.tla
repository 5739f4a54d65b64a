----------------------------- MODULE SessionReport -----------------------------
(***************************************************************************)
(* One run of the program (run, bootstrap, choose_endpoints and the        *)
(* loaders of rift_headless.py): the configuration, the join, an attempt   *)
(* per endpoint, and the report, with the presence monitor in a thread of  *)
(* its own.                                                                *)
(*                                                                         *)
(* The web services are external.  A join is one answer of theirs, given   *)
(* by what bootstrap() looks at; the presence service tells where the      *)
(* account is, or fails.  An attempt is a whole RakNetClient.run, known by *)
(* the gates its stats pass.                                               *)
(***************************************************************************)
EXTENDS Integers, Sequences

CONSTANTS
  Settings,   \* command lines
  Joins,      \* answers to the join request
  Outcomes,   \* sets of gates an attempt may pass
  Kept,       \* samples in the report (32)
  MaxSamples  \* bound: readings of the presence monitor

None == "none"
Error == "error"
Running == -1
Raised == 1 \* an exception that nothing catches

\* The gates of a complete session; "heartbeat" is a span of 120 seconds.
Gates == {"authenticated", "accepted", "registered", "player", "character",
          "avatar", "physics", "observer", "heartbeat"}

ASSUME ReportAssumption ==
  /\ Outcomes \subseteq SUBSET Gates
  /\ \A j \in Joins : Len(j.connections) \in Nat
  /\ Kept \in Nat \ {0} /\ MaxSamples \in Nat

VARIABLES
  settings,   \* args
  phase,      \* where run() is
  join,       \* external: how the join request would be answered
  endpoints,  \* what choose_endpoints returned
  attempts,   \* the entries of report["transport"]
  session,    \* report["session"] and ["replication"]: the gates of the selected attempt
  booted,     \* report["bootstrap"]["ok"]
  stage,      \* report["stage"]
  ok,         \* report["ok"]
  before, after, listed, observed, \* report["presence"]
  result,     \* the exit status
  account,    \* external: where the account is
  monitor,    \* the presence thread: None, "waiting", "reading" or "ended"
  stopped,    \* presence_stop
  samples,    \* presence_samples
  visited     \* history: where the account has been since the start

opened == <<settings, join, booted, endpoints>>
report == <<session, stage, ok>>
presence == <<before, after, listed, observed>>
thread == <<monitor, samples>>
world == <<account, visited>>
vars == <<opened, phase, attempts, report, presence, result, thread, stopped, world>>

Places == {"here", "elsewhere"}

Init ==
  /\ settings \in Settings
  /\ phase = "configure"
  /\ join \in Joins
  /\ booted = FALSE
  /\ endpoints = <<>>
  /\ attempts = <<>>
  /\ session = {} /\ stage = None /\ ok = FALSE
  /\ before = None /\ after = None /\ listed = <<>> /\ observed = FALSE
  /\ result = Running
  /\ account \in Places
  /\ monitor = None
  /\ stopped = FALSE
  /\ samples = <<>>
  /\ visited = {account}

-----------------------------------------------------------------------------
(* The configuration                                                       *)

\* load_request2_trace, else load_request2_config.
LoadRequest2(s) ==
  CASE s.trace = "bad" -> Error
    [] s.trace = "good" -> "trace"
    [] s.trace = None /\ s.files = {} -> None
    [] s.trace = None /\ s.files = {"key", "rupp", "token"} /\ s.fit -> "files"
    [] OTHER -> Error

\* load_established_config and load_established_trace, then load_lifecycle_profile.
LoadEstablished(s) ==
  IF s.established \in {{}, {"tx", "rx"}} /\ s.keytrace # "bad" THEN None ELSE Error

LoadLifecycle(s) == IF s.lifecycle = "bad" THEN Error ELSE None

ConfigurationFails(s) ==
  Error \in {LoadRequest2(s), LoadEstablished(s), LoadLifecycle(s)}

\* args.udmux_header, which a trace sets as well.
GivenHeader(s) == (s.header = "file") \/ (LoadRequest2(s) = "trace")

-----------------------------------------------------------------------------
(* The join                                                                *)

\* bootstrap: the join script is fetched when it is not inline, or to claim it again.
Fetches(s, j) == j.script = "url" \/ (j.script = "both" /\ s.claim)

\* The errors with which bootstrap returns before it looks at the endpoints.
NoJoinData(j) ==
  \/ ~j.reached
  \/ j.script = None
  \/ j.script = "url" /\ j.fetched \in {"raises", "nothing"}

\* What the endpoints are taken from: without join data, only the server's address
\* in the answer itself.
Known(j) == IF NoJoinData(j) THEN [j EXCEPT !.udmux_ip = None, !.udmux_port = None] ELSE j

If(condition, s) == IF condition THEN s ELSE <<>>
Endpoint(kind, host, port) == [kind |-> kind, address |-> <<host, port>>]

\* endpoint_candidates: UDMUX, NetStack, the server, then the other connections.
Candidates(j) ==
  If(j.udmux_ip # None /\ j.udmux_port # None,
     <<Endpoint("udmux", j.udmux_ip, j.udmux_port)>>) \o
  If(j.udmux_ip # None /\ j.netstack_port \notin {None, j.udmux_port},
     <<Endpoint("netstack", j.udmux_ip, j.netstack_port)>>) \o
  If(j.server_ip # None /\ j.server_port # None,
     <<Endpoint("direct", j.server_ip, j.server_port)>>) \o
  [i \in 1..Len(j.connections) |->
     Endpoint("server-connection", j.connections[i][1], j.connections[i][2])]

\* boot.ok: a failed fetch of a script that is not inline is an error, with the
\* candidates still in place.
BootOk(s, j) ==
  /\ ~NoJoinData(j)
  /\ ~(Fetches(s, j) /\ j.script = "url" /\ j.refused)
  /\ j.server_ip # None \/ j.udmux_ip # None

First(a, b) == IF a # None THEN a ELSE b

\* The candidates whose address no earlier one has.
FirstOfEachAddress(s) ==
  LET f[n \in 0..Len(s)] ==
        IF n = 0 THEN <<>>
        ELSE IF \E k \in 1..n - 1 : s[k].address = s[n].address THEN f[n - 1]
        ELSE Append(f[n - 1], s[n])
  IN f[Len(s)]

\* choose_endpoints: also after an error of bootstrap.
ChooseEndpoints(j) ==
  IF ~j.reached THEN <<>>
  ELSE IF ~NoJoinData(j) /\ Candidates(j) # <<>> THEN FirstOfEachAddress(Candidates(j))
  ELSE LET host == First(Known(j).udmux_ip, j.server_ip)
           port == First(Known(j).udmux_port, j.server_port)
       IN If(host # None /\ port # None, <<Endpoint("fallback", host, port)>>)

-----------------------------------------------------------------------------
(* An attempt                                                              *)

\* The context of the join, and what build_auto_request2_config derives a key from.
Material(j) == j.material /\ ~NoJoinData(j)

GeneratesHeader(e) == e.kind = "udmux" /\ ~GivenHeader(settings) /\ settings.header = "auto"
HasHeader(e) == GivenHeader(settings) \/ GeneratesHeader(e)

\* generate_udmux_header raises ValueError without the server's address.
HeaderRaises(e) == GeneratesHeader(e) /\ join.server_ip = None

\* A Request2 needs a header, a configuration and the context of the join.
SendsRequest2(e) ==
  /\ HasHeader(e)
  /\ Material(join)
  /\ LoadRequest2(settings) # None \/ settings.header = "auto"

Entry(handshake, gates) == [handshake |-> handshake, gates |-> gates]

\* The loop ends with the first handshake that saw a player instance.
Suffices(a) == a.handshake /\ "player" \in a.gates

\* The numbers of the attempts with a handshake.
Shaken == {i \in 1..Len(attempts) : attempts[i].handshake}

One(condition) == IF condition THEN 1 ELSE 0

\* Mutant: the player instance does not count in the choice.
RankWithoutPlayer(i) ==
  2 * One("registered" \in attempts[i].gates) + One("authenticated" \in attempts[i].gates)

Rank(i) ==
  4 * One("player" \in attempts[i].gates) + 2 * One("registered" \in attempts[i].gates)
  + One("authenticated" \in attempts[i].gates)

\* max: the first of the highest rank.
IsSelected(i) ==
  /\ i \in Shaken
  /\ \A k \in Shaken : Rank(k) < Rank(i) \/ (Rank(k) = Rank(i) /\ i <= k)

\* Mutant: the gates are those of all attempts together.
SelectedGatesPooled(i) == UNION {attempts[k].gates : k \in Shaken}

SelectedGates(i) == attempts[i].gates

-----------------------------------------------------------------------------
(* run()                                                                   *)

\* A report of the configuration's error; the presence thread is not started.
ConfigureFails ==
  /\ phase = "configure"
  /\ ConfigurationFails(settings)
  /\ stage' = "request2-config"
  /\ result' = 2
  /\ phase' = "ended"
  /\ UNCHANGED <<opened, attempts, session, ok, presence, thread, stopped, world>>

Configure ==
  /\ phase = "configure"
  /\ ~ConfigurationFails(settings)
  /\ phase' = "before"
  /\ UNCHANGED <<opened, attempts, report, presence, result, thread, stopped, world>>

\* read_account_presence: where the account is, unless a request fails.
Readings == {account, Error}

ReadBefore(r) ==
  /\ phase = "before"
  /\ before' = r
  /\ monitor' = "waiting"
  /\ phase' = "ticket"
  /\ UNCHANGED <<opened, attempts, report, after, listed, observed, result, samples, stopped, world>>

NoTicket ==
  /\ phase = "ticket"
  /\ stage' = "auth-ticket"
  /\ phase' = "after"
  /\ UNCHANGED <<opened, attempts, session, ok, presence, result, thread, stopped, world>>

\* The join, and the choice of the endpoints.
Bootstrap ==
  /\ phase = "ticket"
  /\ booted' = BootOk(settings, join)
  /\ endpoints' = ChooseEndpoints(join)
  /\ stage' = "bootstrap"
  /\ phase' = IF endpoints' = <<>> THEN "after" ELSE "attempt"
  /\ UNCHANGED <<settings, join, attempts, session, ok, presence, result, thread, stopped, world>>

\* The endpoint of the next attempt.
Next1 == endpoints[Len(attempts) + 1]

Finish(a) ==
  /\ attempts' = Append(attempts, a)
  /\ phase' = IF Suffices(a) \/ Len(attempts) + 1 = Len(endpoints) THEN "report" ELSE "attempt"
  /\ UNCHANGED <<opened, report, presence, result, thread, stopped, world>>

\* "missing-session-udmux-header"
Skip ==
  /\ phase = "attempt"
  /\ Next1.kind = "udmux" /\ ~HasHeader(Next1)
  /\ Finish(Entry(FALSE, {}))

Possible(e) == ~HeaderRaises(e) /\ (e.kind = "udmux" => HasHeader(e))

\* An OSError, at any point of the attempt: its stats are lost.
AttemptFails ==
  /\ phase = "attempt"
  /\ Possible(Next1)
  /\ Finish(Entry(FALSE, {}))

\* The attempt returns; without an answer at once, else after the duration.
Attempt(handshake, gates) ==
  /\ phase = "attempt"
  /\ Possible(Next1)
  /\ gates # {} => handshake
  /\ "authenticated" \in gates => SendsRequest2(Next1)
  /\ Finish(Entry(handshake, gates))

\* Any other exception leaves run(), through the finally clause and without a report.
Raise ==
  /\ phase \in {"ticket", "attempt"}
  /\ result' = Raised
  /\ stopped' = TRUE
  /\ phase' = "ended"
  /\ UNCHANGED <<opened, attempts, report, presence, thread, world>>

Complete(gates) == Gates \subseteq gates

\* The gates of the report are those of one attempt.
Select(i) ==
  /\ phase = "report"
  /\ IsSelected(i)
  /\ session' = SelectedGates(i)
  /\ ok' = Complete(session')
  /\ stage' = IF Complete(session') THEN "complete" ELSE "session-unverified"
  /\ phase' = "after"
  /\ UNCHANGED <<opened, attempts, presence, result, thread, stopped, world>>

SelectNone ==
  /\ phase = "report"
  /\ Shaken = {}
  /\ session' = {}
  /\ stage' = "transport"
  /\ phase' = "after"
  /\ UNCHANGED <<opened, attempts, ok, presence, result, thread, stopped, world>>

ReadAfter(r) ==
  /\ phase = "after"
  /\ after' = r
  /\ phase' = "list"
  /\ UNCHANGED <<opened, attempts, report, before, listed, observed, result, thread, stopped, world>>

Last(s, n) == SubSeq(s, (IF Len(s) > n THEN Len(s) - n ELSE 0) + 1, Len(s))

\* presence_samples[-32:]
ListSamples ==
  /\ phase = "list"
  /\ listed' = Last(samples, Kept)
  /\ phase' = "judge"
  /\ UNCHANGED <<opened, attempts, report, before, after, observed, result, thread, stopped, world>>

\* Mutant: only the newest sample counts.
SeenNewest(s) == s # <<>> /\ s[Len(s)] = "here"

Seen(s) == \E i \in 1..Len(s) : s[i] = "here"

\* The gates that an observation in the place needs.
Admitted == {"authenticated", "accepted", "registered"} \subseteq session

\* The presence gates; the thread may have read again since the samples were listed.
Judge ==
  /\ phase = "judge"
  /\ observed' = Seen(samples)
  /\ IF observed' /\ Admitted
       THEN ok' = TRUE /\ stage' = "presence-observed"
       ELSE /\ ok' = (ok /\ after = "here")
            /\ stage' = IF ok /\ ~ok' THEN "presence-unverified" ELSE stage
  /\ phase' = "write"
  /\ UNCHANGED <<opened, attempts, session, before, after, listed, result, thread, stopped, world>>

\* The finally clause, and the output.
Write ==
  /\ phase = "write"
  /\ stopped' = TRUE
  /\ result' = IF ok THEN 0 ELSE 2
  /\ phase' = "ended"
  /\ UNCHANGED <<opened, attempts, report, presence, thread, world>>

-----------------------------------------------------------------------------
(* The presence thread, and the world                                      *)

StartReading ==
  /\ monitor = "waiting" /\ ~stopped
  /\ Len(samples) < MaxSamples
  /\ monitor' = "reading"
  /\ UNCHANGED <<opened, phase, attempts, report, presence, result, samples, stopped, world>>

\* Mutant: what could not be read is a sample as well.
EndReadingAny(r) ==
  /\ monitor = "reading"
  /\ samples' = Append(samples, r)
  /\ monitor' = "waiting"
  /\ UNCHANGED <<opened, phase, attempts, report, presence, result, stopped, world>>

\* Also after presence_stop: the thread is joined for two seconds only.
EndReading(r) ==
  /\ monitor = "reading"
  /\ samples' = IF r = Error THEN samples ELSE Append(samples, r)
  /\ monitor' = "waiting"
  /\ UNCHANGED <<opened, phase, attempts, report, presence, result, stopped, world>>

EndMonitor ==
  /\ monitor = "waiting" /\ stopped
  /\ monitor' = "ended"
  /\ UNCHANGED <<opened, phase, attempts, report, presence, result, samples, stopped, world>>

AccountMoves(p) ==
  /\ account' = p
  /\ visited' = visited \cup {p}
  /\ UNCHANGED <<opened, phase, attempts, report, presence, result, thread, stopped>>

Run ==
  \/ ConfigureFails
  \/ Configure
  \/ \E r \in Readings : ReadBefore(r)
  \/ NoTicket
  \/ Bootstrap
  \/ Skip
  \/ AttemptFails
  \/ \E handshake \in BOOLEAN, gates \in Outcomes : Attempt(handshake, gates)
  \/ Raise
  \/ \E i \in 1..Len(attempts) : Select(i)
  \/ SelectNone
  \/ \E r \in Readings : ReadAfter(r)
  \/ ListSamples
  \/ Judge
  \/ Write

Monitor ==
  \/ StartReading
  \/ \E r \in Readings : EndReading(r)
  \/ EndMonitor

Next == Run \/ Monitor \/ \E p \in Places : AccountMoves(p)

Spec == Init /\ [][Next]_vars

-----------------------------------------------------------------------------
(* Properties                                                              *)

\* The variables keep their types, and the phase tells which parts there are.
TypeOK ==
  /\ settings \in Settings
  /\ join \in Joins
  /\ attempts \in Seq([handshake : BOOLEAN, gates : SUBSET Gates])
  /\ session \subseteq Gates
  /\ ok \in BOOLEAN /\ booted \in BOOLEAN /\ observed \in BOOLEAN /\ stopped \in BOOLEAN
  /\ {before, after} \subseteq Places \cup {None, Error}
  /\ samples \in Seq(Places) /\ listed \in Seq(Places)
  /\ result \in {Running, Raised, 0, 2}
  /\ monitor \in {None, "waiting", "reading", "ended"}
  /\ account \in visited /\ visited \subseteq Places
  /\ phase = "ended" <=> result # Running

\* A run succeeds on one session and one place: a single attempt shook hands, was
\* authenticated, accepted and registered, and the account has really been in the
\* place during the run; without an observation, all gates passed and the account
\* was there after the last attempt.
OneSessionCarriesAll ==
  ok /\ phase \in {"write", "ended"} =>
    /\ \E i \in Shaken :
         /\ {"authenticated", "accepted", "registered"} \subseteq attempts[i].gates
         /\ stage = "complete" => Complete(attempts[i].gates) /\ after = "here"
    /\ "here" \in visited

\* A complete session is never passed over: whatever the other attempts were, the
\* report calls it complete until the presence is judged, and the run fails then
\* only for an account that was not seen in the place.
CompleteIsReported ==
  (\E i \in Shaken : Complete(attempts[i].gates)) =>
    /\ phase \in {"after", "list", "judge"} => stage = "complete"
    /\ phase \in {"write", "ended"} /\ result # Raised =>
         ok \/ (stage = "presence-unverified" /\ after # "here" /\ ~observed)

\* The report never shows a sample in the place and denies the observation, though
\* the thread goes on reading while the report is written.
ListedIsObserved ==
  phase \in {"write", "ended"} /\ (\E i \in 1..Len(listed) : listed[i] = "here") => observed

=============================================================================
