------------------------- MODULE SessionReport_proofs -------------------------
(***************************************************************************)
(* Theorems on SessionReport, for every set of command lines, joins and    *)
(* outcomes, and any number of samples kept.  The inductive invariant      *)
(* follows the evidence from the attempts through the chosen session to    *)
(* the verdict, and the samples from the account to the report.            *)
(***************************************************************************)
EXTENDS SessionReport, FiniteSetTheorems, WellFoundedInduction, TLAPS

Early == {"configure", "before", "ticket", "attempt", "report"}

\* What there is not yet.
Fresh ==
  /\ phase \in {"configure", "before", "ticket"} => attempts = <<>>
  /\ phase \in Early => ~ok /\ session = {}
  /\ phase \in Early \cup {"after", "list"} => listed = <<>>

\* The session of the report is that of an attempt.
SessionOfOne == session = {} \/ \E i \in Shaken : session = attempts[i].gates

\* Until the presence is judged, a run succeeds on a complete session.
OkIsComplete ==
  phase \in {"after", "list", "judge"} =>
    /\ ok <=> Complete(session)
    /\ ok <=> stage = "complete"

\* What a verdict rests on.
Verdict ==
  phase \in {"write", "ended"} /\ ok =>
    /\ Admitted /\ "here" \in visited
    /\ stage = "complete" => Complete(session) /\ after = "here"

\* What was read of the account was true.
Grounded ==
  /\ \A i \in 1..Len(samples) : samples[i] \in visited
  /\ after \in visited \cup {None, Error}

\* An attempt that suffices is the last.
LastSuffices ==
  \A i \in 1..Len(attempts) :
    Suffices(attempts[i]) => i = Len(attempts) /\ phase # "attempt"

\* The samples of the report are samples still.
ListedKept ==
  phase = "judge" /\ (\E i \in 1..Len(listed) : listed[i] = "here") => Seen(samples)

IInv ==
  /\ TypeOK
  /\ Fresh
  /\ SessionOfOne
  /\ OkIsComplete
  /\ Verdict
  /\ Grounded
  /\ LastSuffices
  /\ ListedKept
  /\ CompleteIsReported
  /\ ListedIsObserved

\* Without a gate a session is not complete.
LEMMA NothingIsIncomplete == ~Complete({})
  BY DEF Complete, Gates

\* Of the attempts, one with a player instance is chosen if there is one.
LEMMA PlayerIsChosen ==
  ASSUME NEW i \in Shaken, IsSelected(i), NEW k \in Shaken, "player" \in attempts[k].gates
  PROVE  "player" \in attempts[i].gates
<1>1. /\ One("player" \in attempts[k].gates) = 1
      /\ \A x \in BOOLEAN : One(x) \in {0, 1}
      /\ One(FALSE) = 0
  BY DEF One
<1>2. Rank(k) >= 4 /\ Rank(k) \in Int
  BY <1>1 DEF Rank, One
<1>3. Rank(k) < Rank(i) \/ Rank(k) = Rank(i)
  BY DEF IsSelected
<1> SUFFICES ASSUME "player" \notin attempts[i].gates PROVE FALSE
  OBVIOUS
<1>4. Rank(i) <= 3 /\ Rank(i) \in Int
  BY DEF Rank, One
<1> QED BY <1>2, <1>3, <1>4

LEMMA InitInv == Init => IInv
<1> SUFFICES ASSUME Init PROVE IInv
  OBVIOUS
<1>1. TypeOK
  <2>1. /\ samples \in Seq(Places) /\ listed \in Seq(Places)
        /\ attempts \in Seq([handshake : BOOLEAN, gates : SUBSET Gates])
    BY DEF Init
  <2>2. account \in visited /\ visited \subseteq Places /\ session \subseteq Gates
    BY DEF Init
  <2>3. result \in {Running, Raised, 0, 2} /\ (phase = "ended" <=> result # Running)
    BY DEF Init
  <2> QED BY <2>1, <2>2, <2>3 DEF Init, TypeOK
<1>2. Fresh /\ SessionOfOne /\ OkIsComplete /\ Verdict /\ Grounded
  BY DEF Init, Fresh, SessionOfOne, OkIsComplete, Verdict, Grounded
<1>3. LastSuffices /\ ListedKept /\ CompleteIsReported /\ ListedIsObserved
  BY DEF Init, LastSuffices, ListedKept, CompleteIsReported, ListedIsObserved, Shaken
<1> QED BY <1>1, <1>2, <1>3 DEF IInv

\* Until the first attempt there is nothing to report.
LEMMA OpeningStep ==
  ASSUME IInv,
         \/ ConfigureFails \/ Configure \/ (\E r \in Readings : ReadBefore(r))
         \/ NoTicket \/ Bootstrap
  PROVE  IInv'
<1>1. /\ attempts = <<>> /\ ~ok /\ session = {} /\ listed = <<>>
      /\ phase \in {"configure", "before", "ticket"}
  BY DEF IInv, Fresh, Early, ConfigureFails, Configure, ReadBefore, NoTicket, Bootstrap
<1>2. /\ UNCHANGED <<attempts, session, ok, after, listed, observed, samples, world>>
      /\ phase' \in {"ended", "before", "ticket", "after", "attempt"}
      /\ phase' = "after" => stage' \in {"auth-ticket", "bootstrap"}
      /\ phase' = "before" => phase = "configure"
  BY DEF ConfigureFails, Configure, ReadBefore, NoTicket, Bootstrap, opened, report,
         presence, thread, world
<1>3. TypeOK'
  <2>1. CASE ConfigureFails
    BY <2>1 DEF IInv, TypeOK, ConfigureFails, opened, presence, thread, world, Running, Raised
  <2>2. CASE Configure
    BY <2>2 DEF IInv, TypeOK, Configure, opened, report, presence, thread, world
  <2>3. ASSUME NEW r \in Readings, ReadBefore(r) PROVE TypeOK'
    BY <2>3 DEF IInv, TypeOK, ReadBefore, Readings, opened, report, world
  <2>4. CASE NoTicket
    BY <2>4 DEF IInv, TypeOK, NoTicket, opened, presence, thread, world
  <2>5. CASE Bootstrap
    <3>1. booted' \in BOOLEAN
      BY <2>5 DEF Bootstrap, BootOk
    <3> QED BY <2>5, <3>1 DEF IInv, TypeOK, Bootstrap, presence, thread, world
  <2> QED BY <2>1, <2>2, <2>3, <2>4, <2>5
<1>4. Fresh' /\ SessionOfOne' /\ Verdict' /\ Grounded'
  BY <1>1, <1>2 DEF IInv, Fresh, SessionOfOne, Verdict, Grounded, Early, world
<1>5. OkIsComplete'
  BY <1>1, <1>2, NothingIsIncomplete DEF OkIsComplete, Complete
<1>6. LastSuffices' /\ ListedKept' /\ CompleteIsReported' /\ ListedIsObserved'
  BY <1>1, <1>2 DEF LastSuffices, ListedKept, CompleteIsReported, ListedIsObserved, Shaken
<1> QED BY <1>3, <1>4, <1>5, <1>6 DEF IInv

\* An attempt adds an entry; one that suffices ends the attempts.
LEMMA FinishStep ==
  ASSUME IInv, phase = "attempt", NEW a \in [handshake : BOOLEAN, gates : SUBSET Gates], Finish(a)
  PROVE  IInv'
<1>1. /\ ~ok /\ session = {} /\ listed = <<>>
      /\ attempts \in Seq([handshake : BOOLEAN, gates : SUBSET Gates])
      /\ \A i \in 1..Len(attempts) : ~Suffices(attempts[i])
  BY DEF IInv, TypeOK, Fresh, Early, LastSuffices
<1>2. /\ attempts' = Append(attempts, a)
      /\ phase' \in {"attempt", "report"}
      /\ Suffices(a) => phase' = "report"
      /\ UNCHANGED <<opened, report, presence, result, thread, stopped, world>>
  BY DEF Finish
<1>3. TypeOK'
  BY <1>1, <1>2 DEF IInv, TypeOK, opened, report, presence, thread, world
<1>4. Fresh' /\ SessionOfOne' /\ OkIsComplete' /\ Verdict' /\ Grounded'
  BY <1>1, <1>2 DEF IInv, Fresh, SessionOfOne, OkIsComplete, Verdict, Grounded, Early, report,
         presence, thread, world
<1>5. LastSuffices'
  <2>1. /\ Len(attempts') = Len(attempts) + 1 /\ Len(attempts) \in Nat
        /\ attempts'[Len(attempts) + 1] = a
        /\ \A i \in 1..Len(attempts) : attempts'[i] = attempts[i]
    BY <1>1, <1>2
  <2> SUFFICES ASSUME NEW i \in 1..Len(attempts'), Suffices(attempts'[i])
               PROVE  i = Len(attempts') /\ phase' # "attempt"
    BY DEF LastSuffices, Suffices
  <2>2. i = Len(attempts) + 1
    BY <1>1, <2>1
  <2> QED BY <1>2, <2>1, <2>2
<1>6. ListedKept' /\ CompleteIsReported' /\ ListedIsObserved'
  BY <1>1, <1>2 DEF ListedKept, CompleteIsReported, ListedIsObserved
<1> QED BY <1>3, <1>4, <1>5, <1>6 DEF IInv

\* The entries are records of a handshake and gates.
LEMMA AttemptStep ==
  ASSUME IInv,
         Skip \/ AttemptFails \/ (\E handshake \in BOOLEAN, gates \in Outcomes : Attempt(handshake, gates))
  PROVE  IInv'
<1>1. CASE Skip \/ AttemptFails
  <2>1. Entry(FALSE, {}) \in [handshake : BOOLEAN, gates : SUBSET Gates]
    BY DEF Entry
  <2> QED BY <1>1, <2>1, FinishStep DEF Skip, AttemptFails
<1>2. ASSUME NEW handshake \in BOOLEAN, NEW gates \in Outcomes, Attempt(handshake, gates)
      PROVE  IInv'
  <2>1. Entry(handshake, gates) \in [handshake : BOOLEAN, gates : SUBSET Gates]
    BY ReportAssumption DEF Entry
  <2> QED BY <1>2, <2>1, FinishStep DEF Attempt
<1> QED BY <1>1, <1>2

\* An exception leaves without a report.
LEMMA RaiseStep ==
  ASSUME IInv, Raise
  PROVE  IInv'
<1>1. ~ok /\ session = {} /\ listed = <<>> /\ phase \in Early
  BY DEF IInv, Fresh, Raise, Early
<1>2. /\ phase' = "ended" /\ result' = Raised /\ stopped' = TRUE
      /\ UNCHANGED <<opened, attempts, report, presence, thread, world>>
  BY DEF Raise
<1>3. TypeOK'
  BY <1>2 DEF IInv, TypeOK, opened, report, presence, thread, world, Running, Raised
<1>4. Fresh' /\ SessionOfOne' /\ OkIsComplete' /\ Verdict' /\ Grounded'
  BY <1>1, <1>2 DEF IInv, Fresh, SessionOfOne, OkIsComplete, Verdict, Grounded, Early, report,
         presence, thread, world
<1>5. LastSuffices' /\ ListedKept' /\ CompleteIsReported' /\ ListedIsObserved'
  BY <1>1, <1>2 DEF IInv, LastSuffices, ListedKept, CompleteIsReported, ListedIsObserved, report, presence
<1> QED BY <1>3, <1>4, <1>5 DEF IInv

\* A complete attempt is the last, and the one that is chosen.
LEMMA SelectStep ==
  ASSUME IInv, NEW i \in 1..Len(attempts), Select(i)
  PROVE  IInv'
<1>1. /\ phase = "report" /\ i \in Shaken /\ IsSelected(i)
      /\ session' = attempts[i].gates
      /\ ok' = Complete(session')
      /\ stage' = IF Complete(session') THEN "complete" ELSE "session-unverified"
      /\ phase' = "after"
      /\ UNCHANGED <<opened, attempts, presence, result, thread, stopped, world>>
  BY DEF Select, IsSelected, SelectedGates
<1>2. listed = <<>> /\ attempts \in Seq([handshake : BOOLEAN, gates : SUBSET Gates])
  BY <1>1 DEF IInv, TypeOK, Fresh, Early
<1>3. attempts[i].gates \subseteq Gates
  <2> DEFINE Entries == [handshake : BOOLEAN, gates : SUBSET Gates]
  <2>1. attempts \in Seq(Entries)
    BY <1>2
  <2> HIDE DEF Entries
  <2>2. attempts[i] \in Entries
    BY <2>1
  <2> QED BY <2>2 DEF Entries
<1>4. TypeOK'
  BY <1>1, <1>3 DEF IInv, TypeOK, opened, presence, thread, world, Complete
<1>5. Fresh' /\ OkIsComplete' /\ Verdict' /\ Grounded' /\ ListedKept' /\ ListedIsObserved'
  BY <1>1, <1>2 DEF IInv, Fresh, OkIsComplete, Verdict, Grounded, ListedKept, ListedIsObserved,
         Early, presence, thread, world, Complete
<1>6. SessionOfOne' /\ LastSuffices'
  BY <1>1 DEF IInv, SessionOfOne, LastSuffices, Shaken
<1>7. CompleteIsReported'
  <2> SUFFICES ASSUME NEW k \in Shaken, Complete(attempts[k].gates)
               PROVE  stage' = "complete"
    BY <1>1 DEF CompleteIsReported, Shaken
  <2>1. "player" \in attempts[k].gates
    BY DEF Complete, Gates
  <2>2. "player" \in attempts[i].gates
    BY <1>1, <2>1, PlayerIsChosen
  <2>3. Suffices(attempts[k]) /\ Suffices(attempts[i]) /\ k \in 1..Len(attempts)
    BY <1>1, <2>1, <2>2 DEF Suffices, Shaken
  <2>4. i = k
    BY <2>3 DEF IInv, LastSuffices
  <2> QED BY <1>1, <2>4
<1> QED BY <1>4, <1>5, <1>6, <1>7 DEF IInv

\* Without a handshake no attempt was complete.
LEMMA SelectNoneStep ==
  ASSUME IInv, SelectNone
  PROVE  IInv'
<1>1. /\ phase = "report" /\ Shaken = {} /\ session' = {} /\ stage' = "transport"
      /\ phase' = "after" /\ ~ok /\ listed = <<>>
      /\ UNCHANGED <<opened, attempts, ok, presence, result, thread, stopped, world>>
  BY DEF IInv, Fresh, Early, SelectNone
<1>2. TypeOK'
  BY <1>1 DEF IInv, TypeOK, opened, presence, thread, world
<1>3. Fresh' /\ SessionOfOne' /\ Verdict' /\ Grounded' /\ ListedKept' /\ ListedIsObserved'
  BY <1>1 DEF IInv, Fresh, SessionOfOne, Verdict, Grounded, ListedKept, ListedIsObserved,
         Early, presence, thread, world
<1>4. OkIsComplete'
  BY <1>1, NothingIsIncomplete DEF OkIsComplete, Complete
<1>5. LastSuffices' /\ CompleteIsReported'
  BY <1>1 DEF IInv, LastSuffices, CompleteIsReported, Shaken
<1> QED BY <1>2, <1>3, <1>4, <1>5 DEF IInv

\* The reading after the attempts.
LEMMA ReadAfterStep ==
  ASSUME IInv, NEW r \in Readings, ReadAfter(r)
  PROVE  IInv'
<1>1. /\ phase = "after" /\ after' = r /\ phase' = "list" /\ listed = <<>>
      /\ UNCHANGED <<opened, attempts, report, before, listed, observed, result, thread,
                     stopped, world>>
  BY DEF IInv, Fresh, ReadAfter
<1>2. r \in visited \cup {Error} /\ r \in Places \cup {Error}
  BY DEF IInv, TypeOK, Readings
<1>3. TypeOK'
  BY <1>1, <1>2 DEF IInv, TypeOK, opened, report, thread, world
<1>4. Fresh' /\ SessionOfOne' /\ OkIsComplete' /\ Verdict' /\ Grounded'
  BY <1>1, <1>2 DEF IInv, Fresh, SessionOfOne, OkIsComplete, Verdict, Grounded, Early, report,
         thread, world, Shaken
<1>5. LastSuffices' /\ ListedKept' /\ CompleteIsReported' /\ ListedIsObserved'
  BY <1>1 DEF IInv, LastSuffices, ListedKept, CompleteIsReported, ListedIsObserved, report, Shaken
<1> QED BY <1>3, <1>4, <1>5 DEF IInv

\* The last samples are samples.
LEMMA LastIsPart ==
  ASSUME NEW s \in Seq(Places)
  PROVE  /\ Last(s, Kept) \in Seq(Places)
         /\ (\E i \in 1..Len(Last(s, Kept)) : Last(s, Kept)[i] = "here") => Seen(s)
<1> DEFINE m == (IF Len(s) > Kept THEN Len(s) - Kept ELSE 0) + 1
           t == SubSeq(s, m, Len(s))
<1>1. m \in 1..Len(s) + 1 /\ Len(s) \in Nat
  BY ReportAssumption
<1> HIDE DEF m
<1>2. /\ t \in Seq(Places)
      /\ Len(t) = Len(s) - m + 1
      /\ \A i \in 1..Len(t) : t[i] = s[m + i - 1]
  BY <1>1
<1>3. \A i \in 1..Len(t) : m + i - 1 \in 1..Len(s)
  BY <1>1, <1>2
<1>4. t = Last(s, Kept)
  BY DEF Last, m
<1> QED BY <1>2, <1>3, <1>4 DEF Seen

LEMMA ListSamplesStep ==
  ASSUME IInv, ListSamples
  PROVE  IInv'
<1>1. /\ phase = "list" /\ listed' = Last(samples, Kept) /\ phase' = "judge"
      /\ samples \in Seq(Places)
      /\ UNCHANGED <<opened, attempts, report, before, after, observed, result, thread,
                     stopped, world>>
  BY DEF IInv, TypeOK, ListSamples
<1>2. TypeOK'
  BY <1>1, LastIsPart DEF IInv, TypeOK, opened, report, thread, world
<1>3. Fresh' /\ SessionOfOne' /\ OkIsComplete' /\ Verdict' /\ Grounded'
  BY <1>1 DEF IInv, Fresh, SessionOfOne, OkIsComplete, Verdict, Grounded, Early, report,
         thread, world, Shaken
<1>4. ListedKept'
  BY <1>1, LastIsPart DEF ListedKept, Seen, thread
<1>5. LastSuffices' /\ CompleteIsReported' /\ ListedIsObserved'
  BY <1>1 DEF IInv, LastSuffices, CompleteIsReported, ListedIsObserved, report, Shaken
<1> QED BY <1>2, <1>3, <1>4, <1>5 DEF IInv

\* The verdict.
LEMMA JudgeStep ==
  ASSUME IInv, Judge
  PROVE  IInv'
<1>1. /\ phase = "judge" /\ phase' = "write" /\ observed' = Seen(samples)
      /\ samples \in Seq(Places) /\ ok \in BOOLEAN
      /\ UNCHANGED <<opened, attempts, session, before, after, listed, result, thread,
                     stopped, world>>
  BY DEF IInv, TypeOK, Judge
<1>2. \/ /\ observed' /\ Admitted /\ ok' = TRUE /\ stage' = "presence-observed"
      \/ /\ ~(observed' /\ Admitted) /\ ok' = (ok /\ after = "here")
         /\ stage' = IF ok /\ ~ok' THEN "presence-unverified" ELSE stage
  BY DEF Judge
<1>3. observed' \in BOOLEAN /\ ok' \in BOOLEAN
  BY <1>1, <1>2 DEF Seen
<1>4. TypeOK'
  BY <1>1, <1>3 DEF IInv, TypeOK, opened, thread, world
<1>5. observed' => "here" \in visited
  BY <1>1 DEF IInv, Grounded, Seen
<1>6. after = "here" => "here" \in visited
  BY DEF IInv, Grounded, None, Error
<1>7. Complete(session) => Admitted
  BY DEF Complete, Gates, Admitted
<1>8. ok <=> Complete(session)
  BY <1>1 DEF IInv, OkIsComplete
<1>9. ok <=> stage = "complete"
  BY <1>1 DEF IInv, OkIsComplete
<1>10. Verdict'
  BY <1>1, <1>2, <1>5, <1>6, <1>7, <1>8, <1>9 DEF Verdict, Admitted, Complete, world
<1>11. Fresh' /\ SessionOfOne' /\ OkIsComplete' /\ Grounded' /\ LastSuffices' /\ ListedKept'
  BY <1>1 DEF IInv, Fresh, SessionOfOne, OkIsComplete, Grounded, LastSuffices, ListedKept, Early,
         thread, world, Shaken
<1>12. ListedIsObserved'
  BY <1>1 DEF IInv, ListedKept, ListedIsObserved
<1>13. CompleteIsReported'
  <2> SUFFICES ASSUME NEW k \in Shaken, Complete(attempts[k].gates)
               PROVE  ok' \/ (stage' = "presence-unverified" /\ after # "here" /\ ~observed')
    BY <1>1 DEF CompleteIsReported, Shaken
  <2>1. stage = "complete"
    BY <1>1 DEF IInv, CompleteIsReported
  <2> QED BY <1>2, <1>7, <1>8, <1>9, <2>1
<1> QED BY <1>4, <1>10, <1>11, <1>12, <1>13 DEF IInv

LEMMA WriteStep ==
  ASSUME IInv, Write
  PROVE  IInv'
<1>1. /\ phase = "write" /\ phase' = "ended" /\ stopped' = TRUE /\ result' \in {0, 2}
      /\ UNCHANGED <<opened, attempts, report, presence, thread, world>>
  BY DEF Write
<1>2. result = Running
  BY <1>1 DEF IInv, TypeOK
<1>3. TypeOK'
  BY <1>1 DEF IInv, TypeOK, opened, report, presence, thread, world, Running
<1>4. Fresh' /\ SessionOfOne' /\ OkIsComplete' /\ Verdict' /\ Grounded' /\ LastSuffices'
  BY <1>1 DEF IInv, Fresh, SessionOfOne, OkIsComplete, Verdict, Grounded, LastSuffices, Early,
         report, presence, thread, world, Shaken, Admitted
<1>5. ListedKept' /\ ListedIsObserved'
  BY <1>1 DEF IInv, ListedKept, ListedIsObserved, presence
<1>6. CompleteIsReported'
  BY <1>1, <1>2 DEF IInv, CompleteIsReported, Shaken, report, presence, Running, Raised
<1> QED BY <1>3, <1>4, <1>5, <1>6 DEF IInv

\* The thread reads what is true, and takes no sample away.
LEMMA MonitorStep ==
  ASSUME IInv, Monitor
  PROVE  IInv'
<1>1. /\ UNCHANGED <<opened, phase, attempts, report, presence, result, stopped, world>>
      /\ monitor' \in {"waiting", "reading", "ended"}
      /\ samples \in Seq(Places) /\ account \in visited /\ visited \subseteq Places
  BY DEF IInv, TypeOK, Monitor, StartReading, EndReading, EndMonitor
<1>2. samples' = samples \/ samples' = Append(samples, account)
  BY DEF Monitor, StartReading, EndReading, EndMonitor, Readings
<1>3. /\ samples' \in Seq(Places)
      /\ \A i \in 1..Len(samples') : samples'[i] \in visited
      /\ Seen(samples) => Seen(samples')
  <2>1. CASE samples' = samples
    BY <1>1, <2>1 DEF IInv, Grounded
  <2>2. CASE samples' = Append(samples, account)
    <3>1. /\ samples' \in Seq(Places) /\ Len(samples') = Len(samples) + 1 /\ Len(samples) \in Nat
          /\ \A i \in 1..Len(samples) : samples'[i] = samples[i]
          /\ samples'[Len(samples) + 1] = account
      BY <1>1, <2>2
    <3>2. \A i \in 1..Len(samples') : i \in 1..Len(samples) \/ i = Len(samples) + 1
      BY <3>1
    <3>3. \A i \in 1..Len(samples) : i \in 1..Len(samples')
      BY <3>1
    <3> QED BY <1>1, <3>1, <3>2, <3>3 DEF IInv, Grounded, Seen
  <2> QED BY <1>2, <2>1, <2>2
<1>4. TypeOK'
  BY <1>1, <1>3 DEF IInv, TypeOK, opened, report, presence, world
<1>5. Fresh' /\ SessionOfOne' /\ OkIsComplete' /\ Verdict' /\ LastSuffices'
  BY <1>1 DEF IInv, Fresh, SessionOfOne, OkIsComplete, Verdict, LastSuffices, Early, report,
         presence, world, Shaken, Admitted
<1>6. Grounded'
  BY <1>1, <1>3 DEF IInv, Grounded, presence, world
<1>7. ListedKept'
  BY <1>1, <1>3 DEF IInv, ListedKept, presence
<1>8. CompleteIsReported' /\ ListedIsObserved'
  BY <1>1 DEF IInv, CompleteIsReported, ListedIsObserved, Shaken, report, presence
<1> QED BY <1>4, <1>5, <1>6, <1>7, <1>8 DEF IInv

\* Where the account has been does not shrink.
LEMMA WorldStep ==
  ASSUME IInv, NEW p \in Places, AccountMoves(p)
  PROVE  IInv'
<1>1. /\ account' = p /\ visited' = visited \cup {p}
      /\ UNCHANGED <<opened, phase, attempts, report, presence, result, thread, stopped>>
  BY DEF AccountMoves
<1>2. TypeOK'
  BY <1>1 DEF IInv, TypeOK, opened, report, presence, thread
<1>3. Fresh' /\ SessionOfOne' /\ OkIsComplete' /\ Verdict' /\ Grounded' /\ LastSuffices'
  BY <1>1 DEF IInv, Fresh, SessionOfOne, OkIsComplete, Verdict, Grounded, LastSuffices, Early,
         report, presence, thread, Shaken, Admitted
<1>4. ListedKept' /\ CompleteIsReported' /\ ListedIsObserved'
  BY <1>1 DEF IInv, ListedKept, CompleteIsReported, ListedIsObserved, Shaken, report, presence,
         thread
<1> QED BY <1>2, <1>3, <1>4 DEF IInv

\* A stuttering step.
LEMMA StutterStep ==
  ASSUME IInv, UNCHANGED vars
  PROVE  IInv'
<1>1. UNCHANGED <<opened, phase, attempts, report, presence, result, thread, stopped, world>>
  BY DEF vars
<1>2. TypeOK'
  BY <1>1 DEF IInv, TypeOK, opened, report, presence, thread, world
<1>3. Fresh' /\ SessionOfOne' /\ OkIsComplete' /\ Verdict' /\ Grounded' /\ LastSuffices'
  BY <1>1 DEF IInv, Fresh, SessionOfOne, OkIsComplete, Verdict, Grounded, LastSuffices, Early,
         report, presence, thread, world, Shaken, Admitted
<1>4. ListedKept' /\ CompleteIsReported' /\ ListedIsObserved'
  BY <1>1 DEF IInv, ListedKept, CompleteIsReported, ListedIsObserved, Shaken, report, presence,
         thread
<1> QED BY <1>2, <1>3, <1>4 DEF IInv

\* Every reachable state satisfies the invariant.
THEOREM ReportInvariant == Spec => []IInv
<1>1. Init => IInv
  BY InitInv
<1>2. IInv /\ [Next]_vars => IInv'
  <2> SUFFICES ASSUME IInv, [Next]_vars PROVE IInv'
    OBVIOUS
  <2>1. CASE Run
    BY <2>1, OpeningStep, AttemptStep, RaiseStep, SelectStep, SelectNoneStep, ReadAfterStep,
       ListSamplesStep, JudgeStep, WriteStep DEF Run
  <2>2. CASE Monitor
    BY <2>2, MonitorStep
  <2>3. ASSUME NEW p \in Places, AccountMoves(p) PROVE IInv'
    BY <2>3, WorldStep
  <2>4. CASE UNCHANGED vars
    BY <2>4, StutterStep
  <2> QED BY <2>1, <2>2, <2>3, <2>4 DEF Next
<1> QED BY <1>1, <1>2, PTL DEF Spec

\* The variables keep their types, and a run has an exit status when it has ended (run).
THEOREM ReportType == Spec => []TypeOK
<1>1. IInv => TypeOK
  BY DEF IInv
<1> QED BY <1>1, ReportInvariant, PTL

\* A run that succeeds rests on one attempt that was authenticated, accepted and
\* registered, and on an account that was in the place (the gates of run).
THEOREM OneSession == Spec => []OneSessionCarriesAll
<1>1. IInv => OneSessionCarriesAll
  <2> SUFFICES ASSUME IInv, ok, phase \in {"write", "ended"}
               PROVE  /\ "here" \in visited
                      /\ \E i \in Shaken :
                           /\ {"authenticated", "accepted", "registered"} \subseteq attempts[i].gates
                           /\ stage = "complete" => Complete(attempts[i].gates) /\ after = "here"
    BY DEF OneSessionCarriesAll
  <2>1. Admitted /\ "here" \in visited /\ (stage = "complete" => Complete(session) /\ after = "here")
    BY DEF IInv, Verdict
  <2>2. PICK i \in Shaken : session = attempts[i].gates
    BY <2>1 DEF IInv, SessionOfOne, Admitted
  <2> QED BY <2>1, <2>2 DEF Admitted
<1> QED BY <1>1, ReportInvariant, PTL

\* A complete session is never passed over by the choice of the attempt (run).
THEOREM CompleteReported == Spec => []CompleteIsReported
<1>1. IInv => CompleteIsReported
  BY DEF IInv
<1> QED BY <1>1, ReportInvariant, PTL

\* A sample in the place that the report shows is an observation (run).
THEOREM ListedObserved == Spec => []ListedIsObserved
<1>1. IInv => ListedIsObserved
  BY DEF IInv
<1> QED BY <1>1, ReportInvariant, PTL

-----------------------------------------------------------------------------
(* The endpoints, the configuration and the exit status                    *)

\* The stages with which a run succeeds.
Successes == {"complete", "presence-observed"}

\* When the attempts are over, each endpoint has had its own, or the last sufficed.
AllTried ==
  /\ phase \in {"configure", "before", "ticket"} => endpoints = <<>>
  /\ phase \notin {"attempt"} /\ result # Raised =>
       \/ Len(attempts) = Len(endpoints)
       \/ attempts # <<>> /\ Suffices(attempts[Len(attempts)])

\* Attempts are made with a good configuration only, and what they authenticate was
\* asked for with a Request2.
Requested ==
  /\ phase \notin {"configure", "ended"} \/ attempts # <<>> => ~ConfigurationFails(settings)
  /\ \A i \in 1..Len(attempts) :
       "authenticated" \in attempts[i].gates =>
         SendsRequest2(endpoints[i]) /\ ~HeaderRaises(endpoints[i])

\* What stage and status tell at each point.
StageTells ==
  /\ phase \in Early => stage \notin Successes
  /\ phase \in {"after", "list", "judge"} => stage # "presence-observed"
  /\ phase \in {"write", "ended"} => (ok <=> stage \in Successes)
  /\ phase = "ended" => (result = 0 <=> ok)

Course == AllTried /\ Requested /\ StageTells

LEMMA CourseInit == Init => Course
<1> SUFFICES ASSUME Init PROVE Course
  OBVIOUS
<1> QED BY DEF Init, Course, AllTried, Requested, StageTells, Early, Successes, None, Raised, Running

\* Before the attempts there are none, and no endpoints until Bootstrap.
LEMMA CourseOpening ==
  ASSUME IInv, Course,
         \/ ConfigureFails \/ Configure \/ (\E r \in Readings : ReadBefore(r))
         \/ NoTicket \/ Bootstrap
  PROVE  Course'
<1>1. /\ attempts = <<>> /\ endpoints = <<>> /\ ~ok /\ attempts' = attempts /\ ok' = ok
      /\ phase \in {"configure", "before", "ticket"} /\ stage \notin Successes
  BY DEF IInv, Fresh, Course, AllTried, StageTells, Early, ConfigureFails, Configure, ReadBefore,
         NoTicket, Bootstrap, report
<1>2. AllTried'
  <2>1. CASE Bootstrap
    BY <1>1, <2>1 DEF AllTried, Bootstrap
  <2>2. CASE ~Bootstrap
    BY <1>1, <2>2 DEF AllTried, ConfigureFails, Configure, ReadBefore, NoTicket, opened
  <2> QED BY <2>1, <2>2
<1>3. Requested'
  BY <1>1 DEF Course, Requested, ConfigureFails, Configure, ReadBefore, NoTicket, Bootstrap,
     opened, ConfigurationFails
<1>4. StageTells'
  BY <1>1 DEF StageTells, Successes, Early, ConfigureFails, Configure, ReadBefore, NoTicket,
     Bootstrap, report
<1> QED BY <1>2, <1>3, <1>4 DEF Course

\* An attempt is for the next endpoint.
LEMMA CourseFinish ==
  ASSUME IInv, Course, phase = "attempt",
         NEW a \in [handshake : BOOLEAN, gates : SUBSET Gates], Finish(a),
         "authenticated" \in a.gates => SendsRequest2(Next1) /\ ~HeaderRaises(Next1)
  PROVE  Course'
<1>1. /\ attempts \in Seq([handshake : BOOLEAN, gates : SUBSET Gates])
      /\ attempts' = Append(attempts, a)
      /\ phase' = IF Suffices(a) \/ Len(attempts) + 1 = Len(endpoints) THEN "report" ELSE "attempt"
      /\ UNCHANGED <<settings, join, endpoints, stage>>
  BY DEF IInv, TypeOK, Finish, opened, report
<1>2. /\ Len(attempts') = Len(attempts) + 1 /\ Len(attempts) \in Nat
      /\ attempts' # <<>> /\ attempts'[Len(attempts')] = a
      /\ \A i \in 1..Len(attempts) : attempts'[i] = attempts[i]
  BY <1>1
<1>3. AllTried'
  BY <1>1, <1>2 DEF AllTried, Suffices
<1>4. Requested'
  <2>1. ~ConfigurationFails(settings')
    BY <1>1 DEF Course, Requested
  <2>2. ASSUME NEW i \in 1..Len(attempts'), "authenticated" \in attempts'[i].gates
        PROVE  (SendsRequest2(endpoints[i]) /\ ~HeaderRaises(endpoints[i]))'
    <3>1. SendsRequest2(endpoints[i]) /\ ~HeaderRaises(endpoints[i])
      <4>1. CASE i = Len(attempts) + 1
        BY <1>2, <2>2, <4>1 DEF Next1
      <4>2. CASE i \in 1..Len(attempts)
        BY <1>2, <2>2, <4>2 DEF Course, Requested
      <4> QED BY <1>2, <4>1, <4>2
    <3>2. UNCHANGED <<settings, join, endpoints>>
      BY <1>1
    <3> QED BY <3>1, <3>2 DEF SendsRequest2, HeaderRaises, HasHeader, GeneratesHeader
  <2> QED BY <2>1, <2>2 DEF Requested
<1>5. StageTells'
  BY <1>1 DEF Course, StageTells, Early
<1> QED BY <1>3, <1>4, <1>5 DEF Course

LEMMA CourseAttempt ==
  ASSUME IInv, Course,
         Skip \/ AttemptFails \/ (\E handshake \in BOOLEAN, gates \in Outcomes : Attempt(handshake, gates))
  PROVE  Course'
<1>1. CASE Skip \/ AttemptFails
  <2>1. /\ Entry(FALSE, {}) \in [handshake : BOOLEAN, gates : SUBSET Gates]
        /\ "authenticated" \notin Entry(FALSE, {}).gates
    BY DEF Entry
  <2> QED BY <1>1, <2>1, CourseFinish DEF Skip, AttemptFails
<1>2. ASSUME NEW handshake \in BOOLEAN, NEW gates \in Outcomes, Attempt(handshake, gates)
      PROVE  Course'
  <2>1. /\ Entry(handshake, gates) \in [handshake : BOOLEAN, gates : SUBSET Gates]
        /\ Entry(handshake, gates).gates = gates
    BY ReportAssumption DEF Entry
  <2> QED BY <1>2, <2>1, CourseFinish DEF Attempt, Possible
<1> QED BY <1>1, <1>2

\* The rest of run: the attempts and the settings stay.
LEMMA CourseRest ==
  ASSUME IInv, Course,
         \/ Raise \/ (\E i \in 1..Len(attempts) : Select(i)) \/ SelectNone
         \/ (\E r \in Readings : ReadAfter(r)) \/ ListSamples \/ Judge \/ Write
  PROVE  Course'
<1>1. /\ UNCHANGED <<opened, attempts>>
      /\ phase \notin {"configure", "before", "ended"}
      /\ phase' \in {"after", "list", "judge", "write", "ended"}
      /\ result \in {Running, Raised, 0, 2} /\ result = Running
      /\ phase = "attempt" \/ phase = "ticket" => Raise
  BY DEF IInv, TypeOK, Raise, Select, SelectNone, ReadAfter, ListSamples, Judge, Write
<1>2. AllTried'
  <2>1. CASE Raise
    BY <2>1 DEF AllTried, Raise
  <2>2. CASE ~Raise
    <3>1. \/ Len(attempts) = Len(endpoints)
          \/ attempts # <<>> /\ Suffices(attempts[Len(attempts)])
      BY <1>1, <2>2 DEF Course, AllTried, Running, Raised
    <3> QED BY <1>1, <3>1 DEF AllTried, opened, Suffices
  <2> QED BY <2>1, <2>2
<1>3. Requested'
  <2>1. UNCHANGED <<settings, join, endpoints, attempts>> /\ Requested
    BY <1>1 DEF opened, Course
  <2>2. ~ConfigurationFails(settings)
    BY <1>1, <2>1 DEF Requested
  <2>3. ~ConfigurationFails(settings')
    BY <2>1, <2>2
  <2> QED BY <2>1, <2>3 DEF Requested, SendsRequest2, HeaderRaises, HasHeader, GeneratesHeader
<1>4. StageTells'
  <2>1. StageTells /\ ok \in BOOLEAN /\ (phase \in Early => ~ok) /\ OkIsComplete
    BY DEF Course, IInv, TypeOK, Fresh
  <2>2. CASE Raise
    BY <2>1, <2>2 DEF StageTells, Raise, report, Early, Raised
  <2>3. CASE (\E i \in 1..Len(attempts) : Select(i)) \/ SelectNone
    BY <2>3 DEF StageTells, Select, SelectNone, Early
  <2>4. CASE (\E r \in Readings : ReadAfter(r)) \/ ListSamples
    BY <2>1, <2>4 DEF StageTells, ReadAfter, ListSamples, report, Early
  <2>5. CASE Judge
    BY <2>1, <2>5 DEF StageTells, Judge, Early, Successes, OkIsComplete
  <2>6. CASE Write
    BY <2>1, <2>6 DEF StageTells, Write, report, Early
  <2> QED BY <2>2, <2>3, <2>4, <2>5, <2>6
<1> QED BY <1>2, <1>3, <1>4 DEF Course

\* The thread and the world leave the course of run alone.
LEMMA CourseBeside ==
  ASSUME Course, UNCHANGED <<opened, phase, attempts, report, result>>
  PROVE  Course'
<1>1. AllTried'
  BY DEF Course, AllTried, opened, Suffices
<1>2. Requested'
  <2>1. UNCHANGED <<settings, join, endpoints, attempts, phase>> /\ Requested
    BY DEF opened, Course
  <2>2. phase \notin {"configure", "ended"} \/ attempts # <<>> => ~ConfigurationFails(settings')
    BY <2>1 DEF Requested
  <2> QED BY <2>1, <2>2 DEF Requested, SendsRequest2, HeaderRaises, HasHeader, GeneratesHeader
<1>3. StageTells'
  BY DEF Course, StageTells, report
<1> QED BY <1>1, <1>2, <1>3 DEF Course

LEMMA CourseInvariant == Spec => [](IInv /\ Course)
<1>1. IInv /\ Course /\ [Next]_vars => Course'
  <2> SUFFICES ASSUME IInv, Course, [Next]_vars PROVE Course'
    OBVIOUS
  <2>1. CASE Run
    BY <2>1, CourseOpening, CourseAttempt, CourseRest DEF Run
  <2>2. CASE Monitor
    BY <2>2, CourseBeside DEF Monitor, StartReading, EndReading, EndMonitor
  <2>3. ASSUME NEW p \in Places, AccountMoves(p) PROVE Course'
    BY <2>3, CourseBeside DEF AccountMoves
  <2>4. CASE UNCHANGED vars
    BY <2>4, CourseBeside DEF vars
  <2> QED BY <2>1, <2>2, <2>3, <2>4 DEF Next
<1> QED BY <1>1, CourseInit, ReportInvariant, PTL DEF Spec

\* No endpoint is passed over: a run that reports has made an attempt at each that
\* choose_endpoints returned, or its last attempt sufficed; none before that one did.
NonePassedOver ==
  phase \in {"report", "after", "list", "judge", "write"} =>
    /\ \/ Len(attempts) = Len(endpoints)
       \/ attempts # <<>> /\ Suffices(attempts[Len(attempts)])
    /\ \A i \in 1..Len(attempts) : Suffices(attempts[i]) => i = Len(attempts)

\* A success was asked for: the configuration was loaded without an error and, at the
\* endpoint whose session the verdict rests on, a header could be had and a Request2
\* could be built from the join's material.
SuccessRequested ==
  ok /\ phase \in {"write", "ended"} =>
    /\ ~ConfigurationFails(settings)
    /\ \E i \in Shaken :
         /\ {"authenticated", "accepted", "registered"} \subseteq attempts[i].gates
         /\ SendsRequest2(endpoints[i]) /\ ~HeaderRaises(endpoints[i])

\* Once the presence is judged the report says ok exactly in the two stages of
\* success, and the exit status is 0 exactly then.
VerdictsAgree ==
  /\ phase \in {"write", "ended"} => (ok <=> stage \in Successes)
  /\ phase = "ended" => (result = 0 <=> ok)

\* The loop over the endpoints leaves none out and makes no attempt after the one
\* that suffices, whatever attempts fail and are skipped (run).
THEOREM EndpointsTried == Spec => []NonePassedOver
<1>1. IInv /\ Course => NonePassedOver
  <2> SUFFICES ASSUME IInv, Course, phase \in {"report", "after", "list", "judge", "write"}
               PROVE  /\ \/ Len(attempts) = Len(endpoints)
                         \/ attempts # <<>> /\ Suffices(attempts[Len(attempts)])
                      /\ \A i \in 1..Len(attempts) : Suffices(attempts[i]) => i = Len(attempts)
    BY DEF NonePassedOver
  <2>1. result # Raised
    BY DEF IInv, TypeOK, Running, Raised
  <2> QED BY <2>1 DEF Course, AllTried, IInv, LastSuffices
<1> QED BY <1>1, CourseInvariant, PTL

\* A run never succeeds without what the protocol needs for it: its success leads
\* back to a good configuration, join material, a header and a Request2 (run, attempt).
THEOREM SuccessWasRequested == Spec => []SuccessRequested
<1>1. IInv /\ Course => SuccessRequested
  <2> SUFFICES ASSUME IInv, Course, ok, phase \in {"write", "ended"}
               PROVE  /\ ~ConfigurationFails(settings)
                      /\ \E i \in Shaken :
                           /\ {"authenticated", "accepted", "registered"} \subseteq attempts[i].gates
                           /\ SendsRequest2(endpoints[i]) /\ ~HeaderRaises(endpoints[i])
    BY DEF SuccessRequested
  <2>1. Admitted
    BY DEF IInv, Verdict
  <2>2. PICK i \in Shaken : session = attempts[i].gates
    BY <2>1 DEF IInv, SessionOfOne, Admitted
  <2>3. i \in 1..Len(attempts) /\ {"authenticated", "accepted", "registered"} \subseteq attempts[i].gates
    BY <2>1, <2>2 DEF Admitted, Shaken
  <2>4. attempts # <<>>
    BY <2>3
  <2> QED BY <2>3, <2>4 DEF Course, Requested
<1> QED BY <1>1, CourseInvariant, PTL

\* The report's verdict, its stage and the exit status never disagree, also when an
\* exception leaves run without a report (run, main).
THEOREM VerdictsAgreeTheorem == Spec => []VerdictsAgree
<1>1. Course => VerdictsAgree
  BY DEF Course, StageTells, VerdictsAgree
<1> QED BY <1>1, CourseInvariant, PTL

-----------------------------------------------------------------------------
(* Induction, in terms of sets                                             *)

\* A set of naturals has a least element: of the intervals up to its elements one has
\* none of the others strictly inside.
LEMMA LeastNatural ==
  ASSUME NEW T \in SUBSET Nat, T # {}
  PROVE  \E m \in T : \A k \in T : m <= k
<1>1. PICK n \in T : TRUE
  OBVIOUS
<1> DEFINE Upto == {0..m : m \in {k \in T : k <= n}}
<1>2. 0..n \in Upto
  BY <1>1
<1>3. Upto \subseteq FiniteSubsetsOf(0..n)
  <2> SUFFICES ASSUME NEW m \in T, m <= n PROVE 0..m \in FiniteSubsetsOf(0..n)
    OBVIOUS
  <2>1. IsFiniteSet(0..m)
    BY FS_Interval
  <2>2. 0..m \subseteq 0..n
    BY <1>1
  <2> QED BY <2>1, <2>2 DEF FiniteSubsetsOf
<1>4. IsWellFoundedOn(StrictSubsetOrdering(0..n), FiniteSubsetsOf(0..n))
  BY FS_StrictSubsetOrderingWellFounded
<1> HIDE DEF Upto
<1>5. PICK x \in Upto : \A y \in Upto : ~(<<y, x>> \in StrictSubsetOrdering(0..n))
  <2>1. Upto # {}
    BY <1>2
  <2> QED BY <1>3, <1>4, <2>1, WFMin
<1>6. PICK m \in T : m <= n /\ x = 0..m
  BY <1>5 DEF Upto
<1>7. ASSUME NEW k \in T, k < m PROVE FALSE
  <2>1. 0..k \in Upto
    BY <1>1, <1>6, <1>7 DEF Upto
  <2>2. 0..k \subseteq 0..m /\ 0..k # 0..m /\ 0..m \subseteq 0..n /\ 0..k \subseteq 0..n
    BY <1>1, <1>6, <1>7
  <2>3. <<0..k, 0..m>> \in StrictSubsetOrdering(0..n)
    BY <2>2 DEF StrictSubsetOrdering
  <2> QED BY <1>5, <1>6, <2>1, <2>3
<1> QED BY <1>6, <1>7

LEMMA SetInduction ==
  ASSUME NEW T, 0 \in T, \A n \in Nat : n \in T => n + 1 \in T
  PROVE  Nat \subseteq T
<1> SUFFICES ASSUME Nat \ T # {} PROVE FALSE
  OBVIOUS
<1>1. PICK m \in Nat \ T : \A k \in Nat \ T : m <= k
  BY LeastNatural
<1>2. m # 0 /\ m - 1 \in Nat
  BY <1>1
<1>3. m - 1 \in T
  BY <1>1, <1>2
<1> QED BY <1>1, <1>2, <1>3

-----------------------------------------------------------------------------
(* The endpoints                                                           *)

Repeated(s, n) == \E k \in 1..n - 1 : s[k].address = s[n].address

\* FirstOfEachAddress, one step.
Step(s, g, n) ==
  IF n = 0 THEN <<>>
  ELSE IF Repeated(s, n) THEN g[n - 1]
  ELSE Append(g[n - 1], s[n])

\* The function that its recursion asks for exists.
LEMMA PrefixesExist ==
  ASSUME NEW s, NEW m \in Nat
  PROVE  \E g : g = [n \in 0..m |-> Step(s, g, n)]
<1> DEFINE T == {k \in Nat : \E g : g = [n \in 0..k |-> Step(s, g, n)]}
<1>1. 0 \in T
  <2>1. [n \in 0..0 |-> <<>>] = [n \in 0..0 |-> Step(s, [x \in 0..0 |-> <<>>], n)]
    BY DEF Step
  <2> QED BY <2>1
<1>2. ASSUME NEW k \in Nat, k \in T PROVE k + 1 \in T
  <2>1. PICK g : g = [n \in 0..k |-> Step(s, g, n)]
    BY <1>2
  <2> DEFINE h == [n \in 0..k + 1 |-> IF n \in 0..k THEN g[n] ELSE Step(s, g, n)]
  <2>2. ASSUME NEW n \in 0..k + 1 PROVE h[n] = Step(s, h, n)
    <3>1. n # 0 => n - 1 \in 0..k /\ h[n - 1] = g[n - 1]
      OBVIOUS
    <3>2. Step(s, h, n) = Step(s, g, n)
      BY <3>1 DEF Step
    <3>3. n \in 0..k => g[n] = Step(s, g, n)
      BY <2>1
    <3> QED BY <3>2, <3>3
  <2>3. h = [n \in 0..k + 1 |-> h[n]]
    OBVIOUS
  <2> HIDE DEF h
  <2>4. h = [n \in 0..k + 1 |-> Step(s, h, n)]
    BY <2>2, <2>3
  <2> QED BY <2>4
<1> HIDE DEF T
<1>3. m \in T
  BY <1>1, <1>2, SetInduction
<1> QED BY <1>3 DEF T

\* What the recursion computes: the last of the prefixes g[0], g[1], ...
LEMMA FirstsAreSteps ==
  ASSUME NEW s, Len(s) \in Nat
  PROVE  \E g : g = [n \in 0..Len(s) |-> Step(s, g, n)] /\ FirstOfEachAddress(s) = g[Len(s)]
<1> DEFINE f == CHOOSE g : g = [n \in 0..Len(s) |->
                   IF n = 0 THEN <<>>
                   ELSE IF \E k \in 1..n - 1 : s[k].address = s[n].address THEN g[n - 1]
                   ELSE Append(g[n - 1], s[n])]
<1>1. FirstOfEachAddress(s) = f[Len(s)]
  BY DEF FirstOfEachAddress
<1>2. \E g : g = [n \in 0..Len(s) |->
                   IF n = 0 THEN <<>>
                   ELSE IF \E k \in 1..n - 1 : s[k].address = s[n].address THEN g[n - 1]
                   ELSE Append(g[n - 1], s[n])]
  BY PrefixesExist DEF Step, Repeated
<1>3. f = [n \in 0..Len(s) |->
                   IF n = 0 THEN <<>>
                   ELSE IF \E k \in 1..n - 1 : s[k].address = s[n].address THEN f[n - 1]
                   ELSE Append(f[n - 1], s[n])]
  BY <1>2
<1> HIDE DEF f
<1>4. f = [n \in 0..Len(s) |-> Step(s, f, n)]
  BY <1>3 DEF Step, Repeated
<1> QED BY <1>1, <1>4

IsFirst(s, i) == \A k \in 1..i - 1 : s[k].address # s[i].address

\* t lists the first candidate of each address among the first n of s, in their order.
Firsts(s, n, t) ==
  /\ \A i \in 1..n : \E k \in 1..Len(t) : t[k].address = s[i].address
  /\ \A k \in 1..Len(t) : \E i \in 1..n : t[k] = s[i] /\ IsFirst(s, i)
  /\ \A k, l \in 1..Len(t) : t[k].address = t[l].address => k = l
  /\ \A k, l \in 1..Len(t), i, j \in 1..n :
       k < l /\ t[k].address = s[i].address /\ IsFirst(s, i) /\ t[l].address = s[j].address => i < j

\* One step of the recursion.
LEMMA FirstsStep ==
  ASSUME NEW E, NEW s \in Seq(E), NEW n \in Nat, n + 1 <= Len(s),
         NEW t \in Seq(E), Firsts(s, n, t),
         NEW u, u = IF Repeated(s, n + 1) THEN t ELSE Append(t, s[n + 1])
  PROVE  u \in Seq(E) /\ Firsts(s, n + 1, u)
<1>0. Len(s) \in Nat /\ Len(t) \in Nat /\ n + 1 \in 1..Len(s) /\ s[n + 1] \in E
  OBVIOUS
<1>1. CASE Repeated(s, n + 1)
  <2>0. u = t
    BY <1>1
  <2>1. PICK r \in 1..n : s[r].address = s[n + 1].address
    BY <1>1 DEF Repeated
  <2>2. ~IsFirst(s, n + 1)
    BY <1>1 DEF IsFirst, Repeated
  <2>3. \A i \in 1..n + 1 : i \in 1..n \/ i = n + 1
    OBVIOUS
  <2>4. \A i \in 1..n + 1 : \E k \in 1..Len(t) : t[k].address = s[i].address
    BY <2>1, <2>3 DEF Firsts
  <2>5. \A k \in 1..Len(t) : \E i \in 1..n + 1 : t[k] = s[i] /\ IsFirst(s, i)
    BY DEF Firsts
  <2>6. ASSUME NEW k \in 1..Len(t), NEW l \in 1..Len(t), NEW i \in 1..n + 1, NEW j \in 1..n + 1,
               k < l, t[k].address = s[i].address, IsFirst(s, i), t[l].address = s[j].address
        PROVE  i < j
    <3>1. i \in 1..n
      BY <2>2, <2>3, <2>6
    <3>2. CASE j \in 1..n
      BY <2>6, <3>1, <3>2 DEF Firsts
    <3>3. CASE j = n + 1
      BY <3>1, <3>3
    <3> QED BY <2>3, <3>2, <3>3
  <2>7. Firsts(s, n + 1, t)
    BY <2>4, <2>5, <2>6 DEF Firsts
  <2> QED BY <2>0, <2>7
<1>2. CASE ~Repeated(s, n + 1)
  <2>1. /\ u \in Seq(E) /\ Len(u) = Len(t) + 1 /\ u[Len(t) + 1] = s[n + 1]
        /\ \A k \in 1..Len(t) : u[k] = t[k]
        /\ \A k \in 1..Len(u) : k \in 1..Len(t) \/ k = Len(t) + 1
    BY <1>0, <1>2
  <2>2. IsFirst(s, n + 1) /\ \A i \in 1..n : s[i].address # s[n + 1].address
    BY <1>2 DEF IsFirst, Repeated
  <2>3. \A i \in 1..n + 1 : i \in 1..n \/ i = n + 1
    OBVIOUS
  <2>4. \A k \in 1..Len(t) : u[k].address # s[n + 1].address
    BY <2>1, <2>2 DEF Firsts
  <2>5. \A i \in 1..n + 1 : \E k \in 1..Len(u) : u[k].address = s[i].address
    <3> SUFFICES ASSUME NEW i \in 1..n + 1 PROVE \E k \in 1..Len(u) : u[k].address = s[i].address
      OBVIOUS
    <3>1. CASE i \in 1..n
      <4>1. PICK k \in 1..Len(t) : t[k].address = s[i].address
        BY <3>1 DEF Firsts
      <4> QED BY <1>0, <2>1, <4>1
    <3>2. CASE i = n + 1
      BY <1>0, <2>1, <3>2
    <3> QED BY <2>3, <3>1, <3>2
  <2>6. \A k \in 1..Len(u) : \E i \in 1..n + 1 : u[k] = s[i] /\ IsFirst(s, i)
    <3> SUFFICES ASSUME NEW k \in 1..Len(u) PROVE \E i \in 1..n + 1 : u[k] = s[i] /\ IsFirst(s, i)
      OBVIOUS
    <3>1. CASE k \in 1..Len(t)
      <4>1. PICK i \in 1..n : t[k] = s[i] /\ IsFirst(s, i)
        BY <3>1 DEF Firsts
      <4>2. i \in 1..n + 1 /\ u[k] = t[k]
        BY <2>1, <3>1
      <4> QED BY <4>1, <4>2
    <3>2. CASE k = Len(t) + 1
      <4>1. n + 1 \in 1..n + 1 /\ u[k] = s[n + 1]
        BY <2>1, <3>2
      <4> QED BY <2>2, <4>1
    <3> QED BY <2>1, <3>1, <3>2
  <2>7. \A k, l \in 1..Len(u) : u[k].address = u[l].address => k = l
    <3> SUFFICES ASSUME NEW k \in 1..Len(u), NEW l \in 1..Len(u), u[k].address = u[l].address
                 PROVE  k = l
      OBVIOUS
    <3>1. CASE k \in 1..Len(t) /\ l \in 1..Len(t)
      BY <2>1, <3>1 DEF Firsts
    <3>2. CASE k = Len(t) + 1 \/ l = Len(t) + 1
      BY <2>1, <2>4, <3>2
    <3> QED BY <2>1, <3>1, <3>2
  <2>8. ASSUME NEW k \in 1..Len(u), NEW l \in 1..Len(u), NEW i \in 1..n + 1, NEW j \in 1..n + 1,
               k < l, u[k].address = s[i].address, IsFirst(s, i), u[l].address = s[j].address
        PROVE  i < j
    <3>1. k \in 1..Len(t)
      BY <1>0, <2>1, <2>8
    <3>2. i \in 1..n
      BY <2>3, <2>4, <2>8, <3>1
    <3>3. CASE l = Len(t) + 1
      <4>1. s[j].address = s[n + 1].address
        BY <2>1, <2>8, <3>3
      <4>2. j = n + 1
        BY <2>2, <2>3, <4>1
      <4> QED BY <3>2, <4>2
    <3>4. CASE l \in 1..Len(t)
      <4>1. j \in 1..n
        BY <2>3, <2>4, <2>8, <3>4
      <4>2. t[k].address = s[i].address /\ t[l].address = s[j].address
        BY <2>1, <2>8, <3>1, <3>4
      <4> QED BY <2>8, <3>1, <3>2, <3>4, <4>1, <4>2 DEF Firsts
    <3> QED BY <2>1, <3>3, <3>4
  <2> QED BY <2>1, <2>5, <2>6, <2>7, <2>8 DEF Firsts
<1> QED BY <1>1, <1>2

\* FirstOfEachAddress is what its name says, for every list of candidates.
LEMMA FirstsCorrect ==
  ASSUME NEW E, NEW s \in Seq(E)
  PROVE  FirstOfEachAddress(s) \in Seq(E) /\ Firsts(s, Len(s), FirstOfEachAddress(s))
<1>0. Len(s) \in Nat
  OBVIOUS
<1>1. PICK g : g = [n \in 0..Len(s) |-> Step(s, g, n)] /\ FirstOfEachAddress(s) = g[Len(s)]
  BY <1>0, FirstsAreSteps
<1>2. \A n \in 0..Len(s) : g[n] = Step(s, g, n)
  BY <1>1
<1> DEFINE T == {n \in Nat : n <= Len(s) => g[n] \in Seq(E) /\ Firsts(s, n, g[n])}
<1>3. 0 \in T
  <2>1. g[0] = <<>>
    BY <1>0, <1>2 DEF Step
  <2>2. <<>> \in Seq(E) /\ Firsts(s, 0, <<>>)
    BY DEF Firsts
  <2> QED BY <2>1, <2>2
<1>4. ASSUME NEW n \in Nat, n \in T PROVE n + 1 \in T
  <2> SUFFICES ASSUME n + 1 <= Len(s)
               PROVE  g[n + 1] \in Seq(E) /\ Firsts(s, n + 1, g[n + 1])
    OBVIOUS
  <2>1. g[n] \in Seq(E) /\ Firsts(s, n, g[n])
    BY <1>0, <1>4
  <2>2. g[n + 1] = Step(s, g, n + 1)
    BY <1>0, <1>2
  <2>3. Step(s, g, n + 1) = IF Repeated(s, n + 1) THEN g[n] ELSE Append(g[n], s[n + 1])
    BY DEF Step
  <2> QED BY <2>1, <2>2, <2>3, FirstsStep
<1> HIDE DEF T
<1>5. Len(s) \in T
  BY <1>0, <1>3, <1>4, SetInduction
<1> QED BY <1>0, <1>1, <1>5 DEF T

\* The candidates of a join are a list.
LEMMA CandidatesAreListed ==
  ASSUME NEW j \in Joins
  PROVE  \E E : Candidates(j) \in Seq(E)
<1> DEFINE u == Endpoint("udmux", j.udmux_ip, j.udmux_port)
           n == Endpoint("netstack", j.udmux_ip, j.netstack_port)
           d == Endpoint("direct", j.server_ip, j.server_port)
           c(i) == Endpoint("server-connection", j.connections[i][1], j.connections[i][2])
           E == {u, n, d} \cup {c(i) : i \in 1..Len(j.connections)}
           C == [i \in 1..Len(j.connections) |-> c(i)]
<1>1. u \in E /\ n \in E /\ d \in E
  OBVIOUS
<1>2. Len(j.connections) \in Nat
  BY ReportAssumption
<1>3. C \in Seq(E)
  BY <1>2
<1> HIDE DEF u, n, d, E, C
<1>4. \A x \in E, b \in BOOLEAN : If(b, <<x>>) \in Seq(E)
  BY DEF If
<1> DEFINE us == If(j.udmux_ip # None /\ j.udmux_port # None, <<u>>)
           ns == If(j.udmux_ip # None /\ j.netstack_port \notin {None, j.udmux_port}, <<n>>)
           ds == If(j.server_ip # None /\ j.server_port # None, <<d>>)
<1>5. Candidates(j) = us \o ns \o ds \o C
  BY DEF Candidates, u, n, d, C
<1>6. us \in Seq(E) /\ ns \in Seq(E) /\ ds \in Seq(E)
  BY <1>1, <1>4
<1> HIDE DEF us, ns, ds
<1>7. us \o ns \in Seq(E)
  BY <1>6
<1>8. us \o ns \o ds \in Seq(E)
  BY <1>6, <1>7
<1>9. us \o ns \o ds \o C \in Seq(E)
  BY <1>3, <1>8
<1> QED BY <1>5, <1>9

DistinctAddresses(t) == \A k, l \in 1..Len(t) : t[k].address = t[l].address => k = l

\* choose_endpoints keeps each address of a candidate once, whatever the join is.
LEMMA EndpointsAreFirsts ==
  ASSUME NEW j \in Joins
  PROVE  /\ \E E : ChooseEndpoints(j) \in Seq(E)
         /\ DistinctAddresses(ChooseEndpoints(j))
         /\ ~NoJoinData(j) /\ Candidates(j) # <<>> =>
              Firsts(Candidates(j), Len(Candidates(j)), ChooseEndpoints(j))
<1> DEFINE host == First(Known(j).udmux_ip, j.server_ip)
           port == First(Known(j).udmux_port, j.server_port)
           fallback == Endpoint("fallback", host, port)
<1>1. CASE j.reached /\ ~NoJoinData(j) /\ Candidates(j) # <<>>
  <2>1. ChooseEndpoints(j) = FirstOfEachAddress(Candidates(j))
    BY <1>1 DEF ChooseEndpoints
  <2>2. PICK E : Candidates(j) \in Seq(E)
    BY CandidatesAreListed
  <2>3. /\ FirstOfEachAddress(Candidates(j)) \in Seq(E)
        /\ Firsts(Candidates(j), Len(Candidates(j)), FirstOfEachAddress(Candidates(j)))
    BY <2>2, FirstsCorrect
  <2> QED BY <2>1, <2>3 DEF Firsts, DistinctAddresses
<1>2. CASE ~(j.reached /\ ~NoJoinData(j) /\ Candidates(j) # <<>>)
  <2>1. ChooseEndpoints(j) = <<>> \/ ChooseEndpoints(j) = <<fallback>>
    BY <1>2 DEF ChooseEndpoints, If
  <2>2. <<>> \in Seq({fallback}) /\ <<fallback>> \in Seq({fallback})
        /\ Len(<<>>) = 0 /\ Len(<<fallback>>) = 1
    OBVIOUS
  <2> HIDE DEF fallback
  <2>3. NoJoinData(j) \/ Candidates(j) = <<>>
    BY <1>2 DEF NoJoinData
  <2>4. ChooseEndpoints(j) \in Seq({fallback}) /\ Len(ChooseEndpoints(j)) \in {0, 1}
    BY <2>1, <2>2
  <2>5. DistinctAddresses(ChooseEndpoints(j))
    BY <2>4 DEF DistinctAddresses
  <2> QED BY <2>3, <2>4, <2>5
<1> QED BY <1>1, <1>2

\* The attempts walk along the endpoints of the join.
Walk ==
  /\ endpoints \in {<<>>, ChooseEndpoints(join)}
  /\ Len(attempts) <= Len(endpoints)
  /\ phase \in {"configure", "before", "ticket"} => endpoints = <<>>
  /\ phase = "attempt" => endpoints # <<>> /\ Len(attempts) < Len(endpoints)

LEMMA WalkInit == Init => Walk
  BY DEF Init, Walk

LEMMA WalkStep == IInv /\ Walk /\ [Next]_vars => Walk'
<1> SUFFICES ASSUME IInv, Walk, [Next]_vars PROVE Walk'
  OBVIOUS
<1>0. /\ join \in Joins /\ attempts \in Seq([handshake : BOOLEAN, gates : SUBSET Gates])
      /\ Len(attempts) \in Nat
  BY DEF IInv, TypeOK
<1>1. PICK E : ChooseEndpoints(join) \in Seq(E)
  BY <1>0, EndpointsAreFirsts
<1>2. /\ Len(ChooseEndpoints(join)) \in Nat /\ Len(<<>>) = 0
      /\ ChooseEndpoints(join) # <<>> => Len(ChooseEndpoints(join)) > 0
  BY <1>1
<1>3. CASE Bootstrap
  <2>1. attempts = <<>> /\ attempts' = attempts /\ join' = join
    BY <1>3 DEF IInv, Fresh, Bootstrap
  <2>2. endpoints' = ChooseEndpoints(join) /\ (phase' = "attempt" => endpoints' # <<>>)
        /\ phase' \in {"after", "attempt"}
    BY <1>3 DEF Bootstrap
  <2> HIDE DEF ChooseEndpoints
  <2> QED BY <1>2, <2>1, <2>2 DEF Walk
<1>4. ASSUME NEW a \in [handshake : BOOLEAN, gates : SUBSET Gates], phase = "attempt", Finish(a)
      PROVE  Walk'
  <2>1. /\ Len(attempts') = Len(attempts) + 1 /\ Len(endpoints) \in Nat
        /\ UNCHANGED <<join, endpoints>>
        /\ phase' = IF Suffices(a) \/ Len(attempts) + 1 = Len(endpoints) THEN "report" ELSE "attempt"
    BY <1>0, <1>2, <1>4 DEF Walk, Finish, opened
  <2>2. ChooseEndpoints(join') = ChooseEndpoints(join)
    BY <2>1
  <2>3. Len(attempts) < Len(endpoints) /\ endpoints # <<>>
    BY <1>4 DEF Walk
  <2> QED BY <1>0, <2>1, <2>2, <2>3 DEF Walk
<1>5. CASE Skip \/ AttemptFails \/ (\E handshake \in BOOLEAN, gates \in Outcomes : Attempt(handshake, gates))
  <2>1. \A handshake \in BOOLEAN, gates \in Outcomes \cup {{}} :
          Entry(handshake, gates) \in [handshake : BOOLEAN, gates : SUBSET Gates]
    BY ReportAssumption DEF Entry
  <2> QED BY <1>4, <1>5, <2>1 DEF Skip, AttemptFails, Attempt
<1>6. ASSUME UNCHANGED <<join, endpoints, attempts>>,
             phase' \in {"configure", "before", "ticket"} => phase \in {"configure", "before", "ticket"},
             phase' = "attempt" => phase = "attempt"
      PROVE  Walk'
  <2>1. ChooseEndpoints(join') = ChooseEndpoints(join)
    BY <1>6
  <2> QED BY <1>6, <2>1 DEF Walk
<1>7. ASSUME \/ ConfigureFails \/ Configure \/ (\E r \in Readings : ReadBefore(r)) \/ NoTicket
             \/ Raise \/ (\E i \in 1..Len(attempts) : Select(i)) \/ SelectNone
             \/ (\E r \in Readings : ReadAfter(r)) \/ ListSamples \/ Judge \/ Write
      PROVE  Walk'
  <2>1. /\ UNCHANGED <<opened, attempts>> /\ phase' # "attempt"
        /\ phase' \in {"configure", "before", "ticket"} => phase \in {"configure", "before", "ticket"}
    BY <1>7 DEF ConfigureFails, Configure, ReadBefore, NoTicket, Raise, Select, SelectNone, ReadAfter,
       ListSamples, Judge, Write
  <2> QED BY <1>6, <2>1 DEF opened
<1>8. ASSUME UNCHANGED <<opened, phase, attempts>>
      PROVE  Walk'
  BY <1>6, <1>8 DEF opened
<1>9. CASE Monitor
  BY <1>8, <1>9 DEF Monitor, StartReading, EndReading, EndMonitor
<1>10. CASE (\E p \in Places : AccountMoves(p)) \/ UNCHANGED vars
  BY <1>8, <1>10 DEF AccountMoves, vars
<1> QED BY <1>3, <1>5, <1>7, <1>9, <1>10 DEF Next, Run

\* No address is tried twice, and attempts are made at endpoints of the join only.
AddressesOnce ==
  /\ Len(attempts) <= Len(endpoints)
  /\ \A i, k \in 1..Len(attempts) : endpoints[i].address = endpoints[k].address => i = k

\* A run that reports without an attempt that sufficed has tried the address of every
\* candidate that the join names.
CandidatesTried ==
  /\ phase \in {"report", "after", "list", "judge", "write"}
  /\ attempts # <<>> /\ ~NoJoinData(join)
  /\ \A i \in 1..Len(attempts) : ~Suffices(attempts[i])
  => \A c \in 1..Len(Candidates(join)) :
       \E k \in 1..Len(attempts) : endpoints[k].address = Candidates(join)[c].address

\* Addresses are tried in the order in which the join's candidates first name them.
TriedInOrder ==
  ~NoJoinData(join) /\ Candidates(join) # <<>> =>
    \A k, l \in 1..Len(attempts), i, j \in 1..Len(Candidates(join)) :
      /\ k < l
      /\ endpoints[k].address = Candidates(join)[i].address /\ IsFirst(Candidates(join), i)
      /\ endpoints[l].address = Candidates(join)[j].address
      => i < j

LEMMA WalkInvariant == Spec => [](IInv /\ Course /\ Walk)
<1> QED BY WalkInit, WalkStep, CourseInvariant, PTL DEF Spec

\* The facts about the endpoints that the theorems use.
LEMMA WalkedEndpoints ==
  ASSUME IInv, Walk
  PROVE  /\ Len(attempts) \in Nat /\ Len(endpoints) \in Nat /\ Len(attempts) <= Len(endpoints)
         /\ DistinctAddresses(endpoints)
         /\ attempts # <<>> /\ ~NoJoinData(join) /\ Candidates(join) # <<>> =>
              Firsts(Candidates(join), Len(Candidates(join)), endpoints)
<1>1. join \in Joins /\ attempts \in Seq([handshake : BOOLEAN, gates : SUBSET Gates])
  BY DEF IInv, TypeOK
<1>2. PICK E : ChooseEndpoints(join) \in Seq(E)
  BY <1>1, EndpointsAreFirsts
<1>3. CASE endpoints = <<>>
  <2>1. Len(endpoints) = 0 /\ Len(attempts) = 0 /\ attempts = <<>>
    BY <1>1, <1>3 DEF Walk
  <2> QED BY <2>1 DEF Walk, DistinctAddresses
<1>4. CASE endpoints = ChooseEndpoints(join)
  BY <1>1, <1>2, <1>4, EndpointsAreFirsts DEF Walk
<1> QED BY <1>3, <1>4 DEF Walk

\* No server is asked twice, though a join names an address up to four times, and
\* the desktop client's order is kept (endpoint_candidates, choose_endpoints, run).
THEOREM AddressesTriedOnce == Spec => [](AddressesOnce /\ TriedInOrder)
<1>1. IInv /\ Walk => AddressesOnce
  <2> SUFFICES ASSUME IInv, Walk PROVE AddressesOnce
    OBVIOUS
  <2>1. \A i \in 1..Len(attempts) : i \in 1..Len(endpoints)
    BY WalkedEndpoints
  <2> QED BY <2>1, WalkedEndpoints DEF AddressesOnce, DistinctAddresses
<1>2. IInv /\ Walk => TriedInOrder
  <2> SUFFICES ASSUME IInv, Walk, ~NoJoinData(join), Candidates(join) # <<>>,
                      NEW k \in 1..Len(attempts), NEW l \in 1..Len(attempts),
                      NEW i \in 1..Len(Candidates(join)), NEW j \in 1..Len(Candidates(join)),
                      k < l,
                      endpoints[k].address = Candidates(join)[i].address,
                      IsFirst(Candidates(join), i),
                      endpoints[l].address = Candidates(join)[j].address
               PROVE  i < j
    BY DEF TriedInOrder
  <2>1. k \in 1..Len(endpoints) /\ l \in 1..Len(endpoints)
    BY WalkedEndpoints
  <2>2. attempts # <<>>
    BY WalkedEndpoints
  <2>3. Firsts(Candidates(join), Len(Candidates(join)), endpoints)
    BY <2>2, WalkedEndpoints
  <2> QED BY <2>1, <2>3 DEF Firsts
<1> QED BY <1>1, <1>2, WalkInvariant, PTL

\* No address that the join names is left out, unless an attempt suffices: also when
\* earlier attempts fail, are skipped or shake hands in vain (choose_endpoints, run).
THEOREM CandidatesAreTried == Spec => []CandidatesTried
<1>1. IInv /\ Course /\ Walk => CandidatesTried
  <2> SUFFICES ASSUME IInv, Course, Walk,
                      phase \in {"report", "after", "list", "judge", "write"},
                      attempts # <<>>, ~NoJoinData(join),
                      \A i \in 1..Len(attempts) : ~Suffices(attempts[i]),
                      NEW c \in 1..Len(Candidates(join))
               PROVE  \E k \in 1..Len(attempts) :
                        endpoints[k].address = Candidates(join)[c].address
    BY DEF CandidatesTried
  <2>1. result # Raised
    BY DEF IInv, TypeOK, Running, Raised
  <2>2. Len(attempts) \in 1..Len(attempts)
    BY DEF IInv, TypeOK
  <2>3. Len(attempts) = Len(endpoints)
    BY <2>1, <2>2 DEF Course, AllTried
  <2>4. Candidates(join) # <<>>
    OBVIOUS
  <2>5. Firsts(Candidates(join), Len(Candidates(join)), endpoints)
    BY <2>4, WalkedEndpoints
  <2> QED BY <2>3, <2>5 DEF Firsts
<1> QED BY <1>1, WalkInvariant, PTL

=============================================================================
