-------------------------- MODULE Replicator_proofs --------------------------
(***************************************************************************)
(* Theorems on Replicator, for every set of messages, datagrams and        *)
(* aliases.  Each invariant is inductive on its own or next to TypeOK; the *)
(* lemmas say what one message adds.                                       *)
(***************************************************************************)
EXTENDS Replicator, TLAPS

\* A counter of the model stays below its bound.
LEMMA CappedType ==
  ASSUME NEW n \in Nat
  PROVE  /\ Capped(n) \in 0..MaxCount
         /\ n \in 0..MaxCount => Capped(n) = n
         /\ \A k \in 0..MaxCount : k <= n => k <= Capped(n)
  BY ReplicatorAssumption DEF Capped

\* A message adds 0, 1, 2 or 3 to a counter, and only flags to the evidence.
LEMMA AddsType ==
  ASSUME NEW m
  PROVE  /\ Adds(m) \subseteq Fields
         /\ \A c \in {"heartbeat", "physics"} : Counts(m, c) \in Nat /\ One(IsCounted(m, c)) \in Nat
<1>1. Adds(m) \subseteq Fields
  BY DEF Adds, ById, ByBlock, ByAlias, ByText, If, Fields
<1>2. \A c \in {"heartbeat", "physics"} : Counts(m, c) \in Nat /\ One(IsCounted(m, c)) \in Nat
  BY DEF Counts, One
<1> QED BY <1>1, <1>2

\* What a message adds to the evidence, the character apart, is what it is a ground for.
LEMMA AddsGrounds ==
  ASSUME NEW m \in Messages, NEW f \in Fields \ {"character_spawn_observed"}
  PROVE  f \in Adds(m) <=> Grounds(m, f)
<1> USE DEF Adds, ById, ByBlock, ByAlias, ByText, If, Holds, Grounds, Fields
<1>0. m \in Message
  BY ReplicatorAssumption
<1>t. m.text \in {"none", "part", "figure"}
  BY <1>0 DEF Message, Texts
<1>1. CASE f \in {"connection_accepted", "bootstrap_observed", "schema_observed", "replicator_registered"}
  BY <1>1 DEF IsData
<1>2. CASE f = "player_instance_observed"
  BY <1>2
<1>3. CASE f = "player_ready_observed"
  BY <1>3
<1>4. CASE f = "avatar_data_observed"
  BY <1>4, <1>t
<1>5. CASE f = "observer_visibility_verified"
  BY <1>5
<1> QED BY <1>1, <1>2, <1>3, <1>4, <1>5

\* What the code takes for the character, on the grounds of the comment or not.
SetsCharacter(m) == IdentifiesCharacter(m) \/ NamesFigure(m)

\* A message adds the character's flag exactly when it identifies the character or
\* names a figure.
LEMMA AddsCharacter ==
  ASSUME NEW m
  PROVE  "character_spawn_observed" \in Adds(m) <=> SetsCharacter(m)
  BY DEF Adds, ById, ByBlock, ByAlias, ByText, If, Holds,
         SetsCharacter, IdentifiesCharacter, NamesFigure

\* A message counts once at most in each counter.
LEMMA CountsOnce ==
  ASSUME NEW m \in Messages, NEW c \in {"heartbeat", "physics"}
  PROVE  Counts(m, c) = One(IsCounted(m, c))
<1>1. CASE c = "heartbeat"
  BY <1>1 DEF Counts, IsCounted, One
<1>2. CASE c = "physics"
  BY <1>2 DEF Counts, IsCounted, One, IsData
<1> QED BY <1>1, <1>2

\* The variables keep their types.
THEOREM ReplicatorType == Spec => []TypeOK
<1>1. Init => TypeOK
  <2> SUFFICES ASSUME Init PROVE TypeOK
    OBVIOUS
  <2>1. 0 \in 0..MaxCount
    BY ReplicatorAssumption
  <2>2. counts \in [{"heartbeat", "physics"} -> 0..MaxCount]
    BY <2>1 DEF Init
  <2>3. pubcounts = counts /\ counted = counts
    BY DEF Init
  <2>4. left = <<>> /\ left \in Seq(Frames)
    BY DEF Init
  <2> QED BY <2>2, <2>3, <2>4 DEF Init, TypeOK
<1>2. TypeOK /\ [Next]_vars => TypeOK'
  <2> SUFFICES ASSUME TypeOK, [Next]_vars PROVE TypeOK'
    OBVIOUS
  <2> USE DEF TypeOK
  <2>1. ASSUME NEW d \in Datagrams, Receive(d) PROVE TypeOK'
    BY <2>1, ReplicatorAssumption DEF Receive, state, stats, history
  <2>2. CASE Apply
    <3> DEFINE m == Head(left)
    <3>1. m \in Messages /\ Tail(left) \in Seq(Frames)
      BY <2>2 DEF Apply
    <3>2. evidence' \subseteq Fields
      BY <2>2, AddsType DEF Apply
    <3>3. counts' \in [{"heartbeat", "physics"} -> 0..MaxCount]
      <4>1. \A c \in {"heartbeat", "physics"} : counts[c] + Counts(m, c) \in Nat
        BY AddsType
      <4>2. \A c \in {"heartbeat", "physics"} : Capped(counts[c] + Counts(m, c)) \in 0..MaxCount
        BY <4>1, CappedType
      <4> QED BY <2>2, <4>2 DEF Apply
    <3>4. counted' \in [{"heartbeat", "physics"} -> 0..MaxCount]
      <4>1. \A c \in {"heartbeat", "physics"} : counted[c] + One(IsCounted(m, c)) \in Nat
        BY AddsType
      <4>2. \A c \in {"heartbeat", "physics"} : Capped(counted[c] + One(IsCounted(m, c))) \in 0..MaxCount
        BY <4>1, CappedType
      <4> QED BY <2>2, <4>2 DEF Apply
    <3>5. seen' \subseteq Messages /\ latest' \subseteq seen'
      BY <2>2, <3>1 DEF Apply
    <3> QED BY <2>2, <3>1, <3>2, <3>3, <3>4, <3>5 DEF Apply, stats
  <2>3. CASE Part
    BY <2>3 DEF Part, state, stats, history
  <2>4. CASE Refused
    BY <2>4 DEF Refused, state, stats
  <2>5. CASE Applied
    BY <2>5 DEF Applied, state, stats, history
  <2>6. CASE HandlerRaises
    BY <2>6 DEF HandlerRaises, state, stats
  <2>7. CASE Publish
    BY <2>7 DEF Publish, state
  <2>8. ASSUME NEW m \in Messages, ObserveControl(m) PROVE TypeOK'
    BY <2>8 DEF ObserveControl, If, Fields
  <2>9. CASE UNCHANGED vars
    BY <2>9 DEF vars, state, stats, history
  <2> QED BY <2>1, <2>2, <2>3, <2>4, <2>5, <2>6, <2>7, <2>8, <2>9 DEF Next
<1> QED BY <1>1, <1>2, PTL DEF Spec

\* Only Apply and ObserveControl touch the evidence and what it is compared with.
LEMMA OthersKeep ==
  ASSUME [Next]_vars
  PROVE  \/ Apply
         \/ \E m \in Messages : ObserveControl(m)
         \/ UNCHANGED <<evidence, counts, seen, latest, counted>>
  BY DEF Next, Receive, Part, Refused, Applied, HandlerRaises, Publish, vars, state, stats, history

\* Evidence is never lost and never invented, whatever is refused, raises, is
\* repeated or reordered.
THEOREM EvidenceTheorem == Spec => []EvidenceGrounded
<1>1. Init => EvidenceGrounded
  BY DEF Init, EvidenceGrounded
<1>2. TypeOK /\ EvidenceGrounded /\ [Next]_vars => EvidenceGrounded'
  <2> SUFFICES ASSUME TypeOK, EvidenceGrounded, [Next]_vars,
                      NEW f \in Fields \ {"character_spawn_observed"}
               PROVE  f \in evidence' <=> \E m \in seen' : Grounds(m, f)
    BY DEF EvidenceGrounded
  <2>0. f \in evidence <=> \E m \in seen : Grounds(m, f)
    BY DEF EvidenceGrounded
  <2>1. CASE Apply
    <3> DEFINE m == Head(left)
    <3>1. m \in Messages /\ seen' = seen \cup {m} /\ evidence' = (evidence \ Withdraws(m)) \cup Adds(m)
      BY <2>1 DEF Apply
    <3>2. f \in evidence' <=> f \in evidence \/ f \in Adds(m)
      BY <3>1 DEF Withdraws, If
    <3>3. f \in Adds(m) <=> Grounds(m, f)
      BY <3>1, AddsGrounds
    <3> HIDE DEF m
    <3> QED BY <2>0, <3>1, <3>2, <3>3
  <2>2. ASSUME NEW m \in Messages, ObserveControl(m)
        PROVE  f \in evidence' <=> \E x \in seen' : Grounds(x, f)
    <3>1. CASE m.id = "accepted"
      <4>1. f \in evidence' <=> f \in evidence \/ f = "connection_accepted"
        BY <2>2, <3>1 DEF ObserveControl, If
      <4>2. Grounds(m, f) <=> f = "connection_accepted"
        BY <3>1 DEF Grounds, IsData, Fields
      <4>3. seen' = seen \cup {m}
        BY <2>2, <3>1 DEF ObserveControl
      <4> QED BY <2>0, <4>1, <4>2, <4>3
    <3>2. CASE m.id # "accepted"
      BY <2>0, <2>2, <3>2 DEF ObserveControl, If
    <3> QED BY <3>1, <3>2
  <2>3. CASE UNCHANGED <<evidence, counts, seen, latest, counted>>
    BY <2>0, <2>3
  <2> QED BY <2>1, <2>2, <2>3, OthersKeep
<1> QED BY <1>1, <1>2, ReplicatorType, PTL DEF Spec

\* The character's flag is about the newest instance, and rests on an identity, a
\* marker, an aliased block or one of the two texts in it or behind it.
THEOREM CharacterTheorem == Spec => []CharacterIsLatest
<1>1. Init => CharacterIsLatest
  BY DEF Init, CharacterIsLatest
<1>2. CharacterIsLatest /\ [Next]_vars => CharacterIsLatest'
  <2> SUFFICES ASSUME CharacterIsLatest, [Next]_vars PROVE CharacterIsLatest'
    OBVIOUS
  <2> USE DEF CharacterIsLatest, SetsCharacter
  <2>1. CASE Apply
    <3> DEFINE m == Head(left)
    <3>1. /\ evidence' = (evidence \ Withdraws(m)) \cup Adds(m)
          /\ latest' = (IF IsNewInstance(m) THEN {} ELSE latest) \cup {m}
      BY <2>1 DEF Apply
    <3>2. "character_spawn_observed" \in Adds(m) <=> SetsCharacter(m)
      BY AddsCharacter
    <3>3. Withdraws(m) = IF IsNewInstance(m) THEN {"character_spawn_observed"} ELSE {}
      BY DEF Withdraws, If
    <3> HIDE DEF m
    <3>4. CASE ~IsNewInstance(m)
      BY <3>1, <3>2, <3>3, <3>4
    <3>5. CASE IsNewInstance(m)
      BY <3>1, <3>2, <3>3, <3>5
    <3> QED BY <3>4, <3>5
  <2>2. ASSUME NEW m \in Messages, ObserveControl(m) PROVE CharacterIsLatest'
    BY <2>2 DEF ObserveControl, If
  <2>3. CASE UNCHANGED <<evidence, counts, seen, latest, counted>>
    BY <2>3
  <2> QED BY <2>1, <2>2, <2>3, OthersKeep
<1> QED BY <1>1, <1>2, PTL DEF Spec

\* Every heartbeat and physics update counts once.
THEOREM CountedTheorem == Spec => []CountedOnce
<1>1. Init => CountedOnce
  BY DEF Init, CountedOnce
<1>2. TypeOK /\ CountedOnce /\ [Next]_vars => CountedOnce'
  <2> SUFFICES ASSUME TypeOK, CountedOnce, [Next]_vars PROVE CountedOnce'
    OBVIOUS
  <2> USE DEF CountedOnce
  <2>1. CASE Apply
    <3>1. DOMAIN counts = {"heartbeat", "physics"}
      BY DEF TypeOK
    <3>2. \A c \in DOMAIN counts : Counts(Head(left), c) = One(IsCounted(Head(left), c))
      BY <2>1, <3>1, CountsOnce DEF Apply
    <3> QED BY <2>1, <3>2 DEF Apply
  <2>2. ASSUME NEW m \in Messages, ObserveControl(m) PROVE CountedOnce'
    BY <2>2 DEF ObserveControl
  <2>3. CASE UNCHANGED <<evidence, counts, seen, latest, counted>>
    BY <2>3
  <2> QED BY <2>1, <2>2, <2>3, OthersKeep
<1> QED BY <1>1, <1>2, ReplicatorType, PTL DEF Spec

\* The published copy is current when no datagram was cut short, and never claims
\* more than the replicator knows, a withdrawn character apart.
THEOREM PublishedTheorem == Spec => []PublishedFaithful
<1>1. Init => PublishedFaithful
  <2> SUFFICES ASSUME Init PROVE PublishedFaithful
    OBVIOUS
  <2>1. \A c \in DOMAIN counts : counts[c] = 0 /\ pubcounts[c] = 0
    BY DEF Init
  <2> QED BY <2>1 DEF Init, PublishedFaithful
<1>2. TypeOK /\ PublishedFaithful /\ [Next]_vars => PublishedFaithful'
  <2> SUFFICES ASSUME TypeOK, PublishedFaithful, [Next]_vars PROVE PublishedFaithful'
    OBVIOUS
  <2> USE DEF PublishedFaithful
  <2>0. \A c \in DOMAIN counts : counts[c] \in 0..MaxCount /\ pubcounts[c] \in 0..MaxCount
    BY DEF TypeOK
  <2>1. ASSUME NEW d \in Datagrams, Receive(d) PROVE PublishedFaithful'
    BY <2>1 DEF Receive, state, stats, history
  <2>2. CASE Apply
    <3> DEFINE m == Head(left)
    <3>1. \A c \in DOMAIN counts : pubcounts[c] <= Capped(counts[c] + Counts(m, c))
      <4> SUFFICES ASSUME NEW c \in DOMAIN counts PROVE pubcounts[c] <= Capped(counts[c] + Counts(m, c))
        OBVIOUS
      <4>1. c \in {"heartbeat", "physics"}
        BY DEF TypeOK
      <4>2. Counts(m, c) \in Nat
        BY <4>1, AddsType
      <4>3. counts[c] + Counts(m, c) \in Nat /\ pubcounts[c] <= counts[c] + Counts(m, c)
        BY <2>0, <4>2
      <4> QED BY <2>0, <4>3, CappedType
    <3>2. published \subseteq evidence' \cup {"character_spawn_observed"}
      BY <2>2 DEF Apply, Withdraws, If
    <3> QED BY <2>2, <3>1, <3>2 DEF Apply, stats
  <2>3. CASE Part
    BY <2>3 DEF Part, state, stats, history
  <2>4. CASE Refused
    BY <2>4 DEF Refused, state, stats
  <2>5. CASE Applied
    BY <2>5 DEF Applied, state, stats, history
  <2>6. CASE HandlerRaises
    BY <2>6 DEF HandlerRaises, state, stats
  <2>7. CASE Publish
    BY <2>0, <2>7 DEF Publish, state
  <2>8. ASSUME NEW m \in Messages, ObserveControl(m) PROVE PublishedFaithful'
    BY <2>8 DEF ObserveControl, If
  <2>9. CASE UNCHANGED vars
    BY <2>9 DEF vars, state, stats, history
  <2> QED BY <2>1, <2>2, <2>3, <2>4, <2>5, <2>6, <2>7, <2>8, <2>9 DEF Next
<1> QED BY <1>1, <1>2, ReplicatorType, PTL DEF Spec

-----------------------------------------------------------------------------
(* What a step may never take back                                         *)

Character == "character_spawn_observed"

\* No flag but the character's is taken back, neither by the replicator nor in the
\* stats, and no counter goes down in either.
NothingTakenBack ==
  /\ evidence \ {Character} \subseteq evidence'
  /\ published \ {Character} \subseteq published'
  /\ \A c \in {"heartbeat", "physics"} : counts[c] <= counts'[c] /\ pubcounts[c] <= pubcounts'[c]

\* The character's flag is taken back by a NEW_INSTANCE that does not set it only,
\* and from the stats only when a whole datagram has been handled.
CharacterTakenBack ==
  /\ Character \in evidence \ evidence'
       => Apply /\ IsNewInstance(Head(left)) /\ ~SetsCharacter(Head(left))
  /\ Character \in published \ published' => Publish /\ Character \notin evidence

\* One step of the replicator, from a state where its invariants hold.
LEMMA TakenBackStep ==
  ASSUME TypeOK, PublishedFaithful, [Next]_vars
  PROVE  NothingTakenBack /\ CharacterTakenBack
<1> USE DEF NothingTakenBack, CharacterTakenBack, Character
<1>0. \A c \in {"heartbeat", "physics"} :
        /\ counts[c] \in 0..MaxCount /\ pubcounts[c] \in 0..MaxCount
        /\ pubcounts[c] <= counts[c] /\ MaxCount \in Nat
  BY ReplicatorAssumption DEF TypeOK, PublishedFaithful
<1>1. CASE Apply
  <2> DEFINE m == Head(left)
  <2>1. /\ evidence' = (evidence \ Withdraws(m)) \cup Adds(m)
        /\ DOMAIN counts = {"heartbeat", "physics"}
        /\ \A c \in {"heartbeat", "physics"} : counts'[c] = Capped(counts[c] + Counts(m, c))
        /\ UNCHANGED stats
    BY <1>1 DEF Apply, TypeOK
  <2>2. Withdraws(m) = IF IsNewInstance(m) THEN {Character} ELSE {}
    BY DEF Withdraws, If
  <2>3. Character \in Adds(m) <=> SetsCharacter(m)
    BY AddsCharacter
  <2>4. ASSUME NEW c \in {"heartbeat", "physics"}
        PROVE  counts[c] <= counts'[c]
    <3>1. Counts(m, c) \in Nat
      BY AddsType
    <3>2. counts[c] + Counts(m, c) \in Nat /\ counts[c] <= counts[c] + Counts(m, c)
      BY <1>0, <3>1
    <3> QED BY <1>0, <2>1, <3>2, CappedType
  <2> HIDE DEF m
  <2>5. NothingTakenBack
    BY <1>0, <2>1, <2>2, <2>4 DEF stats
  <2>6. Character \in evidence \ evidence' => IsNewInstance(m) /\ ~SetsCharacter(m)
    BY <2>1, <2>2, <2>3
  <2> QED BY <1>1, <2>1, <2>5, <2>6 DEF m, stats
<1>2. ASSUME NEW m \in Messages, ObserveControl(m) PROVE NothingTakenBack /\ CharacterTakenBack
  BY <1>0, <1>2 DEF ObserveControl
<1>3. CASE Publish
  BY <1>0, <1>3 DEF Publish, state, PublishedFaithful
<1>4. CASE UNCHANGED <<state, stats>>
  BY <1>0, <1>4 DEF state, stats
<1> QED
  BY <1>1, <1>2, <1>3, <1>4
  DEF Next, Receive, Part, Refused, Applied, HandlerRaises, vars

\* What the report's gates read only grows, the character apart: neither a refused
\* message nor a handler that raises, nor a control frame in between, takes a flag
\* back or a counter down (apply, observe_control and their callers).
THEOREM NeverTakenBack == Spec => [][NothingTakenBack]_vars
<1>1. TypeOK /\ PublishedFaithful /\ [Next]_vars => [NothingTakenBack]_vars
  BY TakenBackStep
<1> QED BY <1>1, ReplicatorType, PublishedTheorem, PTL DEF Spec

\* The character's flag is lost to a later instance only, and the stats follow with
\* the datagram that holds it: between two runs of apply they cannot lose it.
THEOREM CharacterLostToInstance == Spec => [][CharacterTakenBack]_vars
<1>1. TypeOK /\ PublishedFaithful /\ [Next]_vars => [CharacterTakenBack]_vars
  BY TakenBackStep
<1> QED BY <1>1, ReplicatorType, PublishedTheorem, PTL DEF Spec

=============================================================================
