------------------------------ MODULE Replicator ------------------------------
(***************************************************************************)
(* What the client concludes from replication data: ReplicatorState of     *)
(* replication.py, and the copy of it that rift_headless.py publishes in   *)
(* the session's stats.                                                    *)
(*                                                                         *)
(* A datagram is a sequence of frames.  apply() takes them in order; each  *)
(* one completes a message, is a part of one, or is refused by the         *)
(* reassembler, which ends apply() with the frames before it applied.      *)
(* Then the handlers of all completed messages run, and only after the     *)
(* last of them is the state copied to the stats the report is made from.  *)
(* A message is known by its id, its block, the marked spans it holds and  *)
(* the first recognized text in it.                                        *)
(***************************************************************************)
EXTENDS Naturals, Sequences

CONSTANTS
  Messages,   \* the messages the server may complete
  Datagrams,  \* the datagrams it may send
  Alias,      \* ReplicatorState.block_map: blocks per alias
  MaxCount    \* bound: the counters stay at this value

Ids == {"accepted", "bootstrap", "schema", "physics", "data", "other"}
Blocks == {"NEW_INSTANCE", "PLAYER_READY", "AVATAR", "HEARTBEAT", "PHYSICS", "aliased", "other"}
Spans == {"identity", "name", "character", "avatar", "observer"}
Texts == {"none", "part", "figure"}
Message == [id : Ids, block : Blocks, holds : SUBSET Spans, text : Texts]

\* A frame that completes no message, and one that push() refuses.
Fragment == [id |-> "fragment", block |-> "other", holds |-> {}, text |-> "none"]
Unfit == [Fragment EXCEPT !.id = "unfit"]
Frames == Messages \cup {Fragment, Unfit}

Fields == {"connection_accepted", "bootstrap_observed", "schema_observed",
           "replicator_registered", "player_instance_observed", "player_ready_observed",
           "avatar_data_observed", "observer_visibility_verified", "character_spawn_observed"}

ASSUME ReplicatorAssumption ==
  /\ Messages \subseteq Message
  /\ Datagrams \subseteq Seq(Frames)
  /\ Alias \in [{"character", "avatar", "observer", "heartbeat", "physics"} -> SUBSET Blocks]
  /\ MaxCount \in Nat \ {0}

VARIABLES
  phase,      \* what the client does: "idle", "apply" or "handlers"
  left,       \* the frames that apply() has not taken yet
  evidence,   \* the flags of ReplicatorState that are set
  counts,     \* heartbeat_packets and physics_packets
  published,  \* the same flags in stats
  pubcounts,  \* the same counters in stats
  seen,       \* history: every message applied
  latest,     \* history: the messages applied since the last NEW_INSTANCE, that one first
  counted,    \* history: the heartbeats and physics updates among the applied messages
  torn        \* history: a datagram was cut short since the stats were published

state == <<evidence, counts>>
stats == <<published, pubcounts>>
history == <<seen, latest, counted, torn>>
vars == <<phase, left, state, stats, history>>

Init ==
  /\ phase = "idle"
  /\ left = <<>>
  /\ evidence = {}
  /\ counts = [c \in {"heartbeat", "physics"} |-> 0]
  /\ published = {}
  /\ pubcounts = counts
  /\ seen = {} /\ latest = {}
  /\ counted = counts
  /\ torn = FALSE

-----------------------------------------------------------------------------
(* What one message adds                                                   *)

IsData(m) == m.id = "data"
Holds(m, spans) == m.holds \cap spans # {}
If(condition, field) == IF condition THEN {field} ELSE {}

ById(m) ==
  If(m.id = "accepted", "connection_accepted") \cup
  If(m.id = "bootstrap", "bootstrap_observed") \cup
  If(m.id = "schema", "schema_observed") \cup
  If(IsData(m), "replicator_registered")

\* _apply_block: the account's id counts in every block, its name and the
\* character markers count in a NEW_INSTANCE only.
ByBlock(m) ==
  If(m.block = "NEW_INSTANCE", "player_instance_observed") \cup
  If(m.block = "NEW_INSTANCE" /\ Holds(m, {"name", "character"}), "character_spawn_observed") \cup
  If(m.block = "PLAYER_READY", "player_ready_observed") \cup
  If(m.block = "AVATAR", "avatar_data_observed") \cup
  If(Holds(m, {"avatar"}), "avatar_data_observed") \cup
  If(Holds(m, {"observer"}), "observer_visibility_verified") \cup
  If(Holds(m, {"identity"}), "character_spawn_observed")

ByAlias(m) ==
  If(m.block \in Alias["character"], "character_spawn_observed") \cup
  If(m.block \in Alias["avatar"], "avatar_data_observed") \cup
  If(m.block \in Alias["observer"], "observer_visibility_verified")

\* Mutant: only the texts that name the whole figure count for the avatar.
ByTextFigure(m) ==
  If(m.text = "figure", "avatar_data_observed") \cup
  If(m.text = "figure", "character_spawn_observed")

\* The first recognized text: "humanoid" and "character" name the figure,
\* "avatar", "bodycolors" and "accessory" a part of it.
ByText(m) ==
  If(m.text # "none", "avatar_data_observed") \cup
  If(m.text = "figure", "character_spawn_observed")

Adds(m) == ById(m) \cup IF IsData(m) THEN ByBlock(m) \cup ByAlias(m) \cup ByText(m) ELSE {}

\* Mutant: a NEW_INSTANCE adds to the character evidence.
WithdrawsNothing(m) == {}

\* A NEW_INSTANCE assigns character_spawn_observed: what was there is gone.
IsNewInstance(m) == IsData(m) /\ m.block = "NEW_INSTANCE"
Withdraws(m) == If(IsNewInstance(m), "character_spawn_observed")

One(condition) == IF condition THEN 1 ELSE 0

\* Mutant: an alias counts also what the built-in block has counted.
CountsTwice(m, c) ==
  IF c = "heartbeat"
    THEN One(IsData(m) /\ m.block = "HEARTBEAT") + One(IsData(m) /\ m.block \in Alias["heartbeat"])
    ELSE One(m.id = "physics")
         + One(IsData(m) /\ m.block = "PHYSICS") + One(IsData(m) /\ m.block \in Alias["physics"])

\* What a message adds to a counter: the built-in block, then an alias that is
\* not the built-in block; for physics the message id as well.
Counts(m, c) ==
  IF c = "heartbeat"
    THEN One(IsData(m) /\ m.block = "HEARTBEAT")
         + One(IsData(m) /\ m.block \in Alias["heartbeat"] \ {"HEARTBEAT"})
    ELSE One(m.id = "physics")
         + One(IsData(m) /\ m.block = "PHYSICS")
         + One(IsData(m) /\ m.block \in Alias["physics"] \ {"PHYSICS"})

Capped(n) == IF n < MaxCount THEN n ELSE MaxCount

\* A heartbeat or a physics update, for the history.
IsCounted(m, c) ==
  \/ IsData(m) /\ c = "heartbeat" /\ m.block \in Alias["heartbeat"] \cup {"HEARTBEAT"}
  \/ IsData(m) /\ c = "physics" /\ m.block \in Alias["physics"] \cup {"PHYSICS"}
  \/ m.id = "physics" /\ c = "physics"

-----------------------------------------------------------------------------
(* The handling of a datagram                                              *)

Receive(d) ==
  /\ phase = "idle"
  /\ phase' = "apply"
  /\ left' = d
  /\ UNCHANGED <<state, stats, history>>

\* A frame that completes a message.
Apply ==
  /\ phase = "apply" /\ left # <<>>
  /\ Head(left) \in Messages
  /\ LET m == Head(left) IN
       /\ evidence' = (evidence \ Withdraws(m)) \cup Adds(m)
       /\ counts' = [c \in DOMAIN counts |-> Capped(counts[c] + Counts(m, c))]
       /\ seen' = seen \cup {m}
       /\ latest' = (IF IsNewInstance(m) THEN {} ELSE latest) \cup {m}
       /\ counted' = [c \in DOMAIN counted |->
                        Capped(counted[c] + One(IsCounted(m, c)))]
  /\ left' = Tail(left)
  /\ UNCHANGED <<phase, stats, torn>>

\* A fragment that completes nothing.
Part ==
  /\ phase = "apply" /\ left # <<>>
  /\ Head(left) = Fragment
  /\ left' = Tail(left)
  /\ UNCHANGED <<phase, state, stats, history>>

\* Mutant: the rest of the datagram stays.
RefusedKeepsRest ==
  /\ phase = "apply" /\ left # <<>>
  /\ Head(left) = Unfit
  /\ phase' = "idle"
  /\ torn' = TRUE
  /\ UNCHANGED <<left, state, stats, seen, latest, counted>>

\* push() raises ValueError, which leaves apply() and the handling.
Refused ==
  /\ phase = "apply" /\ left # <<>>
  /\ Head(left) = Unfit
  /\ phase' = "idle"
  /\ left' = <<>>
  /\ torn' = TRUE
  /\ UNCHANGED <<state, stats, seen, latest, counted>>

Applied ==
  /\ phase = "apply" /\ left = <<>>
  /\ phase' = "handlers"
  /\ UNCHANGED <<left, state, stats, history>>

\* A handler raises: nothing is published.
HandlerRaises ==
  /\ phase = "handlers"
  /\ phase' = "idle"
  /\ torn' = TRUE
  /\ UNCHANGED <<left, state, stats, seen, latest, counted>>

\* Mutant: evidence once published is not taken back.
PublishKeeping ==
  /\ phase = "handlers"
  /\ phase' = "idle"
  /\ published' = published \cup evidence
  /\ pubcounts' = counts
  /\ torn' = FALSE
  /\ UNCHANGED <<left, state, seen, latest, counted>>

\* All handlers returned: the flags and counters are copied to stats.
Publish ==
  /\ phase = "handlers"
  /\ phase' = "idle"
  /\ published' = evidence
  /\ pubcounts' = counts
  /\ torn' = FALSE
  /\ UNCHANGED <<left, state, seen, latest, counted>>

\* A control frame that is not encrypted: observe_control, and its caller,
\* which copies the acceptance to stats whatever the id of this frame.
ObserveControl(m) ==
  /\ phase = "idle"
  /\ evidence' = evidence \cup If(m.id = "accepted", "connection_accepted")
  /\ published' = published \cup (evidence' \cap {"connection_accepted"})
  /\ seen' = seen \cup {x \in {m} : m.id = "accepted"}
  /\ UNCHANGED <<phase, left, counts, pubcounts, latest, counted, torn>>

Next ==
  \/ \E d \in Datagrams : Receive(d)
  \/ Apply
  \/ Part
  \/ Refused
  \/ Applied
  \/ HandlerRaises
  \/ Publish
  \/ \E m \in Messages : ObserveControl(m)

Spec == Init /\ [][Next]_vars

-----------------------------------------------------------------------------
(* Properties                                                              *)

\* The variables keep their types.
TypeOK ==
  /\ phase \in {"idle", "apply", "handlers"}
  /\ left \in Seq(Frames)
  /\ phase # "apply" => left = <<>>
  /\ evidence \subseteq Fields /\ published \subseteq Fields
  /\ {counts, pubcounts, counted} \subseteq [{"heartbeat", "physics"} -> 0..MaxCount]
  /\ seen \subseteq Messages /\ latest \subseteq seen
  /\ torn \in BOOLEAN

\* What on the wire is a ground for each flag but the character's.
Grounds(m, f) ==
  CASE f = "connection_accepted" -> m.id = "accepted"
    [] f = "bootstrap_observed" -> m.id = "bootstrap"
    [] f = "schema_observed" -> m.id = "schema"
    [] f = "replicator_registered" -> IsData(m)
    [] f = "player_instance_observed" -> IsData(m) /\ m.block = "NEW_INSTANCE"
    [] f = "player_ready_observed" -> IsData(m) /\ m.block = "PLAYER_READY"
    [] f = "avatar_data_observed" -> IsData(m) /\ (\/ m.block \in Alias["avatar"] \cup {"AVATAR"}
                                                  \/ "avatar" \in m.holds
                                                  \/ m.text \in {"part", "figure"})
    [] f = "observer_visibility_verified" -> IsData(m) /\ (\/ m.block \in Alias["observer"]
                                                          \/ "observer" \in m.holds)

\* The grounds for the character's flag that the comment on the field admits: the
\* account's id anywhere, its name or a character marker in a NEW_INSTANCE, a block
\* that the profile names.
IdentifiesCharacter(m) ==
  /\ IsData(m)
  /\ \/ "identity" \in m.holds
     \/ m.block = "NEW_INSTANCE" /\ {"name", "character"} \cap m.holds # {}
     \/ m.block \in Alias["character"]

\* The ground that it does not admit and the code takes all the same: the text
\* "humanoid" or "character" in any block, that of a service object included.
NamesFigure(m) == IsData(m) /\ m.text = "figure"

\* Evidence is never lost and never invented: whatever refusals, handlers that
\* raise, repetitions and order there were, a flag other than the character's
\* is set exactly when an applied message is a ground for it.
EvidenceGrounded ==
  \A f \in Fields \ {"character_spawn_observed"} :
    f \in evidence <=> \E m \in seen : Grounds(m, f)

\* character_spawn_observed is about the newest instance: it is set exactly when
\* the last NEW_INSTANCE, or a message applied after it, identifies the character
\* or holds one of the two texts.  This is about the evidence being current; that
\* a text is evidence at all is the code's view and not the comment's.
CharacterIsLatest ==
  "character_spawn_observed" \in evidence <=>
    \E m \in latest : IdentifiesCharacter(m) \/ NamesFigure(m)

\* Between two datagrams the stats tell what the replicator knows, unless one was
\* cut short since they were published; even then they claim nothing that the
\* replicator does not know, the withdrawn character apart, and no more counts.
PublishedFaithful ==
  /\ phase = "idle" /\ ~torn => published = evidence /\ pubcounts = counts
  /\ published \subseteq evidence \cup {"character_spawn_observed"}
  /\ \A c \in DOMAIN counts : pubcounts[c] <= counts[c]

\* Every heartbeat and physics update that is applied counts once, also when the
\* profile names the built-in block again.
CountedOnce == counts = counted

=============================================================================
