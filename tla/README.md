# A formal model of the headless RakNet client

This directory holds TLA+ specifications of the client in `src/src/`, the TLC
configurations that check them on small instances, and proofs checked by TLAPS
that hold for all values of the constants.  Paths and line numbers below refer to
`src/src/`.

## 1. The system

A Python program obtains join material over HTTPS, opens a RakNet session with a
game server over UDP, keeps it alive for a while, and reports how far it came.

| Part | Source | State it keeps | Operations |
|---|---|---|---|
| Reliable sender | `raknet_codec.py` `ReliabilityWindow`, `rift_headless.py:660-759` | `pending`, message, order and split counters, `datagram_sequence`, the cache of sent datagrams | `track`, `track_split`, `acknowledge`, `due`, `_send_reliable`, `_send_unreliable`, `_apply_ack`, `_resend_due` |
| Split-frame reassembly | `raknet_codec.py:184-235` | `_groups`, `_counts`, `_templates` | `push` |
| Established session | `rift_headless.py:446-730, 986-1149` | authentication, the once-only flags, `_lifecycle_sent`, `_progress_tokens` | `_try_decrypt_established`, the handlers of server messages, `_send_lifecycle_profile`, `_promote_reply2` |
| Replication state | `replication.py:215-472` | evidence flags, counters, gates | `apply`, `_apply_block`, `snapshot` |
| Service cadence | `rift_headless.py:775-824, 1395-1432` | clocks of heartbeat, ping, ISR and physics | `_service_lifecycle`, `run` |
| Open exchange | `rift_headless.py:897-985, 1237-1394`, `rbx_protocol.py`, `request2_adapter.py` | the session context, candidate keys, one-shot flags | `handshake`, `_send_encrypted_request2`, `_observe_session_frame`, `_try_decrypt_session_frame` |
| Codecs | `raknet_codec.py`, `replication.py:126-212`, `udmux_codec.py`, `lifecycle_codec.py`, `application_bootstrap.py`, `early_ping.py` | none | parsers and builders |
| Established framing | `established_aead.py` | none | counter extension, encryption, decryption |
| Session crypto and material | `session_crypto.py`, `session_material.py`, `application_crypto.py` | none after construction | key derivation, hashes |
| Challenge evaluator | `application_challenge.py` | none | runs an external interpreter |
| Runner and report | `rift_headless.py:1496-2352` | the report, presence samples | endpoint attempts, presence thread, gates |

How they interact.  Everything of one session happens on one thread.  The run loop
sends a ping, receives datagrams for an interval, and calls the periodic service.
Receiving a datagram calls `_try_decrypt_established`, which lets
`ReplicatorState.apply` push every frame of the datagram through the reassembler,
then runs a handler for every complete message, then sends the lifecycle payloads,
and at the end acknowledges the datagram.  The handlers and the service both queue
payloads through the reliable sender; ACK packets of the server go to `_apply_ack`;
`_resend_due` is the first thing the service does.  A second thread polls the
account's presence and appends to a list that the first one reads at the end.

What is hard here.  There is little parallelism but an unreliable medium and many early
exits: datagrams are lost, repeated and reordered in both directions; an exception can
leave any send, after its frame was tracked and before it was cached; some handlers
catch it and some do not, and the difference decides whether the datagram is
acknowledged; several containers must be kept in step; and nothing records which
datagrams were already received.  `PROJECT.json` lists these hazards at their lines.

What makes each part correct.

- Sender: a frame leaves the window only when the server has it; the window is
  bounded; an ACK of any copy that is still cached releases its frame; at most three
  transmissions; fragments of a payload stay together; every frame settles.
- Reassembly: the dicts agree; memory is bounded; messages are whole and unmixed; one
  message never disturbs another.
- Session: flags, acknowledgements and order survive exceptions; what is sent once is
  sent once unless an exception intervened.
- Replication: evidence is never lost and never invented; the stats never run ahead of it;
  nothing is counted twice.
- Cadence: each timer is served although data keeps arriving; what is reported was observed.
- Open exchange: Request2 once; a verified session is never thrown away; one MTU that both
  sides can use.
- Established framing: a 16-bit hint never makes the receiver deaf, whatever was lost,
  repeated or reordered.
- Runner: a success rests on one session and one place; a complete session is never passed
  over; the report does not contradict itself although a second thread writes into it.

## 2. Modules

| Module | Models |
|---|---|
| `ReliableDelivery` | what the reliable channel promises, without datagrams or timers |
| `ReliableSender` | the window, the datagram cache, retransmission, acknowledgements, the network |
| `ReliableSender_proofs` | theorems on `ReliableSender` |
| `SplitReassembler` | every path through `push` |
| `SplitReassembler_proofs` | theorems on `SplitReassembler` |
| `ClientSession` | promotion, the handling of server datagrams, lifecycle payloads, acknowledgement |
| `ClientSession_proofs` | theorems on `ClientSession` |
| `ServiceCadence` | the clock, the rounds of `run`, the timers of the service, `heartbeat_seconds` |
| `ServiceCadence_proofs` | theorems on `ServiceCadence` |
| `SessionOpening` | what the handshake promises to `run`, without windows, candidates or packets |
| `OpenExchange` | the handshake, Request2, the verification of Reply2 |
| `OpenExchange_proofs` | theorems on `OpenExchange` |
| `EstablishedStream` | counters and anchors of the encrypted stream from the server |
| `EstablishedStream_proofs` | theorems on `EstablishedStream` |
| `Replicator` | the evidence in replication data and its copy in the stats |
| `Replicator_proofs` | theorems on `Replicator` |
| `SessionReport` | one run of the program: join, attempts, verdict, presence thread |
| `SessionReport_proofs` | theorems on `SessionReport` |
| `MC...` and `.cfg` | finite instances for TLC |

How the modules divide the program.  `SessionReport` sees a whole session as the set of gates it
passes.  `OpenExchange` opens a session and goes on watching Reply2 while it is open;
`EstablishedStream` decides which datagrams of the open session are read; `SplitReassembler` and
`Replicator` are what `apply` does with a datagram that was read, the first piece by piece, the second
message by message; `ClientSession` is what the handlers do after it, with the reassembler's parts and the
sender's window in small; `ReliableSender` and `ServiceCadence` are the sending side and the
timers.  `ReliableSender` implements `ReliableDelivery` (`ChannelSpec`), and `OpenExchange` implements `SessionOpening`
(`OpeningSpec`).  A composition of all of them is not
written: the product of their states is out of TLC's reach, and what one needs of another is in it as an action
(`Release`, `Service`, `SamplePhysics`, `AcceptReply2`, `Attempt`).

Definitions marked "Mutant" are not part of a specification.  Each is a plausible bug
in the definition that follows it, used to see that the properties notice it.

### ReliableSender

`pending` maps a message index to its frame, the age of `sent_at` in clock ticks, and
its attempts; `outbound` stands for the two parallel dicts `_outbound_datagrams` and
`_outbound_messages`; `sequence` is `datagram_sequence`.  `wire` and `arrived` are the
network: every datagram handed to the socket, and those the server received.  A
datagram in `wire` that never enters `arrived` is lost.  Repetition and reordering
need nothing more: any set of arrived datagrams can be acknowledged at any later time,
any number of times.

| Action | Code |
|---|---|
| `SendReliable(n)` | `_send_reliable` of a payload in `n` frames; trims the cache |
| `SendControl(ordered)` | connection request, new incoming connection, the reliable half of a ping pair; these do not trim the cache |
| `SendFails(n, ordered, sent, caller)` | `OSError` at the frame after the first `sent`; the caller decides whether it ends the session |
| `WindowFull(n)` | `BufferError` in the periodic service |
| `SendUnreliable` | a pong or ping, which uses a sequence number only |
| `Tick` | the monotonic clock |
| `ResendDue`, `ResendFails` | `_resend_due`, in full or up to an `OSError`; `due()` has marked all frames before the first one leaves |
| `Arrive`, `ApplyAck` | the network, and `_apply_ack` |

Abstractions: payload bytes are not modelled; one clock tick is a fraction
1/`ResendAfter` of `resend_after`; counters above the last value that a comparison tells
apart are cut there (`age`, `attempts`).  `_send_reliable(track=False)` has no caller and is
left out.  The 24-bit counters do not wrap: `IndexSpace` and `MaxMessages` end the model before.

### SplitReassembler

One dict per variable, `order` the insertion order of `_groups` (which decides what is evicted),
`result` what the last `push` returned or raised.  One action per way `push` ends:
`TooManyParts`, `CountChanged`, `TooManyBytes`, `Collect`, `Complete`.  `Frames` is any set
of decoded fragments.  A piece is one value with a size.  Fragments of one key may belong to
different messages, because split ids are used again.  With equal counts the code cannot tell
them apart and joins pieces of both; the properties say what is true, that key and count agree.
Frames that are not split bypass the reassembler and are not pushed in the model.

### ClientSession

`current` is the datagram at hand and `inbox` what is left to do for it: the messages it
completes, then the lifecycle payloads.  `Receive` is decryption and `apply`, which change
`parts` and `registered` for the whole datagram at once.  Each `Handle` step takes the first entry:

| Step | Code |
|---|---|
| `Pass` | nothing to send: no answer for this kind, or its flag is set; a pong that leaves |
| `Answer` | the handler sends all it has to and sets its flag |
| `SendRaises(x, k)` | the k-th payload is tracked and its datagram raises `OSError`; caught inside by the dictionary, marker and challenge handlers, otherwise it leaves `_try_decrypt_established` |
| `WindowRefuses` | `BufferError`, which none of the handlers catches |
| `Raises` | an exception with nothing tracked: `OSError` of the untracked pong, `ValueError` of an acceptance or a profile payload that does not parse |

`Acknowledge` comes after the inbox is empty; `Release` and `Service` are the session's view of
the reliable sender and of the periodic service.  `SamplePhysics` is the last send of that service: it
queues the payload that the profile sends third, at any time after registration, because its clock starts
at 0.0 and so is overdue until a datagram has reached the profile.  An `OSError` of either ends the session;
`End` is any other exception that leaves `run`, or the end of its time.  `queued[p]` counts how often payload
`p` was put in the reliable channel: up to `Many`, one more than the exceptions in the model can explain, for
what is meant to be sent once, and up to one for what is sent again and again.  `cut` is a history variable:
an exception has skipped the rest of a datagram.  `Malformed` are the payloads and acceptances that do not parse.

Abstractions: each reliable payload is one frame (fragmentation is in `ReliableSender`);
the contents of messages are their kind; a data message that its parser rejects is of kind
"other", and a challenge without a usable answer too, since their handlers catch it; the bootstrap set is a sequence, with the
early return for missing configuration left out; frames of one message have one key that no
other message uses, and the reassembler's refusals and evictions are left to `SplitReassembler` and `Replicator`
(a refusal cuts a datagram short as `Raises` does, but before any handler).  The profile ends with the physics payload, if it has one.
Flags that only report are left to `Replicator`.  In the code the once-only flag of a progress message
is its token; here each progress message has a token of its own.

### ServiceCadence

Time is a count of ticks that only `Tick` advances; datagrams and the service take no time.  A clock
of the code (`_last_lifecycle_at`, `_last_physics_at`, `_last_replication_ping_at`,
`_last_isr_timestamp_batch_at`) is `since[t]`, the ticks since it was set, cut at the interval; one that was
never set (0.0) is as long ago as the interval.  `pinging` and `beating` are the ticks since the first
ping pair and the first heartbeat of the server.  `silent` and `idle` belong to no variable of the code:
they count how long a timer that is ready has not been served.

| Action | Code |
|---|---|
| `Tick` | the monotonic clock; `_recv_until` ends a round after one interval |
| `Authenticate` | `_promote_reply2` |
| `StartLoop` | `handshake` returned true |
| `Datagram` | a data datagram: registration and heartbeats in `apply`, the published span, the restart of two clocks; an exception in a handler or in the profile skips what follows |
| `Service` | `_service_lifecycle` at the end of a full round |
| `LastService` | the service of the last round, which the deadline shortens, or one in which a send raises |
| `End` | a failed handshake or another exception |

The module leaves the payloads, the reliable window (`ReliableSender`) and the once-only
profile payloads (`ClientSession`) aside.  The lower limits of intervals (`max(0.1, ...)`) are part of the
constants.  The duration of the run is not fixed: `LastService` may come in any round.

### OpenExchange

`phase` is where `handshake` is, `window` which of its three kinds of receive windows is open, `batch` what has
arrived in it.  `_recv_until` verifies a Reply2 at once and hands everything else back at the end of
the window; so `AcceptReply2` and `RejectReply2` may come at any instant in which the client receives, the
open session included, and the `Handle` actions only after `EndWindow`.

| Action | Code |
|---|---|
| `Start`, `SendRequest1`, `ReceiveFinally`, `NextCandidate`, `Return` | the loop of `handshake`, and the test in `run` |
| `SocketFails` | `OSError` in a send or receive of `handshake` |
| `Arrive`, `EndWindow` | `_recv_until` |
| `AcceptReply2`, `RejectReply2` | `_observe_session_frame`, `_try_decrypt_session_frame`, `_promote_reply2` |
| `HandleRbxReply1` | packet 0x7e, with `_send_encrypted_request2` and the padding of `build_encrypted_request2` |
| `HandleReply1`, `HandleOther` | 0x06, 0x1c, 0x08 |

The server is external: it may answer whatever was sent, any number of times and late.  A Reply2 is known by
its key exchange; what is inside (X25519, AEAD) is a library.  The Request2 without padding, which a
configuration with `pad_to_mtu` false sends, is left out.

`OpeningSpec` maps the phase to `Outcome` (pending, open, unanswered, failed), the Request2 to `requested`, and the epoch of
the header and of the keys to themselves.  `SessionOpening` then says in five actions what `run` may rely on: one
request, verification only after it and also while the session is open, the header of the first and the keys of the
newest, and no attempt given up as unanswered once its Request2 has left.

### EstablishedStream

`anchor` is `_established_rx_state`, one counter per epoch.  A datagram is known by epoch and true counter;
`FirstCandidates`, `Extend` and `Candidates` are `counter_candidates`, and `Opens` is `decrypt_datagram` with a
cipher that opens under the true key and counter only.  `Age` and `Gap` say what the network may do:
how late a datagram may come, and how many may be lost in a row.

Two facts that the model makes visible and that no run checks.  The 32 neighbours on
each side of the extended counter, which the comment at `established_aead.py:55-57` wants for reordering, never help: they
differ from the hint modulo 2^16, so the nearest counter is the only one that can open (proved, `ReachIsHalf`).  And a
repeated datagram opens again and moves the anchor back; nothing at this layer refuses it, which `ClientSession` therefore
allows; that these steps back do not add up is proved (`AnchorsStayNear`).

### Replicator

`evidence` holds the flags of `ReplicatorState` that are set, `counts` two of its counters, `published` and
`pubcounts` their copies in `stats`.

| Action | Code |
|---|---|
| `Receive`, `Applied` | a decrypted datagram; the end of `apply` |
| `Apply` | a completed message: `observe_control`, `_apply_block`, aliases and text |
| `Part` | a fragment that completes nothing |
| `Refused` | `push` raises `ValueError`: the rest of the datagram is lost, nothing is published |
| `HandlerRaises` | a handler raises after `apply`: nothing is published |
| `Publish` | the copy to `stats` after the last handler |
| `ObserveControl` | a control frame outside the encryption |

The spans of bytes that the code searches for in a message are a set of marks, and the text it finds is
one of three classes.

### SessionReport

| Action | Code |
|---|---|
| `ConfigureFails`, `Configure` | the loaders of Request2, established keys and lifecycle profile |
| `ReadBefore`, `ReadAfter` | `read_account_presence` |
| `NoTicket`, `Bootstrap` | the ticket; `bootstrap`, `endpoint_candidates` and `choose_endpoints` |
| `Skip`, `AttemptFails`, `Attempt`, `Raise` | one endpoint: no header, `OSError`, a session with its gates, an exception that nothing catches |
| `Select`, `SelectNone`, `ListSamples`, `Judge`, `Write` | the report, in the order in which its parts are made |
| `StartReading`, `EndReading`, `EndMonitor` | the presence thread |
| `AccountMoves` | the world |

The presence thread takes its steps between any two of the main thread; in particular it may append a
sample after the samples were copied and before they are judged, and after `presence_stop` (it is joined for two
seconds only).

## 3. Runs

| Run | Question | Bounds |
|---|---|---|
| `sender` | do the safety properties hold, does the sender implement `ReliableDelivery`, and does every waiting frame get released or use up its budget? | two frames, payloads of 1 and 2 frames, window of 2, cache of 2, three transmissions, two ticks to `resend_after` |
| `reassembly` | do the dicts agree, is memory bounded and are messages whole? | 3 keys of which 2 serve several messages, 2 groups, 3 parts, 3 bytes |
| `session` | do flags, order and acknowledgements survive exceptions? | 5 datagrams with 7 messages, one of which does not parse, all three lifecycle payloads, a window of 3, two exceptions of sends |
| `session_bootstrap_lost` | is an acknowledged dictionary always answered in full? | as `session`; violated |
| `session_split_lost` | is a message handled once all its fragments are acknowledged? | as `session`; violated |
| `cadence` | do the timers keep pace, and is the reported time one that was observed? | heartbeat 2, ping 3, ISR 4 ticks, delays 1 and 3, round 2, gate 4 |
| `cadence_heartbeat_starved` | is the heartbeat maintained? | as `cadence`, with fairness; violated |
| `cadence_gate_outbound` | does the heartbeat gate need received heartbeats? | as `cadence`; violated |
| `open_exchange` | is Request2 sent once, is a verified session kept, is the MTU agreed, does the handshake implement `SessionOpening`? | offers of 576, 1200, 1492 and 1500, MTU 1300, padding 1160, two packets per window, two good Reply2 of two exchanges |
| `established_stream` | does every datagram that can arrive open? | hint of 3 bits, two epochs of 18 datagrams, datagrams up to two counters late, gap 1 |
| `replicator` | is evidence grounded, current, faithfully published and counted once? | seven messages, ten datagrams, counters up to 2 |
| `session_report` | does a verdict rest on one session and one place? | eight command lines, eight joins with up to three endpoints, five kinds of attempt, two samples of which one is listed |

Why the bounds are enough.  In `sender` a window of 2 is full when both frames wait, and a two-frame payload meets
a window with one slot; the cache of 2 is smaller than the six datagrams that two frames and three
transmissions (the budget of the code) make, so it evicts while frames wait, and a late ACK may name any of three
copies.  The 12 sequence numbers exceed what is used, so that bound is never met.  That nothing
changes with more frames or larger windows is what the theorems add.
In `reassembly` three keys compete for two groups,
one key changes its number of fragments, one exceeds the bytes and one fragment the parts; the set of
fragments is finite, the space is exhausted and no bound cuts behaviours off.  In `session` every
kind of message that has an answer occurs, one acceptance does not parse, one message is split over two datagrams, one datagram mixes a
fragment with a whole message, the window of 3 is refused to answers of two payloads when the
service or earlier answers fill it, and two exceptions allow one to interrupt the repetition
caused by the other.  `MaxRaised` bounds exceptions of reliable sends; pongs and parsers may raise without bound.
The profile is the whole one, and the service may queue its physics payload before, between and after the other two.

In `cadence` the heartbeat interval equals a
round, as in the defaults of the code, the ping interval is no multiple of it, and both delays can end in
the middle of a round; counters are cut above the last value that a comparison tells apart, so nothing is
lost.

In `open_exchange` the offers are the two ends of the accepted range, one outside, and ones below and above the client's
MTU; two packets per window allow two Reply1 in one window and a Reply1 beside an unrelated packet; the
client runs with and without a header and a configuration.  In `established_stream` the hint has 8 values and each epoch
sends 18 datagrams, so that the hint wraps twice; one epoch starts at its own hint and the other above
`COUNTER_BASE`.  In `replicator` one message stands for each way to set or withdraw a flag, some datagrams hold two of them, and one
is cut short by a refused fragment; the evidence is finite and the space is exhausted.  In `session_report`
one command line or join stands for each way a loader, `bootstrap` or `choose_endpoints` ends, with repeated
addresses among the endpoints; two samples, one of them listed, allow one between listing and judging.

`CHECK_DEADLOCK FALSE` is set where the system really stops: the sender, the session, the handshake, the cadence and the run of the program end
with an exception or normally, and the sender has nothing left to do when all is settled.

Fairness.  Two runs assume some.  In `sender` the clock advances (`WF_vars(Tick)`) and the run
loop calls the service after each receive interval, whether or not something arrived
(`rift_headless.py:1409-1421`), so a due frame is eventually looked at (`WF_vars(Resend)`, which includes
the attempt that raises).  Nothing is assumed of the network or of the server.  The property therefore
says "released, used up, or the session has ended".

In `cadence_heartbeat_starved` likewise the clock advances and a finished round is
followed by its service (`FairSpec`).

### What the violations show

- `DictionaryAnsweredInFull`.  `_send_application_bootstrap` sends four packets in a loop and sets its
  flag after the last, but catches `OSError` around the loop.  The datagram is then acknowledged, so
  the server has no reason to send the dictionary again, and the packets after the failing one are
  never queued.  The two packets of the instance stand for the four.  An exception is needed for this
  (`DictionaryFailsByExceptions`).
- `AcknowledgedIsParsed`.  `push` forgets a group when its last fragment arrives, before any handler
  runs.  If a handler of that datagram raises (the new progress acknowledgement, for instance) the
  datagram is not acknowledged and comes again; its fragment now opens a new group that is never
  completed, because the first fragment was acknowledged long ago.  The repeated datagram is
  acknowledged, and the message is lost although the server sees all of it received.  Without an exception in the
  middle of a datagram it cannot happen (`ParsedUnlessInterrupted`).
- `HeartbeatMaintained`.  `_send_lifecycle_profile` sends each payload once but restarts the heartbeat and
  physics clocks whenever it is called, with every data datagram that is handled to the end.  The
  counterexample is a cycle with one such datagram per round: the clock is never old enough at the end of a
  round.  `PingKeepsPace` shows that the other two timers do not suffer from this, and `KeepsPaceInQuiet` that
  the restart is the only cause.
- `HeartbeatGateHonest`.  Two places write `stats["heartbeat_seconds"]`.  One publishes the span of received
  heartbeats; the ping pair overwrites it with the time since its own first pair, and the gate of the report
  reads whichever was written last.  The gate then opens by the age of the first ping pair and by nothing else
  (`GateOpensByPings`).

### Observations without a run

No doc or comment contradicts these plainly enough for a violated run; the models contain them.

- The ISR timestamps are due again after each interval, although the comment at `rift_headless.py:803-805` wants
  the captured sequence sent once.
- A join whose server address is missing makes `generate_udmux_header` raise `ValueError`; `run` ends without
  a report and without trying the other endpoints (`Raise` in `SessionReport`).
- A Reply1 that arrives in the last receive window is ignored.
- An account that was in the place before the run counts as observed; the comment at
  `rift_headless.py:2272` speaks of a transition.
- More than 32767 datagrams lost in a row leave the receiver deaf until the keys change; `Gap` excludes it.
- A NEW_INSTANCE block without identity withdraws the character evidence (`replication.py:323`).
- The comment at `replication.py:224-227` reserves the character's gate for an identity or an explicit profile marker,
  but the text "Humanoid" or "Character" in any data message opens it, too (`replication.py:417-420`).  `CharacterIsLatest` takes the
  code's view, so that it passes says nothing about this: it names the two grounds apart (`IdentifiesCharacter`, which the comment
  admits, and `NamesFigure`, which it does not).
- After an exception that cuts short the datagram that registers the replicator, the service sends the profile's physics payload
  before `player_ready`.  `ProfileInOrder` excepts exactly this case; the comment at `rift_headless.py:765` speaks of the
  order within the profile, of ready and avatar data.

## 4. Proofs

All theorems are consequences of the named assumptions on the constants (`SenderAssumption`,
`ReassemblerAssumption`, `SessionAssumption`, `CadenceAssumption`, `ExchangeAssumption`, `StreamAssumption`,
`ReplicatorAssumption`, `ReportAssumption`), which TLC evaluates in the runs.  Two theorems assume more and say so:
`ReachIsHalf` that there are fewer neighbours than hints (64 and 65536 in the code), and `ParsedUnlessInterrupted` that no
exception cuts a datagram short.  Every theorem is a safety property: an invariant, a restriction on steps (`[][A]_vars`), or a
refinement.  Every safety property that a passing run checks is proved for all values of the constants.  Where a run
shows a property violated, a theorem says when it still holds.

`ReliableSender_proofs`

- `TypeCorrect`: types, and that no two datagrams share a sequence number.  The second part is
  what makes the cache a function, and needs that a sequence number is used up also when the send
  fails, and that the frames of one retransmission pass get different ones (`BeforeInjective`).
- `ReleasedOnlyIfDelivered`: with the types alone; an ACK lists sequence numbers of arrived
  datagrams, and by unique sequence numbers the cache entry is that very datagram.
- `WindowNeverOverflows`: `HasRoom` against the cardinality of the new indices; only proved, no run checks it.
- `BudgetKept`: the copies of a waiting frame never outnumber its attempts (`BudgetInv`).  The two differ when
  a send fails, since the attempt is counted and nothing leaves, so equality is not kept.
- `FragmentsStayTogether`: an order index in the window is below the next one (`OrdersUsed`), so a new
  payload's frames share theirs with no other; a frame that leaves the window was delivered.
- `LateAckStillReleases`: the strengthened invariant says that an entry missing from the cache while
  its frame waits has `CacheLimit` newer datagrams, which trimming establishes and all else keeps.
- `SenderImplementsChannel`: initial states and steps map to those of `ReliableDelivery`; one lemma
  per abstract action, and a stutter for ticks, repeated sends and what only changes the cache.
- `ReleasedNeverResent`: a frame that left the window stays out of it and no later datagram carries it: what is sent
  is new, or waits with attempts left.  Only the types are needed, but for every action that sends.
- `RetriesRunDown`: the safety half of `EveryFrameSettles`.  `StepsLeft` counts the ticks and retransmissions a waiting frame is
  away from the end of its last interval; it is bounded, goes down by one with every tick of a frame that is not due and with
  every retransmission of one that is, and nothing raises it.  Fairness of `Tick` and `Resend`, which makes the
  frame settle, stays with TLC.

`SplitReassembler_proofs`.  `RInv` joins the types, agreement of the dicts with the insertion order, the
limits of groups and bytes, incompleteness of stored groups and their origin.  They need each other: that making
room removes one whole group needs agreement, the limit needs that the evicted key was stored, and
incompleteness needs the origin to bound the indices.  `MessagesWhole` and `PushIsLocal` follow from it:
a set of n distinct indices below n is all of them, so the `KeyError` branch of `push` is dead.  `FirstPieceStays`
looks at a group over time: what has arrived is in the joined message, and the header is that of the first fragment, though later
fragments of the same index differ.

`ClientSession_proofs`.  `SInv` joins the properties of the run with what they need half way through a
datagram: `FlagsQueued` and `Counts` (a payload whose flag is not set was queued by interrupted handlers
only, one exception each), `Request` (nothing is queued before promotion), `ProfileLeft` (what precedes a
lifecycle payload in the profile is queued or precedes it in the inbox), `ProfileDue` (until an exception cuts a
datagram short, a registered replicator has its whole profile queued or in the inbox, which is why the service's
physics payload comes after it), and `ToHandle` (the whole messages
of the datagram are handled or in the inbox).  There is one lemma per action, and `HandleKeeps` has a case per
way a handler ends.  `AnswersAreComplete` adds `HandledQueued`: without an exception a message whose handler returned has its
whole answer queued, also when a flag made the handler pass, because the flag was set by a whole answer.
`DictionaryFailsByExceptions` follows with `AcknowledgedIsHandled`.  `ParsedUnlessInterrupted` is a theorem under the hypothesis
`[][~Interrupted]_vars`; its invariant `FramesKept` says where the acknowledged frames of a message are: in the group that collects
them, or joined in a message that is handled or in the inbox.

`ServiceCadence_proofs`.  The bound on lateness is not inductive.  `InStep` adds what holds in between: below the
interval the clock of the code has counted at least the ticks that the timer has waited, and from there on only
ticks of the current round are added.  A restart of the clock by a datagram breaks the first part for
`silent` of the heartbeat, where the property fails, and keeps it for `idle`.  `Observed` adds that a span is
published only after the first heartbeat.  `ReportIsNotUptime` keeps the two writers of the reported time apart, and from it
`GateOpensByPings` tells the only way in which `HeartbeatGateHonest` fails.  `OnlyPingsShorten` is about steps: a
ping pair may shorten the reported time, nothing else does, and the received span survives it.

`OpenExchange_proofs`.  `IInv` joins the properties with `Requested` (a Request2 answers a Reply1): without it a
handshake could return false after a Reply2 was verified.  It also needs that answers are never taken back.
`ExchangeImplementsOpening` adds `Unverified` (before a Reply2 is verified there are no keys and no header); each
action of the exchange is a step of `SessionOpening` or changes none of its variables, and the only action that gives up,
`Return`, does so without a Request2.

`EstablishedStream_proofs`.  The anchor may move back, so the bound is relative to what has been lost: by `Near`
an anchor is at least the newest counter less what was missed since less `Age`.  With `Age + Gap < Half` every
datagram that can arrive is less than `Half` from the anchor, and `ExtendsToCounter` says that the signed difference
of remainders is then the true one, also across the end of the range; `TriesTheStart` covers the first datagram.
The theorem holds for every width of the hint, so for 16 bits.  `ReachIsHalf` is the converse: what a hint is extended to
differs from the counter by whole turns (`ExtendsByTurns`) and the neighbours have other hints (`NeighboursAreIdle`), so exactly the
counters from `Half` below the anchor to less than `Half` above it open, and a longer gap is deaf.  `AnchorsStayNear` bounds each move of an
anchor by `Age` back and `Age + Gap` forward.

`Replicator_proofs`.  `AddsGrounds`, `AddsCharacter` and `CountsOnce` compare what the code adds for one message with what a reader
would accept as ground (for the character `IdentifiesCharacter` or `NamesFigure`), for all messages and aliases; the theorems follow since only `Apply` and `ObserveControl`
touch evidence (`OthersKeep`).  `NeverTakenBack` and `CharacterLostToInstance` are about single steps, of the replicator and of the stats:
nothing but the character's flag is withdrawn, and that only by a NEW_INSTANCE block without it.  They need `PublishedFaithful`: what
`Publish` copies is not behind what was published.

`SessionReport_proofs`.  The verdict is made in four steps with the presence thread between them, so `IInv` follows the
report through its phases: `SessionOfOne`, `OkIsComplete` until the presence is judged, `Verdict` after it; `LastSuffices`
(an attempt with a player instance is the last) and `PlayerIsChosen` give that a complete one is selected, and `ListedKept` that a
listed sample is still there when it is judged.  A second invariant, `Course`, follows the run instead: `AllTried`, `Requested` and
`StageTells`, for `EndpointsTried` (no endpoint is passed over), `SuccessWasRequested` (a success had a Request2 to answer)
and `VerdictsAgreeTheorem` (stage, `ok` and exit status agree).

What `choose_endpoints` computes is a recursive function over a list, and the theorem about it is an induction.  The provers
cannot instantiate an induction theorem that takes an operator as a parameter, so the module proves one about
sets: the strict subset ordering of finite sets is well-founded, hence a nonempty set of naturals has a least one
(`LeastNatural`), hence a set that holds 0 and is closed under the successor holds every natural (`SetInduction`).  Applied to the
set of lengths for which a prefix of the list has the wanted first occurrences, it gives `FirstsCorrect` for lists of any length; the
invariant `Walk` carries it to the run, and `AddressesTriedOnce` (no address twice, in the join's order) and `CandidatesAreTried`
(none left out unless an attempt suffices) follow.

Only model-checked: `EveryFrameSettles`, because liveness under fairness is beyond the prover (its ranking is proved, see
`RetriesRunDown`), and the four violations, which are single behaviours.

## 5. Not modelled

- Cryptography, key derivation and hashes (a library or pure functions): a packet opens or does not, a Reply2 has a
  usable key or not, and join material is there or not.
- The byte layouts of `raknet_codec.py`, `udmux_codec.py`, `lifecycle_codec.py`, `application_bootstrap.py`,
  `rbx_protocol.py` and `replication.py:126-212`: parsers and builders without state, best compared byte by byte with
  captured packets, as the tests do.  That they may raise is in `ClientSession`.
- The external interpreter of the challenge (`application_challenge.py`), whose only effect on the session is an answer or
  an error.
- HTTP, the contents of files, and the command line; `protocol_profile.py` only reads and validates.
- `early_ping.py`, which builds one packet and has no caller in the session, and the fixture endpoint of the smoke test.
- Logging, and report fields that nothing reads.

Some hazards in `PROJECT.json` have no property, each with its reason: the wrap of 24-bit counters takes 2^24 frames, a
fragment size above 8191 takes a profile that sets it, and for the others the code has a behaviour, in the models, about which
no doc or test takes a position.

## 6. Order of work

`ReliableDelivery`, `ReliableSender`, `SplitReassembler` and `ClientSession` came first, since an unreliable medium meets
exceptions there; then `ServiceCadence`; then the evidence (`Replicator`), the opening (`OpenExchange`), the framing
(`EstablishedStream`) and the run around them (`SessionReport`); every module was checked before it was proved.
What could follow: `ReliableSender` composed with a reassembling peer, so that a fragmented payload is delivered whole;
the ACK parsers against their builder; and, with the induction of `SessionReport_proofs`, what the other recursive
functions compute.
