--------------------------- MODULE ReliableSender ---------------------------
(***************************************************************************)
(* The client's outgoing reliable channel: the ReliabilityWindow of        *)
(* raknet_codec.py and the RakNetClient methods of rift_headless.py that   *)
(* track, transmit, acknowledge and retransmit its frames.                 *)
(*                                                                         *)
(* A payload becomes one frame, or several fragments that share an order   *)
(* index and have consecutive message indices.  Each frame is carried by a *)
(* datagram of its own, under a fresh datagram sequence number, and a      *)
(* frame that is not acknowledged in time is carried again under another   *)
(* sequence number.  The peer acknowledges sequence numbers; the cache     *)
(* `outbound` maps them back to message indices.                           *)
(*                                                                         *)
(* The network loses (a datagram may never arrive), duplicates and         *)
(* reorders datagrams and acknowledgements.  A send may fail with OSError  *)
(* after the frame is tracked and the sequence number is used.             *)
(***************************************************************************)
EXTENDS Integers, FiniteSets

CONSTANTS
  MaxPending,      \* ReliabilityWindow.max_pending (4096)
  CacheLimit,      \* bound on the datagram cache (4096)
  ResendAfter,     \* resend_after, in clock ticks
  MaxAttempts,     \* transmissions a frame is given (3)
  SplitSpace,      \* number of split ids (2^16)
  IndexSpace,      \* bound: the model ends before a 24-bit counter wraps
  FragmentCounts,  \* how many frames a payload may need
  MaxMessages,     \* bound: frames tracked in a session
  UnreliableBelow  \* bound: untracked datagrams use sequence numbers below it

ASSUME SenderAssumption ==
  /\ MaxPending \in Nat \ {0}
  /\ CacheLimit \in Nat \ {0}
  /\ ResendAfter \in Nat \ {0}
  /\ MaxAttempts \in Nat \ {0}
  /\ SplitSpace \in Nat \ {0}
  /\ IndexSpace \in Nat
  /\ MaxMessages \in Nat
  /\ MaxMessages <= IndexSpace
  /\ FragmentCounts \subseteq Nat \ {0}
  /\ UnreliableBelow \in Nat

VARIABLES
  open,         \* no exception has left RakNetClient.run
  nextMessage,  \* ReliabilityWindow.next_message_index
  nextOrder,    \* ReliabilityWindow.next_order_index[0], the one channel used
  nextSplit,    \* RakNetClient._next_split_id
  sequence,     \* RakNetClient.datagram_sequence
  pending,      \* ReliabilityWindow.pending: message index -> PendingFrame
  outbound,     \* _outbound_datagrams, _outbound_messages: sequence -> message
  wire,         \* every reliable datagram handed to the socket
  arrived       \* those the peer has received

vars == <<open, nextMessage, nextOrder, nextSplit, sequence, pending, outbound,
          wire, arrived>>

\* What the retransmission machinery reads and writes.
counters == <<nextMessage, nextOrder, nextSplit>>

-----------------------------------------------------------------------------
(* Frames, window entries and datagrams                                    *)

Frames == [ordered : BOOLEAN, order : Nat, split : 0 .. SplitSpace - 1,
           count : Nat \ {0}, part : Nat]

\* The age of an entry is the time since sent_at, counted up to resend_after;
\* attempts is counted up to the first value `attempts > 3` tells apart.
Entries == [frame : Frames, age : 0 .. ResendAfter,
            attempts : 1 .. MaxAttempts + 1]

Tracked == 0 .. nextMessage - 1

Exhausted(m) == pending[m].attempts > MaxAttempts

Delivered == {d.message : d \in arrived}

\* The types, and what the cache and the network hold: only frames that were
\* tracked, under sequence numbers that were used, and the cache only datagrams
\* that were handed to the socket (_send_reliable stores them after the send).
TypeOK ==
  /\ open \in BOOLEAN
  /\ nextMessage \in 0 .. MaxMessages
  /\ nextOrder \in Nat
  /\ nextSplit \in 0 .. SplitSpace - 1
  /\ sequence \in Nat
  /\ DOMAIN pending \subseteq Tracked
  /\ \A m \in DOMAIN pending : pending[m] \in Entries
  /\ outbound \subseteq wire
  /\ wire \subseteq [sequence : 0 .. sequence - 1, message : Tracked]
  /\ arrived \subseteq wire

Init ==
  /\ open = TRUE
  /\ nextMessage = 0
  /\ nextOrder = 0
  /\ nextSplit = 0
  /\ sequence = 0
  /\ pending = [m \in {} |-> {}]
  /\ outbound = {}
  /\ wire = {}
  /\ arrived = {}

-----------------------------------------------------------------------------
(* Tracking a payload                                                      *)

HasRoom(n) == Cardinality(DOMAIN pending) + n <= MaxPending

NewMessages(n) == nextMessage .. nextMessage + n - 1

\* Mutant: each fragment takes an order index of its own.
FrameWithOwnOrder(m, n, ordered) ==
  [ordered |-> ordered,
   order   |-> IF ordered THEN nextOrder + (m - nextMessage) ELSE 0,
   split   |-> IF n > 1 THEN nextSplit ELSE 0,
   count   |-> n,
   part    |-> m - nextMessage]

\* The frame that carries message index m of a payload cut into n pieces.
FrameOf(m, n, ordered) ==
  [ordered |-> ordered,
   order   |-> IF ordered THEN nextOrder ELSE 0,
   split   |-> IF n > 1 THEN nextSplit ELSE 0,
   count   |-> n,
   part    |-> m - nextMessage]

\* ReliabilityWindow.track (n = 1) and track_split (n > 1).
Track(n, ordered) ==
  /\ HasRoom(n)
  /\ nextMessage + n <= MaxMessages
  /\ pending' = [m \in DOMAIN pending \cup NewMessages(n) |->
                   IF m \in NewMessages(n)
                   THEN [frame |-> FrameOf(m, n, ordered), age |-> 0, attempts |-> 1]
                   ELSE pending[m]]
  /\ nextMessage' = nextMessage + n
  /\ nextOrder' = IF ordered THEN nextOrder + 1 ELSE nextOrder
  /\ nextSplit' = IF n > 1 THEN (nextSplit + 1) % SplitSpace ELSE nextSplit

\* The newest CacheLimit entries: the eviction loop drops the oldest first.
Newer(e, datagrams) == {d \in datagrams : d.sequence > e.sequence}

\* Mutant: the eviction loop drops the newest entries.
Oldest(cache) ==
  {e \in cache : Cardinality({d \in cache : d.sequence < e.sequence}) < CacheLimit}

Newest(cache) == {e \in cache : Cardinality(Newer(e, cache)) < CacheLimit}

\* The datagrams of the first k frames of a new payload, one frame in each.
NewDatagrams(k) ==
  {[sequence |-> sequence + i, message |-> nextMessage + i] : i \in 0 .. k - 1}

UseSequences(k) ==
  /\ sequence + k <= IndexSpace
  /\ sequence' = sequence + k

-----------------------------------------------------------------------------
(* Sending                                                                 *)

\* RakNetClient._send_reliable, when every frame leaves.
SendReliable(n) ==
  /\ open
  /\ Track(n, TRUE)
  /\ UseSequences(n)
  /\ wire' = wire \cup NewDatagrams(n)
  /\ outbound' = Newest(outbound \cup NewDatagrams(n))
  /\ UNCHANGED <<open, arrived>>

\* The senders of a single frame that leave the cache as large as it gets: the
\* application connection request (not ordered), the new incoming connection
\* and the reliable half of a replication ping.
SendControl(ordered) ==
  /\ open
  /\ Track(1, ordered)
  /\ UseSequences(1)
  /\ wire' = wire \cup NewDatagrams(1)
  /\ outbound' = outbound \cup NewDatagrams(1)
  /\ UNCHANGED <<open, arrived>>

\* A payload is sent while a received packet is handled, where an exception is
\* caught, or from the periodic service, where it ends the session.
Callers == {"receive", "service"}

\* Mutant: the datagram is cached before it is sent.
SendFailsCached(n, ordered, sent, caller) ==
  /\ open
  /\ ordered \/ (n = 1 /\ caller = "receive")
  /\ Track(n, ordered)
  /\ UseSequences(sent + 1)
  /\ wire' = wire \cup NewDatagrams(sent)
  /\ outbound' = outbound \cup NewDatagrams(sent + 1)
  /\ open' = (caller = "receive")
  /\ UNCHANGED arrived

\* The frame after the first `sent` ones raises OSError: the whole payload is
\* tracked, its sequence number is used, and the cache is not trimmed.
SendFails(n, ordered, sent, caller) ==
  /\ open
  /\ ordered \/ (n = 1 /\ caller = "receive")
  /\ Track(n, ordered)
  /\ UseSequences(sent + 1)
  /\ wire' = wire \cup NewDatagrams(sent)
  /\ outbound' = outbound \cup NewDatagrams(sent)
  /\ open' = (caller = "receive")
  /\ UNCHANGED arrived

\* BufferError in the periodic service: nothing is tracked, the session ends.
\* (In the receive path the same refusal changes nothing at all.)
WindowFull(n) ==
  /\ open
  /\ ~HasRoom(n)
  /\ open' = FALSE
  /\ UNCHANGED <<counters, sequence, pending, outbound, wire, arrived>>

\* RakNetClient._send_unreliable: a pong or a connected ping uses a sequence
\* number and leaves nothing to acknowledge.
SendUnreliable ==
  /\ open
  /\ sequence < UnreliableBelow
  /\ UseSequences(1)
  /\ UNCHANGED <<open, counters, pending, outbound, wire, arrived>>

-----------------------------------------------------------------------------
(* Retransmission                                                          *)

Tick ==
  /\ open
  /\ \E m \in DOMAIN pending : pending[m].age < ResendAfter
  /\ pending' = [m \in DOMAIN pending |->
       [pending[m] EXCEPT !.age = IF @ < ResendAfter THEN @ + 1 ELSE @]]
  /\ UNCHANGED <<open, counters, sequence, outbound, wire, arrived>>

\* Mutant: a frame that was sent again is never due again.
DueOnce == {m \in DOMAIN pending : pending[m].age >= ResendAfter /\ pending[m].attempts = 1}

Due == {m \in DOMAIN pending : pending[m].age >= ResendAfter}

\* Mutant: the budget is compared before this attempt is counted.
AgainOnceMore == {m \in Due : pending[m].attempts <= MaxAttempts}

\* Those of the due frames that `attempts > 3` does not skip.
Again == {m \in Due : pending[m].attempts < MaxAttempts}

\* How many frames are sent again before m: pending is in message index order.
Before(m) == {k \in Again : k < m}

\* The datagrams of the first k frames sent again.
AgainDatagrams(k) ==
  {[sequence |-> sequence + Cardinality(Before(m)), message |-> m] :
     m \in {x \in Again : Cardinality(Before(x)) < k}}

\* sent_at is reset and another attempt counted, also for an exhausted frame.
Marked(entry) ==
  [frame    |-> entry.frame,
   age      |-> 0,
   attempts |-> IF entry.attempts <= MaxAttempts THEN entry.attempts + 1
                ELSE entry.attempts]

\* Mutant: a frame whose budget is used up is dropped from the window.
MarkDueOrDrop ==
  /\ Due # {}
  /\ pending' = [m \in (DOMAIN pending \ Due) \cup Again |->
                   IF m \in Due THEN Marked(pending[m]) ELSE pending[m]]

\* ReliabilityWindow.due marks every due frame before the first of them leaves.
MarkDue ==
  /\ Due # {}
  /\ pending' = [m \in DOMAIN pending |->
                   IF m \in Due THEN Marked(pending[m]) ELSE pending[m]]

\* RakNetClient._resend_due
ResendDue ==
  /\ open
  /\ MarkDue
  /\ UseSequences(Cardinality(Again))
  /\ wire' = wire \cup AgainDatagrams(Cardinality(Again))
  /\ outbound' = outbound \cup AgainDatagrams(Cardinality(Again))
  /\ UNCHANGED <<open, counters, arrived>>

\* A retransmission raises OSError: the frames after it stay marked, and the
\* exception leaves RakNetClient.run.
ResendFails ==
  /\ open
  /\ MarkDue
  /\ \E sent \in 0 .. Cardinality(Again) - 1 :
       /\ UseSequences(sent + 1)
       /\ wire' = wire \cup AgainDatagrams(sent)
       /\ outbound' = outbound \cup AgainDatagrams(sent)
  /\ open' = FALSE
  /\ UNCHANGED <<counters, arrived>>

-----------------------------------------------------------------------------
(* The network, the peer and its acknowledgements                          *)

\* A datagram reaches the peer, in any order or never.
Arrive(d) ==
  /\ open
  /\ d \notin arrived
  /\ arrived' = arrived \cup {d}
  /\ UNCHANGED <<open, counters, sequence, pending, outbound, wire>>

\* Mutant: a range of an ACK ends one number too far.
AckedWithNext(S) ==
  {e \in outbound : \E d \in S : e.sequence \in {d.sequence, d.sequence + 1}}

Acked(S) == {e \in outbound : \E d \in S : d.sequence = e.sequence}

\* RakNetClient._apply_ack, for an ACK packet that lists the sequence numbers
\* of the datagrams S.  Packets that release nothing are not steps.
ApplyAck(S) ==
  /\ open
  /\ Acked(S) # {}
  /\ outbound' = outbound \ Acked(S)
  /\ pending' = [m \in DOMAIN pending \ {e.message : e \in Acked(S)} |-> pending[m]]
  /\ UNCHANGED <<open, counters, sequence, wire, arrived>>

-----------------------------------------------------------------------------

Send ==
  \/ \E n \in FragmentCounts : SendReliable(n) \/ WindowFull(n)
  \/ \E ordered \in BOOLEAN : SendControl(ordered)
  \/ \E n \in FragmentCounts, ordered \in BOOLEAN, caller \in Callers :
       \E sent \in 0 .. n - 1 : SendFails(n, ordered, sent, caller)
  \/ SendUnreliable

Resend == ResendDue \/ ResendFails

Peer ==
  \/ \E d \in wire : Arrive(d)
  \/ \E S \in SUBSET arrived : ApplyAck(S)

Next == Send \/ Tick \/ Resend \/ Peer

Spec == Init /\ [][Next]_vars

\* The run loop calls the periodic service after every receive interval, and
\* the monotonic clock advances.  Nothing is assumed of the network.
FairSpec == Spec /\ WF_vars(Tick) /\ WF_vars(Resend)

-----------------------------------------------------------------------------
(* Properties                                                              *)

\* A frame leaves the window only after the peer has received it: no ACK, be it
\* late, repeated, of an older copy or of a range, releases another frame.
NoFalseRelease == Tracked \ DOMAIN pending \subseteq Delivered

\* The window never holds more frames than max_pending, also when a fragmented
\* payload is tracked or a send fails half way.
WindowBounded == Cardinality(DOMAIN pending) <= MaxPending

\* An ACK of any copy of a frame still waiting releases it: the mapping of a
\* copy is forgotten only once CacheLimit newer datagrams have been sent.
AnyCopyReleases ==
  \A d \in wire :
    d.message \in DOMAIN pending
      => d \in outbound \/ Cardinality(Newer(d, wire)) >= CacheLimit

\* No frame is handed to the socket more than three times, whatever the order
\* of failures, timeouts and late acknowledgements.
RetryBudget ==
  \A m \in Tracked : Cardinality({d \in wire : d.message = m}) <= MaxAttempts

\* The fragments of one payload stay together: they share the order index and
\* the split id, no other ordered frame has that order index, and a fragment
\* is missing from the window only if the peer has it.
FragmentsTogether ==
  \A m \in DOMAIN pending :
    LET f == pending[m].frame
        group == (m - f.part) .. (m - f.part + f.count - 1)
    IN  /\ f.part < f.count
        /\ group \subseteq Tracked
        /\ \A k \in group :
             \/ k \in Delivered
             \/ k \in DOMAIN pending
                /\ pending[k].frame = [f EXCEPT !.part = k - (m - f.part)]
        /\ \A k \in DOMAIN pending \ group :
             ~(f.ordered /\ pending[k].frame.ordered /\ pending[k].frame.order = f.order)

\* While the session lasts every frame in the window is released or used up:
\* retransmission never stops half way through the retry budget.
EveryFrameSettles ==
  \A m \in 0 .. MaxMessages - 1 :
    m \in DOMAIN pending ~> ~open \/ m \notin DOMAIN pending \/ Exhausted(m)

\* Where a message index is in its life.
StatusOf(m) ==
  IF m \notin Tracked THEN "unsent"
  ELSE IF m \notin DOMAIN pending THEN "released"
  ELSE IF Exhausted(m) THEN "abandoned" ELSE "outstanding"

\* The sender implements the abstract channel: a frame goes once from unsent to
\* outstanding, is abandoned only by its last retry, is never taken up again,
\* and is released only by a real delivery.
Channel == INSTANCE ReliableDelivery WITH
  Messages  <- 0 .. MaxMessages - 1,
  status    <- [m \in 0 .. MaxMessages - 1 |-> StatusOf(m)],
  delivered <- Delivered

ChannelSpec == Channel!Spec

=============================================================================
