------------------------ MODULE ReliableSender_proofs ------------------------
(***************************************************************************)
(* Safety of the reliable sender for every window size, cache limit, retry *)
(* budget and payload.                                                     *)
(***************************************************************************)
EXTENDS ReliableSender, FiniteSetTheorems, TLAPS

\* A sequence number identifies one datagram: retransmissions take fresh ones.
UniqueSequences == \A d, e \in wire : d.sequence = e.sequence => d = e

-----------------------------------------------------------------------------
(* Lemmas on the operators                                                 *)

LEMMA SplitIdInRange ==
  ASSUME NEW s \in 0 .. SplitSpace - 1
  PROVE  (s + 1) % SplitSpace \in 0 .. SplitSpace - 1
  BY SenderAssumption, SMT

\* The indices of a window, and those sent again, are finitely many.
LEMMA FiniteIndices ==
  ASSUME TypeOK
  PROVE  /\ IsFiniteSet(DOMAIN pending)
         /\ IsFiniteSet(Again)
         /\ \A m \in Again : IsFiniteSet(Before(m))
         /\ Cardinality(Again) \in Nat
         /\ \A m \in Again : Cardinality(Before(m)) \in Nat
<1>1. IsFiniteSet(Tracked)
  BY FS_Interval DEF TypeOK, Tracked
<1>2. IsFiniteSet(DOMAIN pending)
  BY <1>1, FS_Subset DEF TypeOK
<1>3. Again \subseteq DOMAIN pending /\ \A m \in Again : Before(m) \subseteq DOMAIN pending
  BY DEF Again, Due, Before
<1>4. IsFiniteSet(Again) /\ \A m \in Again : IsFiniteSet(Before(m))
  BY <1>2, <1>3, FS_Subset
<1> QED
  BY <1>2, <1>4, FS_CardinalityType

\* Two frames sent again in one pass take different positions.
LEMMA BeforeInjective ==
  ASSUME TypeOK, NEW m \in Again, NEW k \in Again,
         Cardinality(Before(m)) = Cardinality(Before(k))
  PROVE  m = k
<1>1. m \in Int /\ k \in Int
  BY DEF TypeOK, Again, Due, Tracked
<1>2. SUFFICES ASSUME NEW x \in Again, NEW y \in Again, x \in Int, y \in Int, x < y,
                      Cardinality(Before(x)) = Cardinality(Before(y))
               PROVE  FALSE
  BY <1>1
<1>3. Before(x) \in SUBSET Before(y)
  BY <1>2 DEF Before, Again, Due, TypeOK, Tracked
<1>4. x \in Before(y) /\ x \notin Before(x)
  BY <1>2 DEF Before
<1>5. IsFiniteSet(Before(y))
  BY FiniteIndices
<1> QED
  BY <1>2, <1>3, <1>4, <1>5, FS_Subset

-----------------------------------------------------------------------------
(* Type correctness and unique sequence numbers                            *)

TypeInv == TypeOK /\ UniqueSequences

LEMMA TypeInvInit == Init => TypeInv
  BY SenderAssumption DEF Init, TypeInv, TypeOK, UniqueSequences, Tracked

\* Tracking a payload keeps the window well typed.
LEMMA TrackTyped ==
  ASSUME TypeOK, NEW n \in Nat \ {0}, NEW ordered \in BOOLEAN, Track(n, ordered)
  PROVE  /\ nextMessage' \in 0 .. MaxMessages
         /\ nextOrder' \in Nat
         /\ nextSplit' \in 0 .. SplitSpace - 1
         /\ Tracked \subseteq Tracked'
         /\ DOMAIN pending' = DOMAIN pending \cup NewMessages(n)
         /\ DOMAIN pending' \subseteq Tracked'
         /\ \A m \in DOMAIN pending' : pending'[m] \in Entries
<1>1. nextMessage' \in 0 .. MaxMessages /\ nextOrder' \in Nat
  BY DEF Track, TypeOK
<1>2. nextSplit' \in 0 .. SplitSpace - 1
  BY SplitIdInRange DEF Track, TypeOK
<1>3. /\ Tracked \subseteq Tracked'
      /\ DOMAIN pending' = DOMAIN pending \cup NewMessages(n)
      /\ DOMAIN pending' \subseteq Tracked'
  BY DEF Track, TypeOK, Tracked, NewMessages
<1>4. ASSUME NEW m \in NewMessages(n)
      PROVE  [frame |-> FrameOf(m, n, ordered), age |-> 0, attempts |-> 1] \in Entries
  BY SenderAssumption DEF NewMessages, FrameOf, Entries, Frames, TypeOK
<1>5. \A m \in DOMAIN pending' : pending'[m] \in Entries
  BY <1>3, <1>4 DEF Track, TypeOK
<1> QED
  BY <1>1, <1>2, <1>3, <1>5

\* The datagrams of a new payload are fresh, and one per sequence number.
LEMMA NewDatagramsFresh ==
  ASSUME TypeOK, NEW n \in Nat, NEW k \in 0 .. n
  PROVE  /\ NewDatagrams(k) \subseteq
              [sequence : sequence .. sequence + k - 1,
               message  : nextMessage .. nextMessage + n - 1]
         /\ \A d, e \in NewDatagrams(k) : d.sequence = e.sequence => d = e
  BY DEF TypeOK, NewDatagrams

\* So are those of the frames sent again.
LEMMA AgainDatagramsFresh ==
  ASSUME TypeOK, NEW k \in 0 .. Cardinality(Again)
  PROVE  /\ AgainDatagrams(k) \subseteq
              [sequence : sequence .. sequence + k - 1, message : Again]
         /\ \A d, e \in AgainDatagrams(k) : d.sequence = e.sequence => d = e
<1>1. \A m \in Again : Cardinality(Before(m)) \in Nat
  BY FiniteIndices
<1>2. Cardinality(Again) \in Nat /\ k \in Nat
  BY FiniteIndices
<1>3. AgainDatagrams(k) \subseteq
              [sequence : sequence .. sequence + k - 1, message : Again]
  BY <1>1, <1>2 DEF AgainDatagrams, TypeOK
<1>4. ASSUME NEW d \in AgainDatagrams(k), NEW e \in AgainDatagrams(k),
             d.sequence = e.sequence
      PROVE  d = e
  <2>1. PICK m \in Again : d = [sequence |-> sequence + Cardinality(Before(m)), message |-> m]
    BY DEF AgainDatagrams
  <2>2. PICK x \in Again : e = [sequence |-> sequence + Cardinality(Before(x)), message |-> x]
    BY DEF AgainDatagrams
  <2>3. Cardinality(Before(m)) = Cardinality(Before(x))
    BY <1>1, <1>4, <2>1, <2>2 DEF TypeOK
  <2> QED
    BY <2>1, <2>2, <2>3, BeforeInjective
<1> QED
  BY <1>3, <1>4

\* Adding datagrams under fresh sequence numbers keeps the wire well formed.
LEMMA FreshKeepsUnique ==
  ASSUME TypeInv, NEW new, NEW k \in Nat,
         Tracked \subseteq Tracked',
         sequence' >= sequence + k, sequence' \in Nat,
         new \subseteq [sequence : sequence .. sequence + k - 1, message : Tracked'],
         \A d, e \in new : d.sequence = e.sequence => d = e,
         wire' = wire \cup new
  PROVE  /\ wire' \subseteq [sequence : 0 .. sequence' - 1, message : Tracked']
         /\ UniqueSequences'
<1>1. wire \subseteq [sequence : 0 .. sequence - 1, message : Tracked]
  BY DEF TypeInv, TypeOK
<1>2. sequence \in Nat
  BY DEF TypeInv, TypeOK
<1>3. wire' \subseteq [sequence : 0 .. sequence' - 1, message : Tracked']
  BY <1>1, <1>2
<1>4. \A d \in wire : d.sequence < sequence
  BY <1>1, <1>2
<1>5. \A d \in new : d.sequence >= sequence
  BY <1>2
<1>6. \A d \in wire' : d.sequence \in Nat
  BY <1>3, <1>2
<1>7. ASSUME NEW d \in wire', NEW e \in wire', d.sequence = e.sequence
      PROVE  d = e
  BY <1>4, <1>5, <1>6, <1>2, <1>7 DEF TypeInv, UniqueSequences
<1> QED
  BY <1>3, <1>7 DEF UniqueSequences

LEMMA CacheWithin ==
  ASSUME NEW cache
  PROVE  Newest(cache) \subseteq cache
  BY DEF Newest

\* Marking the due frames touches only their ages and attempts.
LEMMA MarkDueTyped ==
  ASSUME TypeOK, MarkDue
  PROVE  /\ DOMAIN pending' = DOMAIN pending
         /\ \A m \in DOMAIN pending' : pending'[m] \in Entries
<1>1. DOMAIN pending' = DOMAIN pending
  BY DEF MarkDue
<1>2. ASSUME NEW m \in DOMAIN pending
      PROVE  pending'[m] \in Entries
  <2>1. pending[m] \in Entries
    BY DEF TypeOK
  <2>2. CASE m \in Due
    BY <2>1, <2>2, SenderAssumption DEF MarkDue, Marked, Entries
  <2>3. CASE m \notin Due
    BY <2>1, <2>3 DEF MarkDue
  <2> QED
    BY <2>2, <2>3
<1> QED
  BY <1>1, <1>2

\* Sending a new payload, whether all its frames leave or a send raises.
LEMMA TypeInvSend ==
  ASSUME TypeInv, NEW n \in Nat \ {0}, NEW ordered \in BOOLEAN, Track(n, ordered),
         NEW k \in 0 .. n, NEW used \in k .. n, UseSequences(used),
         wire' = wire \cup NewDatagrams(k),
         outbound' \subseteq outbound \cup NewDatagrams(k),
         UNCHANGED arrived, open' \in BOOLEAN
  PROVE  TypeInv'
<1>1. TypeOK
  BY DEF TypeInv
<1>2. /\ Tracked \subseteq Tracked'
      /\ nextMessage .. nextMessage + n - 1 \subseteq Tracked'
  BY <1>1 DEF Track, TypeOK, Tracked
<1>3. /\ NewDatagrams(k) \subseteq [sequence : sequence .. sequence + k - 1, message : Tracked']
      /\ \A d, e \in NewDatagrams(k) : d.sequence = e.sequence => d = e
  BY <1>1, <1>2, NewDatagramsFresh
<1>4. sequence' \in Nat /\ sequence' >= sequence + k /\ k \in Nat
  BY <1>1 DEF UseSequences, TypeOK
<1>5. /\ wire' \subseteq [sequence : 0 .. sequence' - 1, message : Tracked']
      /\ UniqueSequences'
  BY <1>2, <1>3, <1>4, FreshKeepsUnique
<1>6. outbound' \subseteq wire' /\ arrived' \subseteq wire'
  BY <1>1 DEF TypeOK
<1>7. /\ nextMessage' \in 0 .. MaxMessages
      /\ nextOrder' \in Nat
      /\ nextSplit' \in 0 .. SplitSpace - 1
      /\ DOMAIN pending' \subseteq Tracked'
      /\ \A m \in DOMAIN pending' : pending'[m] \in Entries
  BY <1>1, TrackTyped
<1> QED
  BY <1>4, <1>5, <1>6, <1>7 DEF TypeInv, TypeOK

\* Sending due frames again, whether all of them leave or a send raises.
LEMMA TypeInvResend ==
  ASSUME TypeInv, MarkDue,
         NEW k \in 0 .. Cardinality(Again), NEW used \in Nat, used >= k,
         UseSequences(used),
         wire' = wire \cup AgainDatagrams(k),
         outbound' = outbound \cup AgainDatagrams(k),
         UNCHANGED <<counters, arrived>>, open' \in BOOLEAN
  PROVE  TypeInv'
<1>1. TypeOK
  BY DEF TypeInv
<1>2. Tracked' = Tracked /\ Again \subseteq Tracked
  BY <1>1 DEF Tracked, counters, TypeOK, Again, Due
<1>3. /\ AgainDatagrams(k) \subseteq [sequence : sequence .. sequence + k - 1, message : Tracked']
      /\ \A d, e \in AgainDatagrams(k) : d.sequence = e.sequence => d = e
  BY <1>1, <1>2, AgainDatagramsFresh
<1>4. Cardinality(Again) \in Nat
  BY <1>1, FiniteIndices
<1>5. sequence' \in Nat /\ sequence' >= sequence + k /\ k \in Nat
  BY <1>1, <1>4 DEF UseSequences, TypeOK
<1>6. /\ wire' \subseteq [sequence : 0 .. sequence' - 1, message : Tracked']
      /\ UniqueSequences'
  BY <1>2, <1>3, <1>5, FreshKeepsUnique
<1>7. outbound' \subseteq wire' /\ arrived' \subseteq wire'
  BY <1>1 DEF TypeOK
<1>8. /\ DOMAIN pending' \subseteq Tracked'
      /\ \A m \in DOMAIN pending' : pending'[m] \in Entries
  BY <1>1, <1>2, MarkDueTyped DEF TypeOK
<1>9. /\ nextMessage' \in 0 .. MaxMessages
      /\ nextOrder' \in Nat
      /\ nextSplit' \in 0 .. SplitSpace - 1
  BY <1>1 DEF TypeOK, counters
<1> QED
  BY <1>5, <1>6, <1>7, <1>8, <1>9 DEF TypeInv, TypeOK

\* Each action keeps the types and the uniqueness of sequence numbers.
LEMMA TypeInvStep == TypeInv /\ [Next]_vars => TypeInv'
<1> SUFFICES ASSUME TypeInv, [Next]_vars
             PROVE  TypeInv'
  OBVIOUS
<1>0. TypeOK /\ UniqueSequences
  BY DEF TypeInv
<1>1. ASSUME NEW n \in FragmentCounts, SendReliable(n)
      PROVE  TypeInv'
  <2>1. n \in Nat \ {0} /\ n \in 0 .. n /\ n \in n .. n
    BY SenderAssumption
  <2>2. outbound' \subseteq outbound \cup NewDatagrams(n)
    BY <1>1, CacheWithin DEF SendReliable
  <2>3. /\ Track(n, TRUE) /\ UseSequences(n) /\ wire' = wire \cup NewDatagrams(n)
        /\ UNCHANGED arrived /\ open' \in BOOLEAN
    BY <1>0, <1>1 DEF SendReliable, TypeOK
  <2> QED
    BY <2>1, <2>2, <2>3, TypeInvSend
<1>2. ASSUME NEW ordered \in BOOLEAN, SendControl(ordered)
      PROVE  TypeInv'
  <2>1. /\ Track(1, ordered) /\ UseSequences(1) /\ wire' = wire \cup NewDatagrams(1)
        /\ outbound' \subseteq outbound \cup NewDatagrams(1)
        /\ UNCHANGED arrived /\ open' \in BOOLEAN
    BY <1>0, <1>2 DEF SendControl, TypeOK
  <2>2. 1 \in Nat \ {0} /\ 1 \in 0 .. 1 /\ 1 \in 1 .. 1
    OBVIOUS
  <2> QED
    BY <2>1, <2>2, TypeInvSend
<1>3. ASSUME NEW n \in FragmentCounts, NEW ordered \in BOOLEAN, NEW caller \in Callers,
             NEW sent \in 0 .. n - 1, SendFails(n, ordered, sent, caller)
      PROVE  TypeInv'
  <2>1. n \in Nat \ {0} /\ sent \in 0 .. n /\ sent + 1 \in sent .. n
    BY SenderAssumption
  <2>2. /\ Track(n, ordered) /\ UseSequences(sent + 1)
        /\ wire' = wire \cup NewDatagrams(sent)
        /\ outbound' \subseteq outbound \cup NewDatagrams(sent)
        /\ UNCHANGED arrived /\ open' \in BOOLEAN
    BY <1>3 DEF SendFails
  <2> QED
    BY <2>1, <2>2, TypeInvSend
<1>4. ASSUME NEW n \in FragmentCounts, WindowFull(n)
      PROVE  TypeInv'
  BY <1>0, <1>4 DEF WindowFull, TypeInv, TypeOK, UniqueSequences, counters, Tracked
<1>5. CASE SendUnreliable
  BY <1>0, <1>5 DEF SendUnreliable, UseSequences, TypeInv, TypeOK, UniqueSequences,
                    counters, Tracked
<1>6. CASE Tick
  <2>1. ASSUME NEW m \in DOMAIN pending
        PROVE  pending'[m] \in Entries
    BY <1>0, <1>6, SenderAssumption DEF Tick, TypeOK, Entries
  <2>2. DOMAIN pending' = DOMAIN pending
    BY <1>6 DEF Tick
  <2> QED
    BY <1>0, <1>6, <2>1, <2>2 DEF Tick, TypeInv, TypeOK, UniqueSequences, counters, Tracked
<1>7. CASE ResendDue
  <2>1. Cardinality(Again) \in Nat
    BY <1>0, FiniteIndices
  <2>2. /\ MarkDue /\ UseSequences(Cardinality(Again))
        /\ wire' = wire \cup AgainDatagrams(Cardinality(Again))
        /\ outbound' = outbound \cup AgainDatagrams(Cardinality(Again))
        /\ UNCHANGED <<counters, arrived>> /\ open' \in BOOLEAN
    BY <1>0, <1>7 DEF ResendDue, TypeOK
  <2> QED
    BY <2>1, <2>2, TypeInvResend
<1>8. CASE ResendFails
  <2>1. Cardinality(Again) \in Nat
    BY <1>0, FiniteIndices
  <2>2. PICK sent \in 0 .. Cardinality(Again) - 1 :
          /\ UseSequences(sent + 1)
          /\ wire' = wire \cup AgainDatagrams(sent)
          /\ outbound' = outbound \cup AgainDatagrams(sent)
    BY <1>8 DEF ResendFails
  <2>3. MarkDue /\ UNCHANGED <<counters, arrived>> /\ open' \in BOOLEAN
    BY <1>8 DEF ResendFails
  <2>4. sent \in 0 .. Cardinality(Again) /\ sent + 1 \in Nat /\ sent + 1 >= sent
    BY <2>1
  <2> QED
    BY <2>2, <2>3, <2>4, TypeInvResend
<1>9. ASSUME NEW d \in wire, Arrive(d)
      PROVE  TypeInv'
  BY <1>0, <1>9 DEF Arrive, TypeInv, TypeOK, UniqueSequences, counters, Tracked
<1>10. ASSUME NEW S \in SUBSET arrived, ApplyAck(S)
       PROVE  TypeInv'
  BY <1>0, <1>10 DEF ApplyAck, TypeInv, TypeOK, UniqueSequences, counters, Tracked
<1>11. CASE UNCHANGED vars
  BY <1>0, <1>11 DEF vars, TypeInv, TypeOK, UniqueSequences, Tracked
<1> QED
  BY <1>1, <1>2, <1>3, <1>4, <1>5, <1>6, <1>7, <1>8, <1>9, <1>10, <1>11
     DEF Next, Send, Resend, Peer

\* Every reachable state is well typed, and no two datagrams share a sequence
\* number although frames are sent up to MaxAttempts times.
THEOREM TypeCorrect == Spec => [](TypeOK /\ UniqueSequences)
<1>1. Init => TypeInv
  BY TypeInvInit
<1>2. TypeInv /\ [Next]_vars => TypeInv'
  BY TypeInvStep
<1>3. TypeInv => TypeOK /\ UniqueSequences
  BY DEF TypeInv
<1> QED
  BY <1>1, <1>2, <1>3, PTL DEF Spec

-----------------------------------------------------------------------------
(* A frame is released only when the peer has it                           *)

\* What every action but ApplyAck does to the set of released frames: nothing.
\* The one lemma about Next the properties of the window below rest on.
LEMMA WindowSteps ==
  ASSUME TypeInv, Next
  PROVE  \/ \E n \in Nat \ {0}, ordered \in BOOLEAN : Track(n, ordered) /\ UNCHANGED arrived
         \/ /\ DOMAIN pending' = DOMAIN pending
            /\ nextMessage' = nextMessage
            /\ arrived \subseteq arrived'
         \/ \E S \in SUBSET arrived : ApplyAck(S)
<1>1. ASSUME NEW n \in FragmentCounts, SendReliable(n)
      PROVE  \E k \in Nat \ {0}, ordered \in BOOLEAN : Track(k, ordered) /\ UNCHANGED arrived
  BY <1>1, SenderAssumption DEF SendReliable
<1>2. ASSUME NEW ordered \in BOOLEAN, SendControl(ordered)
      PROVE  \E k \in Nat \ {0}, o \in BOOLEAN : Track(k, o) /\ UNCHANGED arrived
  <2>1. Track(1, ordered) /\ UNCHANGED arrived /\ 1 \in Nat \ {0}
    BY <1>2 DEF SendControl
  <2> QED
    BY <2>1
<1>3. ASSUME NEW n \in FragmentCounts, NEW ordered \in BOOLEAN, NEW caller \in Callers,
             NEW sent \in 0 .. n - 1, SendFails(n, ordered, sent, caller)
      PROVE  \E k \in Nat \ {0}, o \in BOOLEAN : Track(k, o) /\ UNCHANGED arrived
  BY <1>3, SenderAssumption DEF SendFails
<1>4. ASSUME \/ \E n \in FragmentCounts : WindowFull(n)
             \/ SendUnreliable \/ Tick \/ ResendDue \/ ResendFails
             \/ \E d \in wire : Arrive(d)
      PROVE  /\ DOMAIN pending' = DOMAIN pending
             /\ nextMessage' = nextMessage
             /\ arrived \subseteq arrived'
  BY <1>4 DEF WindowFull, SendUnreliable, Tick, ResendDue, ResendFails, MarkDue, Arrive, counters
<1> QED
  BY <1>1, <1>2, <1>3, <1>4 DEF Next, Send, Resend, Peer

\* The frames an ACK releases were in datagrams the peer received.
LEMMA AckedDelivered ==
  ASSUME TypeInv, NEW S \in SUBSET arrived
  PROVE  {e.message : e \in Acked(S)} \subseteq Delivered
<1> SUFFICES ASSUME NEW e \in Acked(S)
             PROVE  e.message \in Delivered
  OBVIOUS
<1>1. PICK d \in S : d.sequence = e.sequence
  BY DEF Acked
<1>2. e \in wire /\ d \in wire /\ d \in arrived
  BY DEF Acked, TypeInv, TypeOK
<1>3. d = e
  BY <1>1, <1>2 DEF TypeInv, UniqueSequences
<1> QED
  BY <1>2, <1>3 DEF Delivered

LEMMA NoFalseReleaseStep ==
  TypeInv /\ NoFalseRelease /\ [Next]_vars => NoFalseRelease'
<1> SUFFICES ASSUME TypeInv, NoFalseRelease, [Next]_vars
             PROVE  NoFalseRelease'
  OBVIOUS
<1>1. ASSUME NEW n \in Nat \ {0}, NEW ordered \in BOOLEAN, Track(n, ordered),
             UNCHANGED arrived
      PROVE  NoFalseRelease'
  <2>1. Tracked' \subseteq Tracked \cup NewMessages(n)
    BY <1>1 DEF Track, Tracked, NewMessages, TypeInv, TypeOK
  <2>2. DOMAIN pending' = DOMAIN pending \cup NewMessages(n)
    BY <1>1 DEF Track
  <2> QED
    BY <1>1, <2>1, <2>2 DEF NoFalseRelease, Delivered
<1>2. ASSUME DOMAIN pending' = DOMAIN pending, nextMessage' = nextMessage,
             arrived \subseteq arrived'
      PROVE  NoFalseRelease'
  BY <1>2 DEF NoFalseRelease, Delivered, Tracked
<1>3. ASSUME NEW S \in SUBSET arrived, ApplyAck(S)
      PROVE  NoFalseRelease'
  <2>1. DOMAIN pending' = DOMAIN pending \ {e.message : e \in Acked(S)}
    BY <1>3 DEF ApplyAck
  <2>2. Tracked' = Tracked /\ arrived' = arrived
    BY <1>3 DEF ApplyAck, Tracked, counters
  <2> QED
    BY <2>1, <2>2, AckedDelivered DEF NoFalseRelease, Delivered
<1>4. CASE UNCHANGED vars
  BY <1>4 DEF vars, NoFalseRelease, Tracked, Delivered
<1> QED
  BY <1>1, <1>2, <1>3, <1>4, WindowSteps

\* A frame that has left the window was received by the peer, whatever the
\* network loses, repeats or reorders and whichever copy an ACK names.
THEOREM ReleasedOnlyIfDelivered == Spec => []NoFalseRelease
<1>1. Init => NoFalseRelease
  BY DEF Init, NoFalseRelease, Tracked
<1>2. TypeInv /\ NoFalseRelease /\ [Next]_vars => NoFalseRelease'
  BY NoFalseReleaseStep
<1> QED
  BY <1>1, <1>2, TypeInvInit, TypeInvStep, PTL DEF Spec

-----------------------------------------------------------------------------
(* The window is bounded                                                   *)

LEMMA WindowBoundedStep ==
  TypeInv /\ WindowBounded /\ [Next]_vars => WindowBounded'
<1> SUFFICES ASSUME TypeInv, WindowBounded, [Next]_vars
             PROVE  WindowBounded'
  OBVIOUS
<1>0. IsFiniteSet(DOMAIN pending)
  BY FiniteIndices DEF TypeInv
<1>1. ASSUME NEW n \in Nat \ {0}, NEW ordered \in BOOLEAN, Track(n, ordered)
      PROVE  WindowBounded'
  <2>1. DOMAIN pending' = DOMAIN pending \cup NewMessages(n)
    BY <1>1 DEF Track
  <2>2. IsFiniteSet(NewMessages(n)) /\ Cardinality(NewMessages(n)) = n
    BY FS_Interval DEF NewMessages, TypeInv, TypeOK
  <2>3. DOMAIN pending \cap NewMessages(n) = {}
    BY DEF TypeInv, TypeOK, Tracked, NewMessages
  <2>4. Cardinality(DOMAIN pending') = Cardinality(DOMAIN pending) + n
    <3>1. Cardinality(DOMAIN pending') =
            Cardinality(DOMAIN pending) + Cardinality(NewMessages(n)) - Cardinality({})
      BY <1>0, <2>1, <2>2, <2>3, FS_Union
    <3> QED
      BY <1>0, <2>2, <3>1, FS_EmptySet, FS_CardinalityType
  <2> QED
    BY <1>1, <2>4 DEF Track, HasRoom, WindowBounded
<1>2. ASSUME DOMAIN pending' \subseteq DOMAIN pending
      PROVE  WindowBounded'
  <2>1. Cardinality(DOMAIN pending') <= Cardinality(DOMAIN pending)
    BY <1>0, <1>2, FS_Subset
  <2>2. Cardinality(DOMAIN pending') \in Nat /\ Cardinality(DOMAIN pending) \in Nat
    BY <1>0, <1>2, FS_Subset, FS_CardinalityType
  <2> QED
    BY <2>1, <2>2, SenderAssumption DEF WindowBounded
<1>3. ASSUME NEW S \in SUBSET arrived, ApplyAck(S)
      PROVE  DOMAIN pending' \subseteq DOMAIN pending
  BY <1>3 DEF ApplyAck
<1>4. CASE UNCHANGED vars
  BY <1>2, <1>4 DEF vars
<1> QED
  BY <1>1, <1>2, <1>3, <1>4, WindowSteps

\* The window holds at most max_pending frames: a payload of several fragments
\* is tracked as a whole or not at all.
THEOREM WindowNeverOverflows == Spec => []WindowBounded
<1>1. Init => WindowBounded
  BY FS_EmptySet, SenderAssumption DEF Init, WindowBounded
<1>2. TypeInv /\ WindowBounded /\ [Next]_vars => WindowBounded'
  BY WindowBoundedStep
<1> QED
  BY <1>1, <1>2, TypeInvInit, TypeInvStep, PTL DEF Spec

-----------------------------------------------------------------------------
(* An acknowledgement of any copy releases the frame                       *)

FiniteWire == IsFiniteSet(wire)

LEMMA FiniteNewDatagrams ==
  ASSUME NEW k \in Nat
  PROVE  IsFiniteSet(NewDatagrams(k))
<1> DEFINE f == [i \in 0 .. k - 1 |-> [sequence |-> sequence + i, message |-> nextMessage + i]]
<1>1. IsFiniteSet(0 .. k - 1)
  BY FS_Interval
<1>2. f \in Surjection(0 .. k - 1, NewDatagrams(k))
  BY DEF Surjection, NewDatagrams
<1> QED
  BY <1>1, <1>2, FS_Surjection

LEMMA FiniteAgainDatagrams ==
  ASSUME TypeOK, NEW k \in Nat
  PROVE  IsFiniteSet(AgainDatagrams(k))
<1> DEFINE D == {x \in Again : Cardinality(Before(x)) < k}
           f == [m \in D |-> [sequence |-> sequence + Cardinality(Before(m)), message |-> m]]
<1>1. IsFiniteSet(D)
  BY FiniteIndices, FS_Subset
<1>2. f \in Surjection(D, AgainDatagrams(k))
  BY DEF Surjection, AgainDatagrams
<1> QED
  BY <1>1, <1>2, FS_Surjection

\* How a step changes the wire and the cache: it adds the same new datagrams to
\* both, and the cache then loses only entries that are not among the newest.
LEMMA CacheSteps ==
  ASSUME TypeInv, Next, \A S \in SUBSET arrived : ~ApplyAck(S)
  PROVE  \E new :
           /\ IsFiniteSet(new)
           /\ wire' = wire \cup new
           /\ \/ outbound' = outbound \cup new
              \/ outbound' = Newest(outbound \cup new)
<1>0. TypeOK /\ Cardinality(Again) \in Nat
  BY FiniteIndices DEF TypeInv
<1>1. ASSUME NEW n \in FragmentCounts, SendReliable(n)
      PROVE  /\ IsFiniteSet(NewDatagrams(n))
             /\ wire' = wire \cup NewDatagrams(n)
             /\ outbound' = Newest(outbound \cup NewDatagrams(n))
  BY <1>1, SenderAssumption, FiniteNewDatagrams DEF SendReliable
<1>2. ASSUME NEW ordered \in BOOLEAN, SendControl(ordered)
      PROVE  /\ IsFiniteSet(NewDatagrams(1))
             /\ wire' = wire \cup NewDatagrams(1)
             /\ outbound' = outbound \cup NewDatagrams(1)
  BY <1>2, FiniteNewDatagrams DEF SendControl
<1>3. ASSUME NEW n \in FragmentCounts, NEW ordered \in BOOLEAN, NEW caller \in Callers,
             NEW sent \in 0 .. n - 1, SendFails(n, ordered, sent, caller)
      PROVE  /\ IsFiniteSet(NewDatagrams(sent))
             /\ wire' = wire \cup NewDatagrams(sent)
             /\ outbound' = outbound \cup NewDatagrams(sent)
  BY <1>3, SenderAssumption, FiniteNewDatagrams DEF SendFails
<1>4. ASSUME \/ \E n \in FragmentCounts : WindowFull(n)
             \/ SendUnreliable \/ Tick
             \/ \E d \in wire : Arrive(d)
      PROVE  wire' = wire \cup {} /\ outbound' = outbound \cup {}
  BY <1>4 DEF WindowFull, SendUnreliable, Tick, Arrive
<1>5. CASE ResendDue
  <2>1. /\ wire' = wire \cup AgainDatagrams(Cardinality(Again))
        /\ outbound' = outbound \cup AgainDatagrams(Cardinality(Again))
    BY <1>5 DEF ResendDue
  <2> QED
    BY <1>0, <2>1, FiniteAgainDatagrams
<1>6. CASE ResendFails
  <2>1. PICK sent \in 0 .. Cardinality(Again) - 1 :
          /\ wire' = wire \cup AgainDatagrams(sent)
          /\ outbound' = outbound \cup AgainDatagrams(sent)
    BY <1>6 DEF ResendFails
  <2> QED
    BY <1>0, <2>1, FiniteAgainDatagrams
<1>7. IsFiniteSet({})
  BY FS_EmptySet
<1> QED
  BY <1>1, <1>2, <1>3, <1>4, <1>5, <1>6, <1>7 DEF Next, Send, Resend, Peer

\* An entry the eviction loop drops has CacheLimit newer datagrams on the wire.
LEMMA EvictedIsOld ==
  ASSUME NEW cache, NEW sent, cache \subseteq sent, IsFiniteSet(sent),
         NEW e \in cache, e \notin Newest(cache)
  PROVE  Cardinality(Newer(e, sent)) >= CacheLimit
<1>1. Newer(e, cache) \subseteq Newer(e, sent) /\ Newer(e, sent) \subseteq sent
  BY DEF Newer
<1>2. IsFiniteSet(Newer(e, sent))
  BY <1>1, FS_Subset
<1>3. /\ Cardinality(Newer(e, cache)) <= Cardinality(Newer(e, sent))
      /\ Cardinality(Newer(e, cache)) \in Nat
      /\ Cardinality(Newer(e, sent)) \in Nat
  BY <1>1, <1>2, FS_Subset, FS_CardinalityType
<1>4. ~(Cardinality(Newer(e, cache)) < CacheLimit)
  BY DEF Newest
<1> QED
  BY <1>3, <1>4, SenderAssumption

\* More datagrams on the wire leave an old datagram old.
LEMMA OldStaysOld ==
  ASSUME NEW sent, NEW more, sent \subseteq more, IsFiniteSet(more), NEW e,
         Cardinality(Newer(e, sent)) >= CacheLimit
  PROVE  Cardinality(Newer(e, more)) >= CacheLimit
<1>1. Newer(e, sent) \subseteq Newer(e, more) /\ Newer(e, more) \subseteq more
  BY DEF Newer
<1>2. IsFiniteSet(Newer(e, more))
  BY <1>1, FS_Subset
<1>3. /\ Cardinality(Newer(e, sent)) <= Cardinality(Newer(e, more))
      /\ Cardinality(Newer(e, sent)) \in Nat
      /\ Cardinality(Newer(e, more)) \in Nat
  BY <1>1, <1>2, FS_Subset, FS_CardinalityType
<1> QED
  BY <1>3, SenderAssumption

CacheInv == FiniteWire /\ AnyCopyReleases

LEMMA CacheInvStep == TypeInv /\ CacheInv /\ [Next]_vars => CacheInv'
<1> SUFFICES ASSUME TypeInv, CacheInv, [Next]_vars
             PROVE  CacheInv'
  OBVIOUS
<1>0. /\ IsFiniteSet(wire)
      /\ outbound \subseteq wire
      /\ \A d \in wire : d.message \in Tracked
  BY DEF CacheInv, FiniteWire, TypeInv, TypeOK
<1>1. ASSUME NEW S \in SUBSET arrived, ApplyAck(S)
      PROVE  CacheInv'
  <2>1. wire' = wire
    BY <1>1 DEF ApplyAck
  <2>2. ASSUME NEW d \in wire, d.message \in DOMAIN pending', d \in outbound
        PROVE  d \in outbound'
    BY <1>1, <2>2 DEF ApplyAck
  <2>3. DOMAIN pending' \subseteq DOMAIN pending
    BY <1>1 DEF ApplyAck
  <2> QED
    BY <2>1, <2>2, <2>3 DEF CacheInv, FiniteWire, AnyCopyReleases
<1>2. ASSUME Next, \A S \in SUBSET arrived : ~ApplyAck(S)
      PROVE  CacheInv'
  <2>1. PICK new :
          /\ IsFiniteSet(new)
          /\ wire' = wire \cup new
          /\ \/ outbound' = outbound \cup new
             \/ outbound' = Newest(outbound \cup new)
    BY <1>2, CacheSteps
  <2>2. IsFiniteSet(wire')
    BY <1>0, <2>1, FS_Union
  <2>3. ASSUME NEW d \in wire, d.message \in DOMAIN pending'
        PROVE  d.message \in DOMAIN pending
    <3>1. ASSUME NEW n \in Nat \ {0}, NEW ordered \in BOOLEAN, Track(n, ordered)
          PROVE  d.message \in DOMAIN pending
      BY <1>0, <2>3, <3>1 DEF Track, NewMessages, Tracked, TypeInv, TypeOK
    <3> QED
      BY <1>2, <2>3, <3>1, WindowSteps
  <2>4. ASSUME NEW d \in outbound \cup new
        PROVE  d \in outbound' \/ Cardinality(Newer(d, wire')) >= CacheLimit
    <3>1. outbound \cup new \subseteq wire'
      BY <1>0, <2>1
    <3> QED
      BY <2>1, <2>2, <3>1, EvictedIsOld
  <2>5. ASSUME NEW d \in wire', d.message \in DOMAIN pending'
        PROVE  d \in outbound' \/ Cardinality(Newer(d, wire')) >= CacheLimit
    <3>1. CASE d \in new
      BY <2>4, <3>1
    <3>2. CASE d \in wire
      <4>1. d \in outbound \/ Cardinality(Newer(d, wire)) >= CacheLimit
        BY <2>3, <2>5, <3>2 DEF CacheInv, AnyCopyReleases
      <4>2. wire \subseteq wire'
        BY <2>1
      <4> QED
        BY <2>2, <2>4, <4>1, <4>2, OldStaysOld
    <3> QED
      BY <2>1, <3>1, <3>2
  <2> QED
    BY <2>2, <2>5 DEF CacheInv, FiniteWire, AnyCopyReleases
<1>3. CASE UNCHANGED vars
  BY <1>3 DEF vars, CacheInv, FiniteWire, AnyCopyReleases, Newer
<1> QED
  BY <1>1, <1>2, <1>3

\* An ACK of any copy of a waiting frame, however late, still releases it until
\* CacheLimit newer datagrams have been sent.
THEOREM LateAckStillReleases == Spec => []AnyCopyReleases
<1>1. Init => CacheInv
  BY FS_EmptySet DEF Init, CacheInv, FiniteWire, AnyCopyReleases
<1>2. TypeInv /\ CacheInv /\ [Next]_vars => CacheInv'
  BY CacheInvStep
<1>3. CacheInv => AnyCopyReleases
  BY DEF CacheInv
<1> QED
  BY <1>1, <1>2, <1>3, TypeInvInit, TypeInvStep, PTL DEF Spec

-----------------------------------------------------------------------------
(* The sender implements the abstract channel                              *)

Indices == 0 .. MaxMessages - 1

LEMMA ChannelInit == Init => Channel!Init
  BY DEF Init, Channel!Init, StatusOf, Tracked, Delivered

\* A step that moves exactly the messages of S, from statuses in `from` to `to`.
LEMMA ChannelMove ==
  ASSUME NEW S \in SUBSET Indices, NEW from, NEW to,
         \A m \in S : StatusOf(m) \in from /\ StatusOf(m)' = to,
         \A m \in Indices \ S : StatusOf(m)' = StatusOf(m),
         Delivered' = Delivered
  PROVE  Channel!Move(S, from, to)
  BY DEF Channel!Move, Indices

LEMMA ChannelSubmit ==
  ASSUME TypeInv, NEW n \in Nat \ {0}, NEW ordered \in BOOLEAN, Track(n, ordered),
         UNCHANGED arrived
  PROVE  Channel!Next
<1>0. /\ nextMessage \in Nat /\ MaxMessages \in Nat
      /\ nextMessage + n <= MaxMessages
      /\ DOMAIN pending \subseteq Tracked
  BY SenderAssumption DEF Track, TypeInv, TypeOK
<1>1. NewMessages(n) \in SUBSET Indices
  BY <1>0 DEF NewMessages, Indices
<1>2. ASSUME NEW m \in NewMessages(n)
      PROVE  StatusOf(m) \in {"unsent"} /\ StatusOf(m)' = "outstanding"
  <2>1. m \notin Tracked /\ m \in Tracked'
    BY <1>0 DEF Tracked, NewMessages, Track
  <2>2. m \in DOMAIN pending' /\ pending'[m].attempts = 1
    BY DEF Track
  <2> QED
    BY <2>1, <2>2, SenderAssumption DEF StatusOf, Exhausted
<1>3. ASSUME NEW m \in Indices \ NewMessages(n)
      PROVE  StatusOf(m)' = StatusOf(m)
  <2>1. m \in Tracked' <=> m \in Tracked
    BY <1>0 DEF Tracked, NewMessages, Track, Indices
  <2>2. m \in DOMAIN pending' <=> m \in DOMAIN pending
    BY DEF Track
  <2>3. m \in DOMAIN pending => pending'[m] = pending[m]
    BY DEF Track
  <2> QED
    BY <2>1, <2>2, <2>3 DEF StatusOf, Exhausted
<1>4. Channel!Submit(NewMessages(n))
  BY <1>1, <1>2, <1>3, ChannelMove DEF Channel!Submit, Delivered
<1> QED
  BY <1>1, <1>4 DEF Channel!Next, Indices

LEMMA ChannelAbandon ==
  ASSUME TypeInv, MarkDue, UNCHANGED <<counters, arrived>>
  PROVE  Channel!Next
<1> DEFINE S == {m \in Due : pending[m].attempts = MaxAttempts}
<1>0. /\ DOMAIN pending' = DOMAIN pending /\ Tracked' = Tracked
      /\ DOMAIN pending \subseteq Tracked /\ Due \subseteq DOMAIN pending
      /\ \A m \in DOMAIN pending : pending[m].attempts \in 1 .. MaxAttempts + 1
  BY DEF MarkDue, Tracked, counters, TypeInv, TypeOK, Entries, Due
<1>1. S \in SUBSET Indices
  BY <1>0, SenderAssumption DEF TypeInv, TypeOK, Tracked, Indices
<1>2. ASSUME NEW m \in S
      PROVE  StatusOf(m) \in {"outstanding"} /\ StatusOf(m)' = "abandoned"
  <2>1. pending'[m].attempts = MaxAttempts + 1
    BY <1>0, SenderAssumption DEF MarkDue, Marked
  <2> QED
    BY <1>0, <2>1, SenderAssumption DEF StatusOf, Exhausted
<1>3. ASSUME NEW m \in Indices \ S
      PROVE  StatusOf(m)' = StatusOf(m)
  <2>1. CASE m \in Due
    <3>1. pending'[m].attempts = IF pending[m].attempts <= MaxAttempts
                                 THEN pending[m].attempts + 1 ELSE pending[m].attempts
      BY <1>0, <2>1 DEF MarkDue, Marked
    <3>2. pending'[m].attempts > MaxAttempts <=> pending[m].attempts > MaxAttempts
      BY <1>0, <1>3, <2>1, <3>1, SenderAssumption
    <3> QED
      BY <1>0, <2>1, <3>2 DEF StatusOf, Exhausted
  <2>2. CASE m \notin Due
    <3>1. m \in DOMAIN pending => pending'[m] = pending[m]
      BY <2>2 DEF MarkDue
    <3> QED
      BY <1>0, <3>1 DEF StatusOf, Exhausted
  <2> QED
    BY <2>1, <2>2
<1>4. Channel!Abandon(S)
  BY <1>1, <1>2, <1>3, ChannelMove DEF Channel!Abandon, Delivered
<1> QED
  BY <1>1, <1>4 DEF Channel!Next, Indices

LEMMA ChannelRelease ==
  ASSUME TypeInv, NEW A \in SUBSET arrived, ApplyAck(A)
  PROVE  Channel!Next
<1> DEFINE S == {e.message : e \in Acked(A)} \cap DOMAIN pending
<1>0. /\ DOMAIN pending' = DOMAIN pending \ S
      /\ Tracked' = Tracked /\ Delivered' = Delivered
      /\ DOMAIN pending \subseteq Tracked
  BY DEF ApplyAck, Tracked, counters, Delivered, TypeInv, TypeOK
<1>1. S \in SUBSET Indices
  BY <1>0, SenderAssumption DEF TypeInv, TypeOK, Tracked, Indices
<1>2. ASSUME NEW m \in S
      PROVE  StatusOf(m) \in {"outstanding", "abandoned"} /\ StatusOf(m)' = "released"
  BY <1>0 DEF StatusOf
<1>3. ASSUME NEW m \in Indices \ S
      PROVE  StatusOf(m)' = StatusOf(m)
  <2>1. m \in DOMAIN pending => pending'[m] = pending[m]
    BY <1>0 DEF ApplyAck
  <2> QED
    BY <1>0, <2>1 DEF StatusOf, Exhausted
<1>4. S \subseteq Delivered
  BY AckedDelivered
<1>5. Channel!Release(S)
  BY <1>0, <1>1, <1>2, <1>3, <1>4, ChannelMove DEF Channel!Release
<1> QED
  BY <1>1, <1>5 DEF Channel!Next, Indices

LEMMA ChannelDeliver ==
  ASSUME TypeInv, NEW d \in wire, Arrive(d)
  PROVE  Channel!Next
<1>1. d.message \in Indices /\ d.message \in Tracked
  BY SenderAssumption DEF TypeInv, TypeOK, Tracked, Indices
<1>2. \A m \in Indices : StatusOf(m)' = StatusOf(m)
  BY DEF Arrive, StatusOf, Exhausted, Tracked, counters
<1>3. Delivered' = Delivered \cup {d.message}
  BY DEF Arrive, Delivered
<1>4. StatusOf(d.message) # "unsent"
  BY <1>1 DEF StatusOf
<1>5. Channel!Deliver(d.message)
  BY <1>1, <1>2, <1>3, <1>4 DEF Channel!Deliver, Indices
<1> QED
  BY <1>1, <1>5 DEF Channel!Next, Indices

\* A step that leaves the counters, the attempts and the arrivals alone.
LEMMA ChannelStutter ==
  ASSUME nextMessage' = nextMessage, DOMAIN pending' = DOMAIN pending,
         \A m \in DOMAIN pending : pending'[m].attempts = pending[m].attempts,
         arrived' = arrived
  PROVE  UNCHANGED Channel!vars
<1>1. \A m \in Indices : StatusOf(m)' = StatusOf(m)
  BY DEF StatusOf, Exhausted, Tracked
<1> QED
  BY <1>1 DEF Channel!vars, Delivered, Indices

LEMMA ChannelStep == TypeInv /\ [Next]_vars => [Channel!Next]_(Channel!vars)
<1> SUFFICES ASSUME TypeInv, [Next]_vars
             PROVE  Channel!Next \/ UNCHANGED Channel!vars
  OBVIOUS
<1>1. ASSUME NEW n \in FragmentCounts, SendReliable(n)
      PROVE  Channel!Next
  BY <1>1, SenderAssumption, ChannelSubmit DEF SendReliable
<1>2. ASSUME NEW ordered \in BOOLEAN, SendControl(ordered)
      PROVE  Channel!Next
  <2>1. 1 \in Nat \ {0} /\ Track(1, ordered) /\ UNCHANGED arrived
    BY <1>2 DEF SendControl
  <2> QED
    BY <2>1, ChannelSubmit
<1>3. ASSUME NEW n \in FragmentCounts, NEW ordered \in BOOLEAN, NEW caller \in Callers,
             NEW sent \in 0 .. n - 1, SendFails(n, ordered, sent, caller)
      PROVE  Channel!Next
  BY <1>3, SenderAssumption, ChannelSubmit DEF SendFails
<1>4. ASSUME \/ \E n \in FragmentCounts : WindowFull(n)
             \/ SendUnreliable
             \/ UNCHANGED vars
      PROVE  UNCHANGED Channel!vars
  <2>1. nextMessage' = nextMessage /\ pending' = pending /\ arrived' = arrived
    BY <1>4 DEF WindowFull, SendUnreliable, vars, counters
  <2> QED
    BY <2>1, ChannelStutter
<1>5. CASE Tick
  <2>1. nextMessage' = nextMessage /\ arrived' = arrived /\ DOMAIN pending' = DOMAIN pending
    BY <1>5 DEF Tick, counters
  <2>2. ASSUME NEW m \in DOMAIN pending
        PROVE  pending'[m].attempts = pending[m].attempts
    BY <1>5 DEF Tick, TypeInv, TypeOK, Entries
  <2> QED
    BY <2>1, <2>2, ChannelStutter
<1>6. CASE ResendDue \/ ResendFails
  BY <1>6, ChannelAbandon DEF ResendDue, ResendFails
<1> QED
  BY <1>1, <1>2, <1>3, <1>4, <1>5, <1>6, ChannelDeliver, ChannelRelease
     DEF Next, Send, Resend, Peer

\* The sender implements the abstract reliable channel for all parameters.
THEOREM SenderImplementsChannel == Spec => ChannelSpec
<1> QED
  BY TypeInvInit, TypeInvStep, ChannelInit, ChannelStep, PTL
     DEF Spec, ChannelSpec, Channel!Spec

-----------------------------------------------------------------------------
(* No frame is sent more often than its budget allows                      *)

Copies(m) == {d \in wire : d.message = m}

\* Attempts are counted for a copy even when it is not sent, so the number of
\* copies on the wire stays at or below the number of attempts.
BudgetInv ==
  /\ FiniteWire
  /\ RetryBudget
  /\ \A m \in DOMAIN pending : Cardinality(Copies(m)) <= pending[m].attempts

LEMMA OneMore ==
  ASSUME NEW S, NEW T, NEW x, NEW n \in Nat,
         IsFiniteSet(S), Cardinality(S) <= n, T \subseteq S \cup {x}
  PROVE  Cardinality(T) <= n + 1
<1>1. /\ IsFiniteSet(S \cup {x}) /\ Cardinality(S) \in Nat
      /\ Cardinality(S \cup {x}) \in {Cardinality(S), Cardinality(S) + 1}
  BY FS_AddElement, FS_CardinalityType
<1>2. Cardinality(T) <= Cardinality(S \cup {x}) /\ Cardinality(T) \in Nat
  BY <1>1, FS_Subset, FS_CardinalityType
<1> QED
  BY <1>1, <1>2

\* A new payload sends each of its frames at most once.
LEMMA BudgetTrack ==
  ASSUME TypeInv, BudgetInv, NEW n \in Nat \ {0}, NEW ordered \in BOOLEAN,
         Track(n, ordered), NEW k \in 0 .. n, wire' = wire \cup NewDatagrams(k)
  PROVE  BudgetInv'
<1>0. /\ TypeOK /\ IsFiniteSet(wire)
      /\ \A d \in wire : d.message \in Tracked
      /\ nextMessage \in Nat /\ sequence \in Nat /\ MaxAttempts \in Nat \ {0}
  BY SenderAssumption DEF TypeInv, TypeOK, BudgetInv, FiniteWire
<1>1. FiniteWire'
  <2>1. k \in Nat
    OBVIOUS
  <2>2. IsFiniteSet(NewDatagrams(k))
    BY <2>1, FiniteNewDatagrams
  <2>3. IsFiniteSet(wire \cup NewDatagrams(k))
    BY <1>0, <2>2, FS_Union
  <2> QED
    BY <2>3 DEF FiniteWire
<1>2. /\ Tracked' = Tracked \cup NewMessages(n)
      /\ DOMAIN pending' = DOMAIN pending \cup NewMessages(n)
      /\ Tracked \cap NewMessages(n) = {}
      /\ DOMAIN pending \subseteq Tracked
  BY <1>0 DEF Track, Tracked, NewMessages, TypeOK
<1>3. ASSUME NEW m \in Tracked
      PROVE  Copies(m)' = Copies(m)
  BY <1>0, <1>3 DEF Copies, NewDatagrams, Tracked
<1>4. ASSUME NEW m \in NewMessages(n)
      PROVE  Cardinality(Copies(m)') <= 1
  <2>1. Copies(m)' \subseteq {} \cup {[sequence |-> sequence + (m - nextMessage), message |-> m]}
    BY <1>0, <1>2, <1>4 DEF Copies, NewDatagrams, NewMessages
  <2>2. IsFiniteSet({}) /\ Cardinality({}) <= 0 /\ 0 \in Nat
    BY FS_EmptySet
  <2>3. Cardinality(Copies(m)') <= 0 + 1
    BY <2>1, <2>2, OneMore
  <2> QED
    BY <2>3
<1>5. RetryBudget'
  <2>1. ASSUME NEW m \in Tracked'
        PROVE  Cardinality(Copies(m)') <= MaxAttempts
    <3>1. CASE m \in Tracked
      BY <1>3, <3>1 DEF BudgetInv, RetryBudget, Copies
    <3>2. CASE m \in NewMessages(n)
      <4>1. Cardinality(Copies(m)') \in Nat
        BY <1>1, FS_Subset, FS_CardinalityType DEF Copies, FiniteWire
      <4> QED
        BY <1>0, <1>4, <3>2, <4>1
    <3> QED
      BY <1>2, <3>1, <3>2
  <2> QED
    BY <2>1 DEF RetryBudget, Copies
<1>6. ASSUME NEW m \in DOMAIN pending'
      PROVE  Cardinality(Copies(m)') <= pending'[m].attempts
  <2>1. CASE m \in NewMessages(n)
    BY <1>2, <1>4, <2>1 DEF Track
  <2>2. CASE m \in DOMAIN pending
    <3>1. pending'[m] = pending[m]
      BY <1>2, <2>2 DEF Track
    <3> QED
      BY <1>2, <1>3, <2>2, <3>1 DEF BudgetInv
  <2> QED
    BY <1>2, <2>1, <2>2
<1> QED
  BY <1>1, <1>5, <1>6 DEF BudgetInv

\* A pass over the due frames sends each of them at most once, and only those
\* whose budget is not used up.
LEMMA BudgetResend ==
  ASSUME TypeInv, BudgetInv, MarkDue, nextMessage' = nextMessage,
         NEW k \in Nat, wire' = wire \cup AgainDatagrams(k)
  PROVE  BudgetInv'
<1>0. /\ TypeOK /\ IsFiniteSet(wire)
      /\ MaxAttempts \in Nat \ {0} /\ Again \subseteq DOMAIN pending
      /\ Tracked' = Tracked /\ DOMAIN pending' = DOMAIN pending
      /\ DOMAIN pending \subseteq Tracked
  BY SenderAssumption DEF TypeInv, TypeOK, BudgetInv, FiniteWire, MarkDue, Again, Due, Tracked
<1>1. FiniteWire'
  BY <1>0, FiniteAgainDatagrams, FS_Union DEF FiniteWire
<1>2. ASSUME NEW m \in Tracked, m \notin Again
      PROVE  Copies(m)' = Copies(m)
  BY <1>2 DEF Copies, AgainDatagrams
<1>3. ASSUME NEW m \in Again
      PROVE  /\ Cardinality(Copies(m)') <= pending[m].attempts + 1
             /\ pending[m].attempts + 1 <= MaxAttempts
             /\ pending'[m].attempts = pending[m].attempts + 1
             /\ Cardinality(Copies(m)') \in Nat
  <2>1. pending[m].attempts \in Nat /\ pending[m].attempts < MaxAttempts /\ m \in Due
    BY <1>0, <1>3 DEF Again, TypeOK, Entries
  <2>2. Copies(m)' \subseteq Copies(m) \cup {[sequence |-> sequence + Cardinality(Before(m)), message |-> m]}
    BY <1>3 DEF Copies, AgainDatagrams
  <2>3. IsFiniteSet(Copies(m)) /\ Cardinality(Copies(m)) <= pending[m].attempts
    BY <1>0, <1>3, FS_Subset DEF Copies, BudgetInv
  <2>4. Cardinality(Copies(m)') <= pending[m].attempts + 1
    BY <2>1, <2>2, <2>3, OneMore
  <2>5. pending'[m].attempts = pending[m].attempts + 1
    BY <1>0, <2>1 DEF MarkDue, Marked
  <2>6. Cardinality(Copies(m)') \in Nat
    BY <1>1, FS_Subset, FS_CardinalityType DEF Copies, FiniteWire
  <2> QED
    BY <1>0, <2>1, <2>4, <2>5, <2>6
<1>4. ASSUME NEW m \in Tracked
      PROVE  Cardinality(Copies(m)') <= MaxAttempts
  <2>1. CASE m \in Again
    <3>1. pending[m].attempts \in Nat
      BY <1>0, <2>1 DEF TypeOK, Entries
    <3> QED
      BY <1>0, <1>3, <2>1, <3>1
  <2>2. CASE m \notin Again
    BY <1>2, <2>2 DEF BudgetInv, RetryBudget, Copies
  <2> QED
    BY <2>1, <2>2
<1>5. ASSUME NEW m \in DOMAIN pending'
      PROVE  Cardinality(Copies(m)') <= pending'[m].attempts
  <2>1. CASE m \in Again
    BY <1>3, <2>1
  <2>2. CASE m \notin Again
    <3>1. /\ pending[m].attempts \in Nat
          /\ pending'[m].attempts \in {pending[m].attempts, pending[m].attempts + 1}
      BY <1>0 DEF MarkDue, Marked, TypeOK, Entries
    <3>2. Cardinality(Copies(m)') <= pending[m].attempts /\ Cardinality(Copies(m)') \in Nat
      <4>1. Cardinality(Copies(m)') \in Nat
        BY <1>1, FS_Subset, FS_CardinalityType DEF Copies, FiniteWire
      <4> QED
        BY <1>0, <1>2, <2>2, <4>1 DEF BudgetInv
    <3> QED
      BY <3>1, <3>2
  <2> QED
    BY <2>1, <2>2
<1> QED
  BY <1>0, <1>1, <1>4, <1>5 DEF BudgetInv, RetryBudget, Copies

LEMMA BudgetStep == TypeInv /\ BudgetInv /\ [Next]_vars => BudgetInv'
<1> SUFFICES ASSUME TypeInv, BudgetInv, [Next]_vars
             PROVE  BudgetInv'
  OBVIOUS
<1>0. TypeOK /\ Cardinality(Again) \in Nat
  BY FiniteIndices DEF TypeInv
<1>1. ASSUME NEW n \in FragmentCounts, SendReliable(n)
      PROVE  BudgetInv'
  <2>1. n \in Nat \ {0}
    BY SenderAssumption
  <2>2. n \in 0 .. n
    BY <2>1
  <2>3. Track(n, TRUE) /\ wire' = wire \cup NewDatagrams(n)
    BY <1>1 DEF SendReliable
  <2> QED
    BY <2>1, <2>2, <2>3, BudgetTrack
<1>2. ASSUME NEW ordered \in BOOLEAN, SendControl(ordered)
      PROVE  BudgetInv'
  <2>1. 1 \in Nat \ {0} /\ 1 \in 0 .. 1 /\ Track(1, ordered) /\ wire' = wire \cup NewDatagrams(1)
    BY <1>2 DEF SendControl
  <2> QED
    BY <2>1, BudgetTrack
<1>3. ASSUME NEW n \in FragmentCounts, NEW ordered \in BOOLEAN, NEW caller \in Callers,
             NEW sent \in 0 .. n - 1, SendFails(n, ordered, sent, caller)
      PROVE  BudgetInv'
  <2>1. /\ n \in Nat \ {0} /\ sent \in 0 .. n /\ Track(n, ordered)
        /\ wire' = wire \cup NewDatagrams(sent)
    BY <1>3, SenderAssumption DEF SendFails
  <2> QED
    BY <2>1, BudgetTrack
<1>4. CASE ResendDue
  <2>1. /\ MarkDue /\ nextMessage' = nextMessage
        /\ wire' = wire \cup AgainDatagrams(Cardinality(Again))
    BY <1>4 DEF ResendDue, counters
  <2> QED
    BY <1>0, <2>1, BudgetResend
<1>5. CASE ResendFails
  <2>1. PICK sent \in 0 .. Cardinality(Again) - 1 : wire' = wire \cup AgainDatagrams(sent)
    BY <1>5 DEF ResendFails
  <2>2. MarkDue /\ nextMessage' = nextMessage /\ sent \in Nat
    BY <1>0, <1>5 DEF ResendFails, counters
  <2> QED
    BY <2>1, <2>2, BudgetResend
<1>6. ASSUME wire' = wire, nextMessage' = nextMessage, DOMAIN pending' \subseteq DOMAIN pending,
             \A m \in DOMAIN pending' : pending'[m].attempts = pending[m].attempts
      PROVE  BudgetInv'
  BY <1>6 DEF BudgetInv, FiniteWire, RetryBudget, Copies, Tracked
<1>7. CASE Tick
  BY <1>0, <1>6, <1>7 DEF Tick, counters, TypeOK, Entries
<1>8. ASSUME NEW S \in SUBSET arrived, ApplyAck(S)
      PROVE  BudgetInv'
  BY <1>6, <1>8 DEF ApplyAck, counters
<1>9. ASSUME \/ \E n \in FragmentCounts : WindowFull(n)
             \/ SendUnreliable
             \/ \E d \in wire : Arrive(d)
             \/ UNCHANGED vars
      PROVE  BudgetInv'
  BY <1>6, <1>9 DEF WindowFull, SendUnreliable, Arrive, counters, vars
<1> QED
  BY <1>1, <1>2, <1>3, <1>4, <1>5, <1>7, <1>8, <1>9 DEF Next, Send, Resend, Peer

\* No frame is handed to the socket more often than its budget allows, in
\* whatever order failures, timeouts and late acknowledgements come.
THEOREM BudgetKept == Spec => []RetryBudget
<1>1. Init => BudgetInv
  BY FS_EmptySet DEF Init, BudgetInv, FiniteWire, RetryBudget, Tracked
<1>2. TypeInv /\ BudgetInv /\ [Next]_vars => BudgetInv'
  BY BudgetStep
<1>3. BudgetInv => RetryBudget
  BY DEF BudgetInv
<1> QED
  BY <1>1, <1>2, <1>3, TypeInvInit, TypeInvStep, PTL DEF Spec

-----------------------------------------------------------------------------
(* The fragments of a payload stay together                                *)

Group(m) == (m - pending[m].frame.part) ..
              (m - pending[m].frame.part + pending[m].frame.count - 1)

\* The conjuncts of FragmentsTogether, for one frame of the window.
Whole(m) ==
  /\ pending[m].frame.part < pending[m].frame.count
  /\ Group(m) \subseteq Tracked
  /\ \A k \in Group(m) :
       \/ k \in Delivered
       \/ k \in DOMAIN pending
          /\ pending[k].frame =
               [pending[m].frame EXCEPT !.part = k - (m - pending[m].frame.part)]

Alone(m) ==
  \A k \in DOMAIN pending \ Group(m) :
    ~(/\ pending[m].frame.ordered /\ pending[k].frame.ordered
      /\ pending[k].frame.order = pending[m].frame.order)

\* An order index in the window was handed out, so the next one is new.
OrdersUsed ==
  \A m \in DOMAIN pending : pending[m].frame.ordered => pending[m].frame.order < nextOrder

FragmentInv == OrdersUsed /\ \A m \in DOMAIN pending : Whole(m) /\ Alone(m)

LEMMA FragmentInvSuffices == FragmentInv => FragmentsTogether
BY DEF FragmentInv, FragmentsTogether, Whole, Alone, Group

\* A new payload's frames form a group of their own, under a new order index.
LEMMA FragmentTrack ==
  ASSUME TypeInv, FragmentInv, NEW n \in Nat \ {0}, NEW ordered \in BOOLEAN,
         Track(n, ordered), UNCHANGED arrived
  PROVE  FragmentInv'
<1>0. /\ nextMessage \in Nat /\ nextOrder \in Nat
      /\ DOMAIN pending \subseteq Tracked
      /\ \A m \in DOMAIN pending : pending[m].frame \in Frames
      /\ Delivered' = Delivered
  BY SenderAssumption DEF TypeInv, TypeOK, Entries, Delivered
<1>1. /\ DOMAIN pending' = DOMAIN pending \cup NewMessages(n)
      /\ Tracked' = Tracked \cup NewMessages(n)
      /\ Tracked \cap NewMessages(n) = {}
      /\ nextOrder' = IF ordered THEN nextOrder + 1 ELSE nextOrder
  BY <1>0 DEF Track, Tracked, NewMessages
<1>2. ASSUME NEW m \in DOMAIN pending
      PROVE  /\ pending'[m] = pending[m]
             /\ Group(m)' = Group(m)
  BY <1>0, <1>1 DEF Track, Group
<1>3. ASSUME NEW m \in NewMessages(n)
      PROVE  /\ pending'[m].frame = FrameOf(m, n, ordered)
             /\ Group(m)' = NewMessages(n)
             /\ m - FrameOf(m, n, ordered).part = nextMessage
             /\ FrameOf(m, n, ordered).part < n
  <2>1. pending'[m].frame = FrameOf(m, n, ordered)
    BY DEF Track
  <2>2. /\ m - FrameOf(m, n, ordered).part = nextMessage
        /\ FrameOf(m, n, ordered).count = n
        /\ FrameOf(m, n, ordered).part < n
    BY <1>0 DEF FrameOf, NewMessages
  <2>3. Group(m)' = NewMessages(n)
    BY <2>1, <2>2 DEF Group, NewMessages
  <2> QED
    BY <2>1, <2>2, <2>3
<1>3a. ASSUME NEW m \in NewMessages(n)
      PROVE  /\ pending'[m].frame.ordered = ordered
             /\ ordered => pending'[m].frame.order = nextOrder
             /\ pending'[m].frame.count = n
             /\ pending'[m].frame.part = m - nextMessage
  <2>1. pending'[m].frame = FrameOf(m, n, ordered)
    BY <1>3
  <2>2. /\ FrameOf(m, n, ordered).ordered = ordered
        /\ ordered => FrameOf(m, n, ordered).order = nextOrder
        /\ FrameOf(m, n, ordered).count = n
        /\ FrameOf(m, n, ordered).part = m - nextMessage
    BY DEF FrameOf
  <2> QED
    BY <2>1, <2>2
<1>4. OrdersUsed'
  <2>1. ASSUME NEW m \in DOMAIN pending', pending'[m].frame.ordered
        PROVE  pending'[m].frame.order < nextOrder'
    <3>1. CASE m \in DOMAIN pending
      BY <1>0, <1>1, <1>2, <2>1, <3>1 DEF FragmentInv, OrdersUsed, Frames
    <3>2. CASE m \in NewMessages(n)
      <4>1. ordered /\ pending'[m].frame.order = nextOrder
        BY <1>3a, <2>1, <3>2
      <4> QED
        BY <1>0, <1>1, <4>1
    <3> QED
      BY <1>1, <3>1, <3>2
  <2> QED
    BY <2>1 DEF OrdersUsed
<1>5. ASSUME NEW m \in DOMAIN pending
      PROVE  Whole(m)' /\ Alone(m)'
  <2>1. Whole(m) /\ Alone(m)
    BY DEF FragmentInv
  <2>2. Whole(m)'
    BY <1>0, <1>1, <1>2, <2>1 DEF Whole
  <2>3. ASSUME NEW k \in DOMAIN pending' \ Group(m)',
               pending'[m].frame.ordered, pending'[k].frame.ordered
        PROVE  pending'[k].frame.order # pending'[m].frame.order
    <3>1. CASE k \in DOMAIN pending
      BY <1>2, <2>1, <2>3, <3>1 DEF Alone
    <3>2. CASE k \in NewMessages(n)
      <4>1. pending'[k].frame.order = nextOrder
        BY <1>3a, <2>3, <3>2
      <4>2. pending'[m].frame.order < nextOrder /\ pending'[m].frame.order \in Nat
        BY <1>0, <1>2, <2>3 DEF FragmentInv, OrdersUsed, Frames
      <4> QED
        BY <1>0, <4>1, <4>2
    <3> QED
      BY <1>1, <2>3, <3>1, <3>2
  <2> QED
    BY <2>2, <2>3 DEF Alone
<1>6. ASSUME NEW m \in NewMessages(n)
      PROVE  Whole(m)' /\ Alone(m)'
  <2>1. \A k \in NewMessages(n) :
          pending'[k].frame =
            [pending'[m].frame EXCEPT !.part = k - (m - pending'[m].frame.part)]
    <3>1. ASSUME NEW k \in NewMessages(n)
          PROVE  FrameOf(k, n, ordered) =
                   [FrameOf(m, n, ordered) EXCEPT !.part = k - nextMessage]
      BY DEF FrameOf
    <3>2. m - pending'[m].frame.part = nextMessage
      BY <1>3
    <3> QED
      BY <1>3, <3>1, <3>2
  <2>2. Whole(m)'
    <3>1. pending'[m].frame.part < pending'[m].frame.count
      BY <1>0, <1>3a DEF NewMessages
    <3>2. \A k \in Group(m)' :
            /\ k \in DOMAIN pending'
            /\ pending'[k].frame =
                 [pending'[m].frame EXCEPT !.part = k - (m - pending'[m].frame.part)]
      BY <1>1, <1>3, <2>1
    <3>3. Group(m)' \subseteq Tracked'
      BY <1>1, <1>3
    <3> QED
      BY <3>1, <3>2, <3>3 DEF Whole
  <2>3. ASSUME NEW k \in DOMAIN pending' \ Group(m)',
               pending'[m].frame.ordered, pending'[k].frame.ordered
        PROVE  pending'[k].frame.order # pending'[m].frame.order
    <3>1. k \in DOMAIN pending
      BY <1>1, <1>3, <2>3
    <3>2. pending'[m].frame.order = nextOrder
      BY <1>3a, <2>3
    <3>3. pending'[k].frame.order < nextOrder /\ pending'[k].frame.order \in Nat
      BY <1>0, <1>2, <2>3, <3>1 DEF FragmentInv, OrdersUsed, Frames
    <3> QED
      BY <1>0, <3>2, <3>3
  <2> QED
    BY <2>2, <2>3 DEF Alone
<1> QED
  BY <1>1, <1>4, <1>5, <1>6 DEF FragmentInv

\* A step that tracks nothing and drops only frames that were delivered.
LEMMA FragmentKeep ==
  ASSUME TypeInv, FragmentInv, UNCHANGED <<nextMessage, nextOrder>>,
         DOMAIN pending' \subseteq DOMAIN pending,
         \A m \in DOMAIN pending' : pending'[m].frame = pending[m].frame,
         Delivered \subseteq Delivered',
         DOMAIN pending \ DOMAIN pending' \subseteq Delivered'
  PROVE  FragmentInv'
<1>1. ASSUME NEW m \in DOMAIN pending'
      PROVE  /\ m \in DOMAIN pending /\ pending'[m].frame = pending[m].frame
             /\ Group(m)' = Group(m)
             /\ Tracked' = Tracked
  BY DEF Group, Tracked
<1>2. OrdersUsed'
  BY <1>1 DEF FragmentInv, OrdersUsed
<1>3. ASSUME NEW m \in DOMAIN pending'
      PROVE  Whole(m)'
  BY <1>1 DEF FragmentInv, Whole
<1>4. ASSUME NEW m \in DOMAIN pending'
      PROVE  Alone(m)'
  BY <1>1 DEF FragmentInv, Alone
<1> QED
  BY <1>2, <1>3, <1>4 DEF FragmentInv

LEMMA FragmentStep == TypeInv /\ FragmentInv /\ [Next]_vars => FragmentInv'
<1> SUFFICES ASSUME TypeInv, FragmentInv, [Next]_vars
             PROVE  FragmentInv'
  OBVIOUS
<1>0. TypeOK
  BY DEF TypeInv
<1>1. ASSUME NEW n \in FragmentCounts, SendReliable(n)
      PROVE  FragmentInv'
  BY <1>1, SenderAssumption, FragmentTrack DEF SendReliable
<1>2. ASSUME NEW ordered \in BOOLEAN, SendControl(ordered)
      PROVE  FragmentInv'
  <2>1. 1 \in Nat \ {0} /\ Track(1, ordered) /\ UNCHANGED arrived
    BY <1>2 DEF SendControl
  <2> QED
    BY <2>1, FragmentTrack
<1>3. ASSUME NEW n \in FragmentCounts, NEW ordered \in BOOLEAN, NEW caller \in Callers,
             NEW sent \in 0 .. n - 1, SendFails(n, ordered, sent, caller)
      PROVE  FragmentInv'
  BY <1>3, SenderAssumption, FragmentTrack DEF SendFails
<1>4. ASSUME DOMAIN pending' = DOMAIN pending, UNCHANGED <<nextMessage, nextOrder>>,
             \A m \in DOMAIN pending' : pending'[m].frame = pending[m].frame,
             arrived \subseteq arrived'
      PROVE  FragmentInv'
  <2>1. Delivered \subseteq Delivered'
    BY <1>4 DEF Delivered
  <2> QED
    BY <1>4, <2>1, FragmentKeep
<1>5. CASE Tick
  BY <1>0, <1>4, <1>5 DEF Tick, counters, TypeOK, Entries
<1>6. CASE Resend
  BY <1>4, <1>6 DEF Resend, ResendDue, ResendFails, MarkDue, Marked, counters
<1>7. ASSUME NEW S \in SUBSET arrived, ApplyAck(S)
      PROVE  FragmentInv'
  <2>1. Delivered' = Delivered
    BY <1>7 DEF ApplyAck, Delivered
  <2>2. {e.message : e \in Acked(S)} \subseteq Delivered
    BY AckedDelivered
  <2>3. /\ DOMAIN pending' \subseteq DOMAIN pending
        /\ DOMAIN pending \ DOMAIN pending' \subseteq Delivered'
        /\ \A m \in DOMAIN pending' : pending'[m].frame = pending[m].frame
        /\ UNCHANGED <<nextMessage, nextOrder>>
    BY <1>7, <2>1, <2>2 DEF ApplyAck, counters
  <2> QED
    BY <2>1, <2>3, FragmentKeep
<1>8. ASSUME \/ \E n \in FragmentCounts : WindowFull(n)
             \/ SendUnreliable
             \/ \E d \in wire : Arrive(d)
             \/ UNCHANGED vars
      PROVE  FragmentInv'
  BY <1>4, <1>8 DEF WindowFull, SendUnreliable, Arrive, counters, vars
<1> QED
  BY <1>1, <1>2, <1>3, <1>5, <1>6, <1>7, <1>8 DEF Next, Send, Peer

\* The fragments of one payload share an order index and a split id, no other
\* ordered frame has them, and one that left the window was delivered.
THEOREM FragmentsStayTogether == Spec => []FragmentsTogether
<1>1. Init => FragmentInv
  BY DEF Init, FragmentInv, OrdersUsed
<1> QED
  BY <1>1, FragmentStep, FragmentInvSuffices, TypeInvInit, TypeInvStep, PTL DEF Spec

-----------------------------------------------------------------------------
(* What leaves again                                                       *)

\* A frame once released stays released, and what a step puts on the wire carries a
\* new frame or one that waits and has not been sent as often as it may.
OnlyWaitingLeave ==
  /\ Tracked \ DOMAIN pending \subseteq Tracked' \ DOMAIN pending'
  /\ \A d \in wire' \ wire :
       /\ d.sequence >= sequence
       /\ \/ d.message \in Tracked' \ Tracked
          \/ d.message \in DOMAIN pending /\ pending[d.message].attempts < MaxAttempts

\* The datagrams of a new payload carry frames that were not tracked before.
LEMMA LeaveTrack ==
  ASSUME TypeOK, NEW n \in Nat \ {0}, NEW ordered \in BOOLEAN, Track(n, ordered),
         NEW k \in 0 .. n, wire' = wire \cup NewDatagrams(k)
  PROVE  OnlyWaitingLeave
<1>1. NewDatagrams(k) \subseteq [sequence : sequence .. sequence + k - 1, message : NewMessages(n)]
  BY NewDatagramsFresh DEF NewMessages
<1>2. /\ Tracked' = Tracked \cup NewMessages(n) /\ Tracked \cap NewMessages(n) = {}
      /\ DOMAIN pending' = DOMAIN pending \cup NewMessages(n)
  BY DEF Track, Tracked, NewMessages, TypeOK
<1>3. \A d \in NewDatagrams(k) : d.sequence >= sequence /\ d.message \in Tracked' \ Tracked
  BY <1>1, <1>2 DEF TypeOK
<1> QED
  BY <1>2, <1>3 DEF OnlyWaitingLeave

\* Those that are sent again carry frames of the window.
LEMMA LeaveResend ==
  ASSUME TypeOK, MarkDue, UNCHANGED nextMessage, NEW k \in 0 .. Cardinality(Again),
         wire' = wire \cup AgainDatagrams(k)
  PROVE  OnlyWaitingLeave
<1>1. Cardinality(Again) \in Nat
  BY FiniteIndices
<1>2. AgainDatagrams(k) \subseteq [sequence : sequence .. sequence + k - 1, message : Again]
  BY AgainDatagramsFresh
<1>3. \A d \in AgainDatagrams(k) : d.sequence >= sequence /\ d.message \in Again
  BY <1>1, <1>2 DEF TypeOK
<1>4. \A m \in Again : m \in DOMAIN pending /\ pending[m].attempts < MaxAttempts
  BY DEF Again, Due
<1> QED
  BY <1>3, <1>4 DEF OnlyWaitingLeave, MarkDue, Tracked

LEMMA LeaveStep == TypeInv /\ [Next]_vars => OnlyWaitingLeave
<1> SUFFICES ASSUME TypeInv, [Next]_vars
             PROVE  OnlyWaitingLeave
  OBVIOUS
<1>0. TypeOK /\ Cardinality(Again) \in Nat
  BY FiniteIndices DEF TypeInv
<1>1. ASSUME NEW n \in FragmentCounts, SendReliable(n)
      PROVE  OnlyWaitingLeave
  <2>1. n \in Nat \ {0}
    BY SenderAssumption
  <2>2. n \in 0 .. n
    BY <2>1
  <2>3. Track(n, TRUE) /\ wire' = wire \cup NewDatagrams(n)
    BY <1>1 DEF SendReliable
  <2> QED
    BY <1>0, <2>1, <2>2, <2>3, LeaveTrack
<1>2. ASSUME NEW ordered \in BOOLEAN, SendControl(ordered)
      PROVE  OnlyWaitingLeave
  <2>1. 1 \in Nat \ {0} /\ 1 \in 0 .. 1 /\ Track(1, ordered) /\ wire' = wire \cup NewDatagrams(1)
    BY <1>2 DEF SendControl
  <2> QED
    BY <1>0, <2>1, LeaveTrack
<1>3. ASSUME NEW n \in FragmentCounts, NEW ordered \in BOOLEAN, NEW caller \in Callers,
             NEW sent \in 0 .. n - 1, SendFails(n, ordered, sent, caller)
      PROVE  OnlyWaitingLeave
  <2>1. /\ n \in Nat \ {0} /\ sent \in 0 .. n /\ Track(n, ordered)
        /\ wire' = wire \cup NewDatagrams(sent)
    BY <1>3, SenderAssumption DEF SendFails
  <2> QED
    BY <1>0, <2>1, LeaveTrack
<1>4. CASE ResendDue
  <2>1. /\ MarkDue /\ UNCHANGED nextMessage
        /\ wire' = wire \cup AgainDatagrams(Cardinality(Again))
    BY <1>4 DEF ResendDue, counters
  <2> QED
    BY <1>0, <2>1, LeaveResend
<1>5. CASE ResendFails
  <2>1. PICK sent \in 0 .. Cardinality(Again) - 1 : wire' = wire \cup AgainDatagrams(sent)
    BY <1>5 DEF ResendFails
  <2>2. MarkDue /\ UNCHANGED nextMessage /\ sent \in 0 .. Cardinality(Again)
    BY <1>0, <1>5 DEF ResendFails, counters
  <2> QED
    BY <1>0, <2>1, <2>2, LeaveResend
<1>6. ASSUME UNCHANGED <<nextMessage, wire>>, DOMAIN pending' \subseteq DOMAIN pending
      PROVE  OnlyWaitingLeave
  BY <1>6 DEF OnlyWaitingLeave, Tracked
<1>7. CASE Tick
  BY <1>6, <1>7 DEF Tick, counters
<1>8. ASSUME NEW S \in SUBSET arrived, ApplyAck(S)
      PROVE  OnlyWaitingLeave
  BY <1>6, <1>8 DEF ApplyAck, counters
<1>9. ASSUME \/ \E n \in FragmentCounts : WindowFull(n)
             \/ SendUnreliable
             \/ \E d \in wire : Arrive(d)
             \/ UNCHANGED vars
      PROVE  OnlyWaitingLeave
  BY <1>6, <1>9 DEF WindowFull, SendUnreliable, Arrive, counters, vars
<1> QED
  BY <1>1, <1>2, <1>3, <1>4, <1>5, <1>7, <1>8, <1>9 DEF Next, Send, Resend, Peer

\* A frame that was acknowledged, or whose budget is used up, is never sent again,
\* and no datagram leaves under a sequence number that was used: a retransmission
\* due at the same moment as a late ACK cannot revive a frame (_resend_due, _apply_ack).
THEOREM ReleasedNeverResent == Spec => [][OnlyWaitingLeave]_vars
<1>1. TypeInv /\ [Next]_vars => [OnlyWaitingLeave]_vars
  BY LeaveStep
<1> QED
  BY <1>1, TypeInvInit, TypeInvStep, PTL DEF Spec

-----------------------------------------------------------------------------
(* Retransmission gets on                                                  *)

\* The ticks and retransmissions that a frame of the window is away from the end of
\* its last interval.
StepsLeft(m) ==
  (MaxAttempts + 1 - pending[m].attempts) * (ResendAfter + 1) + (ResendAfter - pending[m].age)

\* A tick takes one from a frame that is not due, a retransmission from one that is,
\* no other step changes a frame that waits, and one that is used up stays so.
RetriesAdvance ==
  \A m \in DOMAIN pending \cap DOMAIN pending' :
    /\ Exhausted(m) => Exhausted(m)'
    /\ ~Exhausted(m) =>
         /\ StepsLeft(m)' = StepsLeft(m) - 1 \/ pending'[m] = pending[m]
         /\ Tick /\ m \notin Due => StepsLeft(m)' = StepsLeft(m) - 1
         /\ Resend /\ m \in Due => StepsLeft(m)' = StepsLeft(m) - 1

\* The count is a natural number, at most the whole budget of ticks.
StepsBounded ==
  \A m \in DOMAIN pending : StepsLeft(m) \in 0 .. (MaxAttempts + 1) * (ResendAfter + 1) - 1

\* One attempt is worth an interval.
LEMMA Interval ==
  ASSUME NEW a \in 1 .. MaxAttempts, NEW r \in Nat
  PROVE  (MaxAttempts + 1 - a) * r = (MaxAttempts + 1 - (a + 1)) * r + r
  BY SenderAssumption

LEMMA Product ==
  ASSUME NEW k \in Nat, NEW n \in Nat, k <= n, NEW r \in Nat
  PROVE  k * r \in Nat /\ k * r <= n * r
  BY SMT

LEMMA StepsTyped == TypeOK => StepsBounded
<1> SUFFICES ASSUME TypeOK, NEW m \in DOMAIN pending
             PROVE  StepsLeft(m) \in 0 .. (MaxAttempts + 1) * (ResendAfter + 1) - 1
  BY DEF StepsBounded
<1> DEFINE k == MaxAttempts + 1 - pending[m].attempts
           r == ResendAfter + 1
           rest == ResendAfter - pending[m].age
<1>1. k \in Nat /\ k <= MaxAttempts /\ r \in Nat /\ rest \in 0 .. r - 1
  BY SenderAssumption DEF TypeOK, Entries
<1>2. MaxAttempts \in Nat
  BY SenderAssumption
<1>3. (MaxAttempts + 1) * r = MaxAttempts * r + r
  BY <1>1, <1>2
<1> HIDE DEF k, r, rest
<1>4. k * r \in Nat /\ k * r <= MaxAttempts * r /\ MaxAttempts * r \in Nat
  BY <1>1, <1>2, Product
<1>5. k * r + rest \in 0 .. (MaxAttempts + 1) * r - 1
  BY <1>1, <1>3, <1>4
<1> QED
  BY <1>5 DEF StepsLeft, k, r, rest

LEMMA AdvanceStep == TypeInv /\ [Next]_vars => RetriesAdvance
<1> SUFFICES ASSUME TypeInv, [Next]_vars, NEW m \in DOMAIN pending \cap DOMAIN pending'
             PROVE  /\ Exhausted(m) => Exhausted(m)'
                    /\ ~Exhausted(m) =>
                         /\ StepsLeft(m)' = StepsLeft(m) - 1 \/ pending'[m] = pending[m]
                         /\ Tick /\ m \notin Due => StepsLeft(m)' = StepsLeft(m) - 1
                         /\ Resend /\ m \in Due => StepsLeft(m)' = StepsLeft(m) - 1
  BY DEF RetriesAdvance
<1>0. /\ TypeOK /\ pending[m] \in Entries
      /\ pending[m].attempts \in 1 .. MaxAttempts + 1 /\ pending[m].age \in 0 .. ResendAfter
      /\ ResendAfter \in Nat /\ MaxAttempts \in Nat
  BY SenderAssumption DEF TypeInv, TypeOK, Entries
<1>1. ASSUME Tick
      PROVE  /\ Exhausted(m) => Exhausted(m)'
             /\ m \in Due => pending'[m] = pending[m]
             /\ m \notin Due => StepsLeft(m)' = StepsLeft(m) - 1
  <2>1. pending'[m] = [pending[m] EXCEPT !.age = IF @ < ResendAfter THEN @ + 1 ELSE @]
    BY <1>1 DEF Tick
  <2>2. /\ pending'[m].attempts = pending[m].attempts
        /\ pending'[m].age = IF m \in Due THEN pending[m].age ELSE pending[m].age + 1
    BY <1>0, <2>1 DEF Due, Entries
  <2>3. CASE m \in Due
    BY <1>0, <2>1, <2>2, <2>3 DEF Due, Exhausted, Entries
  <2>4. CASE m \notin Due
    <3> DEFINE p == (MaxAttempts + 1 - pending[m].attempts) * (ResendAfter + 1)
    <3>1. p \in Int
      BY <1>0
    <3>2. StepsLeft(m) = p + (ResendAfter - pending[m].age)
      BY DEF StepsLeft
    <3>3. StepsLeft(m)' = p + (ResendAfter - (pending[m].age + 1))
      BY <2>2, <2>4 DEF StepsLeft
    <3> HIDE DEF p
    <3>4. StepsLeft(m)' = StepsLeft(m) - 1
      BY <1>0, <3>1, <3>2, <3>3
    <3> QED
      BY <2>2, <2>4, <3>4 DEF Exhausted
  <2> QED
    BY <2>3, <2>4
<1>2. ASSUME MarkDue
      PROVE  /\ Exhausted(m) => Exhausted(m)'
             /\ m \notin Due => pending'[m] = pending[m]
             /\ m \in Due /\ ~Exhausted(m) => StepsLeft(m)' = StepsLeft(m) - 1
  <2>1. pending'[m] = IF m \in Due THEN Marked(pending[m]) ELSE pending[m]
    BY <1>2 DEF MarkDue
  <2>2. Exhausted(m) => Exhausted(m)'
    BY <1>0, <2>1 DEF Marked, Exhausted
  <2>3. ASSUME m \in Due, ~Exhausted(m)
        PROVE  StepsLeft(m)' = StepsLeft(m) - 1
    <3>1. pending[m].age = ResendAfter /\ pending[m].attempts \in 1 .. MaxAttempts
      BY <1>0, <2>3 DEF Due, Exhausted
    <3>2. pending'[m].age = 0 /\ pending'[m].attempts = pending[m].attempts + 1
      BY <1>0, <2>1, <2>3, <3>1 DEF Marked
    <3> DEFINE a == pending[m].attempts
               r == ResendAfter + 1
               p == (MaxAttempts + 1 - (a + 1)) * r
    <3>3. StepsLeft(m) = (MaxAttempts + 1 - a) * r + (ResendAfter - ResendAfter)
      BY <3>1 DEF StepsLeft
    <3>4. StepsLeft(m)' = p + (ResendAfter - 0)
      BY <3>2 DEF StepsLeft
    <3>5. (MaxAttempts + 1 - a) * r = p + r
      BY <1>0, <3>1, Interval
    <3>6. p \in Int
      BY <1>0
    <3> HIDE DEF p, a
    <3> QED
      BY <1>0, <3>3, <3>4, <3>5, <3>6
  <2> QED
    BY <2>1, <2>2, <2>3
<1>3. Resend => MarkDue
  BY DEF Resend, ResendDue, ResendFails
<1>4. ASSUME ~Tick, ~Resend
      PROVE  pending'[m] = pending[m]
  <2>1. CASE UNCHANGED pending
    BY <2>1
  <2>2. ASSUME NEW n \in Nat \ {0}, NEW ordered \in BOOLEAN, Track(n, ordered)
        PROVE  pending'[m] = pending[m]
    BY <1>0, <2>2 DEF Track, NewMessages, TypeOK, Tracked
  <2>3. ASSUME NEW S \in SUBSET arrived, ApplyAck(S)
        PROVE  pending'[m] = pending[m]
    BY <2>3 DEF ApplyAck
  <2>4. ASSUME NEW n \in FragmentCounts, SendReliable(n)
        PROVE  pending'[m] = pending[m]
    BY <2>2, <2>4, SenderAssumption DEF SendReliable
  <2>5. ASSUME NEW ordered \in BOOLEAN, SendControl(ordered)
        PROVE  pending'[m] = pending[m]
    <3>1. 1 \in Nat \ {0} /\ Track(1, ordered)
      BY <2>5 DEF SendControl
    <3> QED
      BY <2>2, <3>1
  <2>6. ASSUME NEW n \in FragmentCounts, NEW ordered \in BOOLEAN, NEW caller \in Callers,
               NEW sent \in 0 .. n - 1, SendFails(n, ordered, sent, caller)
        PROVE  pending'[m] = pending[m]
    BY <2>2, <2>6, SenderAssumption DEF SendFails
  <2>7. ASSUME \/ \E n \in FragmentCounts : WindowFull(n)
               \/ SendUnreliable
               \/ \E d \in wire : Arrive(d)
               \/ UNCHANGED vars
        PROVE  pending'[m] = pending[m]
    BY <2>1, <2>7 DEF WindowFull, SendUnreliable, Arrive, vars
  <2> QED
    BY <1>4, <2>3, <2>4, <2>5, <2>6, <2>7 DEF Next, Send, Peer
<1>5. pending'[m] = pending[m] /\ Exhausted(m) => Exhausted(m)'
  BY DEF Exhausted
<1> QED
  BY <1>1, <1>2, <1>3, <1>4, <1>5

\* The safety half of EveryFrameSettles, for any budget and interval: a frame that
\* waits is a bounded number of ticks and retransmissions away from its end, each of
\* them that concerns it takes one, and nothing gives one back, neither the traffic
\* of other frames nor a send that fails half way (due, _resend_due).
THEOREM RetriesRunDown == Spec => []StepsBounded /\ [][RetriesAdvance]_vars
<1>1. TypeInv /\ [Next]_vars => [RetriesAdvance]_vars
  BY AdvanceStep
<1>2. TypeInv => StepsBounded
  BY StepsTyped DEF TypeInv
<1> QED
  BY <1>1, <1>2, TypeInvInit, TypeInvStep, PTL DEF Spec

=============================================================================
