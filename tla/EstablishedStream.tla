--------------------------- MODULE EstablishedStream ---------------------------
(***************************************************************************)
(* The encrypted stream from the server: the counters of                   *)
(* established_aead.py and the anchors _try_decrypt_established of         *)
(* rift_headless.py keeps for them.                                        *)
(*                                                                         *)
(* A datagram is sealed with the key of an epoch and a counter, of which   *)
(* only the counter modulo Width is sent.  The receiver tries the counters *)
(* it takes for possible; only the true one opens the datagram (AEAD, an   *)
(* external library), and becomes the anchor of its epoch, also when it is *)
(* older than the one before.  The network loses, repeats and reorders,    *)
(* but delivers nothing older than Age counters, and never loses more than *)
(* Gap datagrams in a row.                                                 *)
(***************************************************************************)
EXTENDS Integers

CONSTANTS
  Epochs,   \* the key exchanges of the session
  Half,     \* 0x8000, half of the range of the 16-bit hint
  Base,     \* COUNTER_BASE
  Span,     \* the span argument of decrypt_datagram
  Start,    \* the first counter of the server, per epoch
  Age, Gap, \* what the network may do
  MaxSent   \* bound: datagrams the server sends in an epoch

Width == 2 * Half
High(n) == n - (n % Width)

\* A stream starts at its hint, or a few turns of the hint above COUNTER_BASE.
ASSUME StreamAssumption ==
  /\ Half \in Nat \ {0}
  /\ Base \in Nat /\ Span \in Nat \ {0}
  /\ Age \in Nat /\ Gap \in Nat /\ Age + Gap < Half
  /\ Start \in [Epochs -> Nat]
  /\ \A e \in Epochs :
       \/ Start[e] + Gap < Width
       \/ High(Base) <= Start[e] /\ Start[e] + Gap < High(Base) + Span * Width
  /\ MaxSent \in Nat

VARIABLES
  key,      \* the epoch of established_rx_key
  sent,     \* datagrams the server has sent, per epoch
  anchor,   \* _established_rx_state: the last_counter of an epoch, or Unanchored
  missed    \* datagrams sent in an epoch since the last one that was opened

vars == <<key, sent, anchor, missed>>

Unanchored == -1
Newest(e) == Start[e] + sent[e] - 1

Init ==
  /\ key \in Epochs
  /\ sent = [e \in Epochs |-> 0]
  /\ anchor = [e \in Epochs |-> Unanchored]
  /\ missed = [e \in Epochs |-> 0]

\* The counters tried for the first datagram of an epoch: the hint itself, the hint
\* above COUNTER_BASE, then the next counters and the next turns.
FirstCandidates(hint) ==
  {hint + n : n \in 0..Span - 1} \cup {High(Base) + hint + n * Width : n \in 0..Span - 1}

\* Mutant: the hint is never taken for an older one.
ExtendUpward(hint, last) == last + ((hint - (last % Width)) % Width)

\* The hint as the nearest counter, by a signed difference.
Extend(hint, last) == last + (((hint - (last % Width) + Half) % Width) - Half)

Smaller(a, b) == IF a < b THEN a ELSE b

\* The state key of the anchors includes the epoch.
Last(e) == anchor[e]

\* counter_candidates
Candidates(e, hint) ==
  IF Last(e) = Unanchored THEN FirstCandidates(hint)
  ELSE LET first == Extend(hint, Last(e)) IN first - Smaller(Span, 32)..first + Smaller(Span, 32)

\* decrypt_datagram: the keys must be those of the epoch.
Opens(e, c) == e = key /\ c \in Candidates(e, c % Width)

-----------------------------------------------------------------------------

Send(e) ==
  /\ sent[e] < MaxSent
  /\ missed[e] < Gap
  /\ sent' = [sent EXCEPT ![e] = @ + 1]
  /\ missed' = [missed EXCEPT ![e] = @ + 1]
  /\ UNCHANGED <<key, anchor>>

\* What the network can still deliver.
Deliverable(e, c) == c \in Start[e]..Newest(e) /\ Newest(e) - c <= Age

\* Mutant: a datagram that does not open is taken for the start of the stream.
RefuseAndForget(e, c) ==
  /\ Deliverable(e, c)
  /\ ~Opens(e, c)
  /\ anchor' = [anchor EXCEPT ![key] = c]
  /\ UNCHANGED <<key, sent, missed>>

\* established_decrypt_failures: nothing changes.
Refuse(e, c) ==
  /\ Deliverable(e, c)
  /\ ~Opens(e, c)
  /\ UNCHANGED vars

\* The counter that opened the datagram is the new anchor, whatever the old one.
Open(e, c) ==
  /\ Deliverable(e, c)
  /\ Opens(e, c)
  /\ anchor' = [anchor EXCEPT ![e] = c]
  /\ missed' = [missed EXCEPT ![e] = 0]
  /\ UNCHANGED <<key, sent>>

\* A good Reply2 of another key exchange replaces the keys.
Rekey(e) ==
  /\ key' = e
  /\ UNCHANGED <<sent, anchor, missed>>

Counters == UNION {Start[e]..Start[e] + MaxSent - 1 : e \in Epochs}

Next ==
  \/ \E e \in Epochs : Send(e) \/ Rekey(e)
  \/ \E e \in Epochs, c \in Counters : Open(e, c) \/ Refuse(e, c)

Spec == Init /\ [][Next]_vars

-----------------------------------------------------------------------------
(* Properties                                                              *)

\* The variables keep their types.
TypeOK ==
  /\ key \in Epochs
  /\ sent \in [Epochs -> 0..MaxSent]
  /\ anchor \in [Epochs -> Int]
  /\ missed \in [Epochs -> 0..Gap]
  /\ \A e \in Epochs : anchor[e] = Unanchored \/ anchor[e] \in Start[e]..Newest(e)

\* The receiver is never deaf: whatever was lost, repeated or reordered, in whatever
\* order the epochs changed, and however far back the anchor was moved, each datagram
\* of the present epoch that can still arrive opens.
NeverDeaf ==
  \A c \in Counters : Deliverable(key, c) => Opens(key, c)

=============================================================================
