------------------------ MODULE EstablishedStream_proofs ------------------------
(***************************************************************************)
(* Theorems on EstablishedStream, for every width of the hint, start of    *)
(* the streams and network that keeps Age + Gap below half the hint's      *)
(* range.  The inductive invariant says how far the anchor of an epoch can *)
(* lie behind its newest datagram.                                         *)
(***************************************************************************)
EXTENDS EstablishedStream, TLAPS

\* An epoch without an anchor has lost all that was sent in it; an anchor is at most
\* Age behind the newest datagram there was when it was set.
Near ==
  \A e \in Epochs :
    /\ anchor[e] = Unanchored => sent[e] = missed[e]
    /\ anchor[e] # Unanchored => Newest(e) - missed[e] - Age <= anchor[e]

IInv == TypeOK /\ Near

\* Quotient and remainder.
LEMMA Division ==
  ASSUME NEW w \in Nat \ {0}, NEW a \in Int
  PROVE  /\ a \div w \in Int /\ a % w \in 0..w - 1
         /\ a = w * (a \div w) + (a % w)
  OBVIOUS

\* A multiple of the modulus that lies within one modulus of zero is zero.
LEMMA SmallMultiple ==
  ASSUME NEW w \in Nat \ {0}, NEW k \in Int, -w < w * k, w * k < w
  PROVE  k = 0
<1>1. CASE k >= 1
  BY <1>1, w * k >= w
<1>2. CASE k <= -1
  BY <1>2, w * k <= -w
<1> QED BY <1>1, <1>2

\* The remainder is the only number of its range at a multiple of the modulus.
LEMMA Remainder ==
  ASSUME NEW w \in Nat \ {0}, NEW r \in 0..w - 1, NEW q \in Int
  PROVE  (r + w * q) % w = r
<1> DEFINE a == r + w * q
<1>1. a \in Int /\ w * q \in Int
  OBVIOUS
<1>2. a \div w \in Int /\ a % w \in 0..w - 1 /\ a = w * (a \div w) + (a % w)
  BY <1>1, Division
<1>3. w * (q - (a \div w)) = (a % w) - r
  BY <1>1, <1>2
<1>4. q - (a \div w) = 0
  <2>1. -w < w * (q - (a \div w)) /\ w * (q - (a \div w)) < w
    BY <1>2, <1>3
  <2> QED BY <2>1, <1>2, SmallMultiple
<1> QED BY <1>2, <1>3, <1>4

\* The difference of two remainders is, as a remainder, that of the numbers.
LEMMA RemainderOfDifference ==
  ASSUME NEW w \in Nat \ {0}, NEW a \in Int, NEW b \in Int, NEW h \in Int,
         b - a + h \in 0..w - 1
  PROVE  ((b % w) - (a % w) + h) % w = b - a + h
<1> DEFINE qa == a \div w
           qb == b \div w
           ra == a % w
           rb == b % w
<1>1. qa \in Int /\ ra \in Int /\ a = w * qa + ra
  BY Division
<1>2. qb \in Int /\ rb \in Int /\ b = w * qb + rb
  BY Division
<1>3. qa - qb \in Int
  BY <1>1, <1>2
<1>4. ((b - a + h) + w * (qa - qb)) % w = b - a + h
  BY <1>3, Remainder
<1>5. rb - ra + h = (b - a + h) + w * (qa - qb)
  <2> HIDE DEF qa, qb, ra, rb
  <2>1. w * (qa - qb) = w * qa - w * qb
    BY <1>1, <1>2
  <2> QED BY <1>1, <1>2, <2>1
<1> QED BY <1>4, <1>5

\* The hint of a counter less than half its range from the anchor is extended to
\* that counter, also across the end of the range.
LEMMA ExtendsToCounter ==
  ASSUME NEW last \in Nat, NEW c \in Nat, -Half < c - last, c - last < Half
  PROVE  Extend(c % Width, last) = c
<1>1. Width \in Nat \ {0} /\ Half \in Int /\ c - last + Half \in 0..Width - 1
  BY StreamAssumption DEF Width
<1>2. last \in Int /\ c \in Int
  OBVIOUS
<1>3. ((c % Width) - (last % Width) + Half) % Width = c - last + Half
  BY <1>1, <1>2, RemainderOfDifference
<1> QED BY <1>1, <1>2, <1>3 DEF Extend

\* The counters tried first contain those that are their own hint and those of the
\* first turns above COUNTER_BASE.
LEMMA TriesTheStart ==
  ASSUME NEW c \in Nat,
         \/ c < Width
         \/ High(Base) <= c /\ c < High(Base) + Span * Width
  PROVE  c \in FirstCandidates(c % Width)
<1>1. Width \in Nat \ {0} /\ Span \in Nat \ {0} /\ Base \in Nat
  BY StreamAssumption DEF Width
<1>2. /\ c \div Width \in Int /\ c % Width \in 0..Width - 1
      /\ c = Width * (c \div Width) + (c % Width)
  BY <1>1, Division
<1>3. CASE c < Width
  <2>1. c % Width = c
    BY <1>1, <1>3, <1>2, Remainder, c \in 0..Width - 1, c + Width * 0 = c
  <2>2. 0 \in 0..Span - 1 /\ c = (c % Width) + 0
    BY <1>1, <2>1
  <2> QED BY <2>2 DEF FirstCandidates
<1>4. CASE High(Base) <= c /\ c < High(Base) + Span * Width
  <2> DEFINE n == (c \div Width) - (Base \div Width)
  <2>1. Base \div Width \in Int /\ High(Base) = Width * (Base \div Width)
    BY <1>1, Division DEF High
  <2>2. n \in Int /\ c = High(Base) + (c % Width) + n * Width
    BY <1>1, <1>2, <2>1
  <2>3. n >= 0
    <3>1. SUFFICES ASSUME n <= -1 PROVE FALSE
      BY <2>2
    <3>2. n * Width <= -Width
      BY <3>1, <2>2, <1>1
    <3> QED BY <3>2, <2>2, <1>2, <1>4, <1>1, <2>1
  <2>4. n <= Span - 1
    <3>1. SUFFICES ASSUME n >= Span PROVE FALSE
      BY <2>2, <1>1
    <3>2. n * Width >= Span * Width
      BY <3>1, <2>2, <1>1
    <3> QED BY <3>2, <2>2, <1>2, <1>4, <1>1, <2>1
  <2>5. n \in 0..Span - 1
    BY <2>2, <2>3, <2>4, <1>1
  <2> QED BY <2>2, <2>5 DEF FirstCandidates
<1> QED BY <1>3, <1>4

\* The first counter tried after an anchor is the one the hint is extended to.
LEMMA TriesTheNearest ==
  ASSUME NEW e \in Epochs, NEW c \in Nat, Last(e) \in Nat,
         -Half < c - Last(e), c - Last(e) < Half
  PROVE  c \in Candidates(e, c % Width)
<1>1. Extend(c % Width, Last(e)) = c
  BY ExtendsToCounter
<1>2. Smaller(Span, 32) \in Nat
  BY StreamAssumption DEF Smaller
<1>3. c \in c - Smaller(Span, 32)..c + Smaller(Span, 32)
  BY <1>2
<1> QED BY <1>1, <1>3 DEF Candidates, Unanchored

\* The anchor is at most Age + Gap from whatever can still arrive.
LEMMA NeverDeafOfInv == IInv => NeverDeaf
<1> SUFFICES ASSUME IInv, NEW c \in Counters, Deliverable(key, c)
             PROVE  Opens(key, c)
  BY DEF NeverDeaf
<1>1. key \in Epochs /\ Start[key] \in Nat /\ sent[key] \in Nat /\ missed[key] \in 0..Gap
  BY StreamAssumption DEF IInv, TypeOK
<1>2. /\ c \in Nat /\ Start[key] <= c /\ c <= Newest(key) /\ Newest(key) - c <= Age
      /\ Newest(key) = Start[key] + sent[key] - 1
  BY <1>1 DEF Deliverable, Newest
<1>3. Age \in Nat /\ Gap \in Nat /\ Half \in Nat /\ Age + Gap < Half
  BY StreamAssumption
<1>4. CASE anchor[key] = Unanchored
  <2>1. c < Start[key] + Gap
    BY <1>1, <1>2, <1>3, <1>4 DEF IInv, Near
  <2>2. Width \in Nat /\ High(Base) \in Int /\ Span * Width \in Int
    BY StreamAssumption, Division DEF Width, High
  <2>3. \/ c < Width
        \/ High(Base) <= c /\ c < High(Base) + Span * Width
    BY <1>1, <1>2, <1>3, <2>1, <2>2, StreamAssumption
  <2>4. c \in FirstCandidates(c % Width)
    BY <1>2, <2>3, TriesTheStart
  <2> QED BY <1>4, <2>4 DEF Opens, Candidates, Last
<1>5. CASE anchor[key] # Unanchored
  <2>1. anchor[key] \in Start[key]..Newest(key) /\ Newest(key) - missed[key] - Age <= anchor[key]
    BY <1>1, <1>5 DEF IInv, TypeOK, Near
  <2>2. anchor[key] \in Nat /\ -Half < c - anchor[key] /\ c - anchor[key] < Half
    BY <1>1, <1>2, <1>3, <2>1
  <2> QED BY <1>1, <1>2, <2>2, TriesTheNearest DEF Opens, Last
<1> QED BY <1>4, <1>5

\* Nothing was sent, nothing was missed.
LEMMA InitInv == Init => IInv
  BY StreamAssumption DEF Init, IInv, TypeOK, Near, Unanchored

\* One more was sent, and one more missed.
LEMMA SendStep ==
  ASSUME IInv, NEW e \in Epochs, Send(e)
  PROVE  IInv'
<1>1. /\ Start \in [Epochs -> Nat] /\ MaxSent \in Nat /\ Gap \in Nat /\ Age \in Nat
      /\ sent \in [Epochs -> 0..MaxSent] /\ missed \in [Epochs -> 0..Gap]
  BY StreamAssumption DEF IInv, TypeOK
<1>2. /\ sent' = [sent EXCEPT ![e] = @ + 1] /\ missed' = [missed EXCEPT ![e] = @ + 1]
      /\ sent[e] < MaxSent /\ missed[e] < Gap /\ UNCHANGED <<key, anchor>>
  BY DEF Send
<1>3. TypeOK'
  BY <1>1, <1>2 DEF IInv, TypeOK, Newest
<1>4. Near'
  BY <1>1, <1>2 DEF IInv, TypeOK, Near, Newest
<1> QED BY <1>3, <1>4 DEF IInv

\* The datagram that opened is at most Age old, and nothing is missed after it.
LEMMA OpenStep ==
  ASSUME IInv, NEW e \in Epochs, NEW c \in Counters, Open(e, c)
  PROVE  IInv'
<1>1. /\ Start \in [Epochs -> Nat] /\ MaxSent \in Nat /\ Gap \in Nat /\ Age \in Nat
      /\ sent \in [Epochs -> 0..MaxSent] /\ missed \in [Epochs -> 0..Gap]
      /\ anchor \in [Epochs -> Int]
  BY StreamAssumption DEF IInv, TypeOK
<1>2. /\ anchor' = [anchor EXCEPT ![e] = c] /\ missed' = [missed EXCEPT ![e] = 0]
      /\ UNCHANGED <<key, sent>>
      /\ c \in Start[e]..Newest(e) /\ Newest(e) - c <= Age
  BY DEF Open, Deliverable
<1>3. c \in Nat
  BY <1>1, <1>2 DEF Newest
<1>4. TypeOK'
  BY <1>1, <1>2, <1>3 DEF IInv, TypeOK, Newest
<1>5. Near'
  BY <1>1, <1>2, <1>3 DEF IInv, TypeOK, Near, Newest, Unanchored
<1> QED BY <1>4, <1>5 DEF IInv

\* The invariant is inductive.
LEMMA StepInv == IInv /\ [Next]_vars => IInv'
<1> SUFFICES ASSUME IInv, [Next]_vars PROVE IInv'
  OBVIOUS
<1>1. ASSUME NEW e \in Epochs, Send(e) PROVE IInv'
  BY <1>1, SendStep
<1>2. ASSUME NEW e \in Epochs, Rekey(e) PROVE IInv'
  BY <1>2 DEF Rekey, IInv, TypeOK, Near, Newest
<1>3. ASSUME NEW e \in Epochs, NEW c \in Counters, Open(e, c) PROVE IInv'
  BY <1>3, OpenStep
<1>4. ASSUME NEW e \in Epochs, NEW c \in Counters, Refuse(e, c) PROVE IInv'
  BY <1>4 DEF Refuse, vars, IInv, TypeOK, Near, Newest
<1>5. CASE UNCHANGED vars
  BY <1>5 DEF vars, IInv, TypeOK, Near, Newest
<1> QED BY <1>1, <1>2, <1>3, <1>4, <1>5 DEF Next

\* Every reachable state satisfies the invariant.
THEOREM StreamInvariant == Spec => []IInv
<1>1. Init => IInv
  BY InitInv
<1>2. IInv /\ [Next]_vars => IInv'
  BY StepInv
<1> QED BY <1>1, <1>2, PTL DEF Spec

\* The variables keep their types (_try_decrypt_established).
THEOREM StreamType == Spec => []TypeOK
<1>1. IInv => TypeOK
  BY DEF IInv
<1> QED BY <1>1, StreamInvariant, PTL

\* Each datagram of the present epoch that can still arrive opens, as long as the
\* network keeps Age + Gap below half the range of the hint (counter_candidates).
THEOREM StreamHeard == Spec => []NeverDeaf
<1>1. IInv => NeverDeaf
  BY NeverDeafOfInv
<1> QED BY <1>1, StreamInvariant, PTL

-----------------------------------------------------------------------------
(* How far the anchor reaches                                              *)

\* What a hint is extended to has that hint: it differs from the counter by whole
\* turns of the hint.
LEMMA ExtendsByTurns ==
  ASSUME NEW last \in Nat, NEW c \in Nat
  PROVE  /\ Extend(c % Width, last) \in Int
         /\ Extend(c % Width, last) - last \in -Half..Half - 1
         /\ \E q \in Int : Extend(c % Width, last) - c = Width * q
<1> DEFINE ql == last \div Width
           rl == last % Width
           qc == c \div Width
           rc == c % Width
           x  == rc - rl + Half
           qx == x \div Width
           rx == x % Width
<1>1. Width \in Nat \ {0} /\ Half \in Nat \ {0} /\ Width = 2 * Half
  BY StreamAssumption DEF Width
<1>2. Width \in Nat \ {0} /\ last \in Int /\ c \in Int
  BY <1>1
<1>3. ql \in Int /\ rl \in Int /\ last = Width * ql + rl
  BY <1>2, Division
<1>4. qc \in Int /\ rc \in Int /\ c = Width * qc + rc
  BY <1>2, Division
<1>5. x \in Int /\ x = rc - rl + Half
  BY <1>1, <1>3, <1>4
<1>6. qx \in Int /\ rx \in 0..Width - 1 /\ x = Width * qx + rx
  BY <1>2, <1>5, Division
<1>7. Extend(rc, last) = last + (rx - Half)
  BY DEF Extend
<1> HIDE DEF ql, rl, qc, rc, x, qx, rx
<1>8. Extend(rc, last) \in Int /\ Extend(rc, last) - last \in -Half..Half - 1
  BY <1>1, <1>2, <1>6, <1>7
<1>9. ql - qc - qx \in Int /\ Extend(rc, last) - c = Width * (ql - qc - qx)
  <2>1. rx - Half = rc - rl - Width * qx
    BY <1>1, <1>3, <1>4, <1>5, <1>6
  <2>2. Extend(rc, last) - c = Width * ql - Width * qc - Width * qx
    BY <1>1, <1>2, <1>3, <1>4, <1>6, <1>7, <2>1
  <2>3. Width * (ql - qc - qx) = Width * ql - Width * qc - Width * qx
    BY <1>1, <1>3, <1>4, <1>6
  <2> QED BY <1>3, <1>4, <1>6, <2>2, <2>3
<1> QED BY <1>8, <1>9 DEF rc

\* The counters next to the one a hint is extended to have other hints, as long as
\* there are fewer of them than hints: trying them never opens anything more.
LEMMA NeighboursAreIdle ==
  ASSUME Smaller(Span, 32) < Width,
         NEW e \in Epochs, NEW c \in Nat, Last(e) \in Nat, c \in Candidates(e, c % Width)
  PROVE  c = Extend(c % Width, Last(e))
<1> DEFINE s == Smaller(Span, 32)
           first == Extend(c % Width, Last(e))
<1>1. Width \in Nat \ {0} /\ s \in Nat /\ s < Width
  BY StreamAssumption DEF Width, Smaller
<1>2. PICK q \in Int : first - c = Width * q
  BY ExtendsByTurns
<1>3. first \in Int
  BY ExtendsByTurns
<1>4. c \in first - s..first + s
  BY DEF Candidates, Unanchored
<1> HIDE DEF s, first
<1>5. -Width < Width * q /\ Width * q < Width
  BY <1>1, <1>2, <1>3, <1>4
<1>6. q = 0
  BY <1>1, <1>5, SmallMultiple
<1>7. c = first
  BY <1>1, <1>2, <1>3, <1>6
<1> QED BY <1>7 DEF first

\* The datagrams that an anchored epoch can open.
HeardExactly ==
  anchor[key] # Unanchored =>
    \A c \in Counters : Opens(key, c) <=> -Half <= c - anchor[key] /\ c - anchor[key] < Half

\* Once an epoch has an anchor, exactly the counters less than half the range of the
\* hint from it open (half of it, downwards): the neighbours that counter_candidates
\* adds to the nearest counter reach nothing, and a stream whose gap exceeds half the
\* range is not heard again.
THEOREM ReachIsHalf ==
  ASSUME Smaller(Span, 32) < Width
  PROVE  Spec => []HeardExactly
<1>1. IInv => HeardExactly
  <2> SUFFICES ASSUME IInv, anchor[key] # Unanchored, NEW c \in Counters
               PROVE  Opens(key, c) <=> -Half <= c - anchor[key] /\ c - anchor[key] < Half
    BY DEF HeardExactly
  <2>1. /\ key \in Epochs /\ anchor[key] \in Start[key]..Newest(key) /\ Start[key] \in Nat
        /\ sent[key] \in Nat
    BY StreamAssumption DEF IInv, TypeOK
  <2>2. Last(key) = anchor[key] /\ Last(key) \in Nat
    BY <2>1 DEF Last, Newest
  <2>3. c \in Nat
    BY StreamAssumption DEF Counters
  <2>4. Half \in Nat \ {0} /\ Width = 2 * Half
    BY StreamAssumption DEF Width
  <2>5. ASSUME Opens(key, c)
        PROVE  -Half <= c - anchor[key] /\ c - anchor[key] < Half
    <3>1. c = Extend(c % Width, Last(key))
      BY <2>1, <2>2, <2>3, <2>5, NeighboursAreIdle DEF Opens
    <3>2. Extend(c % Width, Last(key)) - Last(key) \in -Half..Half - 1
      BY <2>2, <2>3, ExtendsByTurns
    <3> QED BY <2>2, <2>3, <2>4, <3>1, <3>2
  <2>6. ASSUME -Half <= c - anchor[key], c - anchor[key] < Half
        PROVE  Opens(key, c)
    <3>1. Width \in Nat \ {0} /\ c - Last(key) + Half \in 0..Width - 1
      BY <2>2, <2>3, <2>4, <2>6
    <3>2. ((c % Width) - (Last(key) % Width) + Half) % Width = c - Last(key) + Half
      BY <2>2, <2>3, <2>4, <3>1, RemainderOfDifference
    <3>3. Extend(c % Width, Last(key)) = c
      BY <2>2, <2>3, <2>4, <3>2 DEF Extend
    <3>4. Smaller(Span, 32) \in Nat
      BY StreamAssumption DEF Smaller
    <3>5. c \in c - Smaller(Span, 32)..c + Smaller(Span, 32)
      BY <2>3, <3>4
    <3> QED BY <2>1, <2>2, <3>3, <3>5 DEF Opens, Candidates, Unanchored
  <2> QED BY <2>5, <2>6
<1> QED BY <1>1, StreamInvariant, PTL

\* An anchor moves only when a datagram of its epoch opens under the keys of that
\* epoch; it falls back by at most Age and advances by at most Age + Gap.
AnchorMoves ==
  \A e \in Epochs : anchor'[e] # anchor[e] =>
    /\ e = key /\ UNCHANGED <<key, sent>>
    /\ anchor'[e] <= Newest(e) /\ Newest(e) - anchor'[e] <= Age
    /\ anchor[e] # Unanchored =>
         anchor[e] - anchor'[e] <= Age /\ anchor'[e] - anchor[e] <= Age + Gap

\* However often _try_decrypt_established moves an anchor backwards, the steps back
\* do not add up: each starts from the newest counter, not from the anchor.
THEOREM AnchorsStayNear == Spec => [][AnchorMoves]_vars
<1>1. IInv /\ [Next]_vars => [AnchorMoves]_vars
  <2> SUFFICES ASSUME IInv, Next PROVE AnchorMoves
    BY DEF Next
  <2>1. ASSUME NEW e \in Epochs, NEW c \in Counters, Open(e, c)
        PROVE  AnchorMoves
    <3>1. /\ anchor' = [anchor EXCEPT ![e] = c] /\ UNCHANGED <<key, sent>> /\ e = key
          /\ c \in Start[e]..Newest(e) /\ Newest(e) - c <= Age
      BY <2>1 DEF Open, Deliverable, Opens
    <3>2. /\ anchor \in [Epochs -> Int] /\ Start[e] \in Nat /\ sent[e] \in Nat
          /\ missed[e] \in 0..Gap /\ Gap \in Nat /\ Age \in Nat
      BY StreamAssumption DEF IInv, TypeOK
    <3>3. anchor[e] # Unanchored =>
            anchor[e] \in Start[e]..Newest(e) /\ Newest(e) - missed[e] - Age <= anchor[e]
      BY DEF IInv, TypeOK, Near
    <3>4. Newest(e) \in Int
      BY <3>2 DEF Newest
    <3> QED BY <3>1, <3>2, <3>3, <3>4 DEF AnchorMoves
  <2>2. ASSUME UNCHANGED anchor PROVE AnchorMoves
    BY <2>2 DEF AnchorMoves
  <2> QED BY <2>1, <2>2 DEF Next, Send, Rekey, Refuse, vars
<1> QED BY <1>1, StreamInvariant, PTL DEF Spec

=============================================================================
