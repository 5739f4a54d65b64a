------------------------- MODULE OpenExchange_proofs -------------------------
(***************************************************************************)
(* Theorems on OpenExchange, for every MTU, set of offers and epochs, and  *)
(* padding.  The inductive invariant adds to the checked ones that only a  *)
(* Reply1 that was counted has a Request2 sent.                            *)
(***************************************************************************)
EXTENDS OpenExchange, TLAPS

\* A Request2 was sent for a Reply1.
Requested == request2_sent > 0 => "rbx_reply_1" \in answers

IInv == TypeOK /\ RequestedOnce /\ AuthenticatedIsAnswered /\ MtuNegotiated /\ Requested

\* The smaller of two MTUs is one of them, and above neither.
LEMMA SmallestOfTwo ==
  ASSUME NEW a \in Nat, NEW b \in Nat
  PROVE  /\ Smallest(a, b) \in {a, b} /\ Smallest(a, b) \in Nat
         /\ Smallest(a, b) <= a /\ Smallest(a, b) <= b
  BY DEF Smallest

\* There are four candidates or five, and each asks for an MTU.
LEMMA CandidateType ==
  ASSUME header \in BOOLEAN
  PROVE  /\ Len(Candidates) \in Nat
         /\ \A i \in 1..Len(Candidates) : Candidates[i] \in Nat
<1>1. CASE header
  BY <1>1, ExchangeAssumption DEF Candidates
<1>2. CASE ~header
  BY <1>2, ExchangeAssumption DEF Candidates
<1> QED BY <1>1, <1>2

\* A fresh client satisfies the invariant.
LEMMA InitInv == Init => IInv
<1> SUFFICES ASSUME Init PROVE IInv
  OBVIOUS
<1>1. 0 \in 0..Len(Candidates)
  BY CandidateType DEF Init
<1>2. TypeOK
  <2>1. batch \in Seq(Packets) /\ Len(batch) <= MaxBatch
    BY ExchangeAssumption DEF Init
  <2>2. verified \in Seq(Epochs) /\ Len(verified) <= MaxVerified
    BY ExchangeAssumption DEF Init
  <2>3. asked \in Nat /\ mtu \in Nat /\ agreed \in Nat /\ request2_sent \in Nat
    BY ExchangeAssumption DEF Init
  <2>4. {keys, route} \subseteq Epochs \cup {None} /\ try \in 0..Len(Candidates)
    BY <1>1 DEF Init
  <2> QED BY <2>1, <2>2, <2>3, <2>4 DEF Init, TypeOK
<1>3. RequestedOnce /\ Requested
  BY DEF Init, RequestedOnce, Requested
<1>4. AuthenticatedIsAnswered
  BY DEF Init, AuthenticatedIsAnswered
<1>5. MtuNegotiated
  BY ExchangeAssumption DEF Init, MtuNegotiated
<1> QED BY <1>2, <1>3, <1>4, <1>5 DEF IInv

\* Moving from window to window, a failing socket and an arriving packet change
\* nothing that the invariants are about, but the phase.
LEMMA ProgressStep ==
  ASSUME IInv,
         \/ Start \/ ReceiveFinally \/ SocketFails \/ EndWindow \/ NextCandidate \/ Return
         \/ \E p \in Packets : Arrive(p)
  PROVE  IInv'
<1>0. UNCHANGED <<config, try, opening, session>>
  BY DEF Start, ReceiveFinally, SocketFails, EndWindow, NextCandidate, Return, Arrive
<1>1. TypeOK'
  <2>1. Candidates' = Candidates
    BY <1>0 DEF Candidates, config
  <2>2. batch' \in Seq(Packets) /\ Len(batch') <= MaxBatch
    <3>1. ASSUME NEW p \in Packets, Arrive(p) PROVE batch' \in Seq(Packets) /\ Len(batch') <= MaxBatch
      BY <3>1, ExchangeAssumption DEF Arrive, IInv, TypeOK
    <3> QED BY <3>1 DEF IInv, TypeOK, Start, ReceiveFinally, SocketFails, EndWindow, NextCandidate, Return
  <2>3. /\ phase' \in {"start", "next", "receive", "handle", "open", "unanswered", "failed"}
        /\ window' \in {"pong", "reply", "final"}
    BY DEF IInv, TypeOK, Start, ReceiveFinally, SocketFails, EndWindow, NextCandidate, Return, Arrive
  <2> QED BY <1>0, <2>1, <2>2, <2>3 DEF IInv, TypeOK, config, opening, session
<1>2. RequestedOnce' /\ Requested'
  BY <1>0 DEF IInv, RequestedOnce, Requested, config, opening
<1>3. AuthenticatedIsAnswered'
  <2>1. authenticated => answers # {} /\ phase # "unanswered"
    BY DEF IInv, AuthenticatedIsAnswered
  <2>2. authenticated => phase' # "unanswered"
    BY <2>1 DEF Start, ReceiveFinally, SocketFails, EndWindow, NextCandidate, Return, Arrive
  <2> QED BY <1>0, <2>2 DEF IInv, AuthenticatedIsAnswered, opening, session
<1>4. MtuNegotiated'
  <2>3. ASSUME header', phase' = "receive", window' = "reply"
        PROVE  header /\ phase = "receive" /\ window = "reply"
    <3>1. header
      BY <1>0, <2>3 DEF config
    <3>2. \E p \in Packets : Arrive(p)
      BY <2>3, <3>1 DEF Start, ReceiveFinally, SocketFails, EndWindow, NextCandidate, Return
    <3> QED BY <2>3, <3>1, <3>2 DEF Arrive
  <2> QED BY <1>0, <2>3 DEF IInv, MtuNegotiated, Acceptable, PaddedLength, opening, config
<1> QED BY <1>1, <1>2, <1>3, <1>4 DEF IInv

\* A Request1 asks for no more than the MTU when it is padded.
LEMMA RequestStep == ASSUME IInv, SendRequest1 PROVE IInv'
<1> USE DEF SendRequest1
<1>0. Candidates' = Candidates /\ Len(Candidates) \in Nat /\ Candidates[try + 1] \in Nat
  <2>1. header \in BOOLEAN /\ try + 1 \in 1..Len(Candidates)
    BY CandidateType DEF IInv, TypeOK
  <2> QED BY <2>1, CandidateType DEF Candidates, config
<1>1. asked' \in Nat /\ (header => asked' <= mtu)
  BY <1>0, SmallestOfTwo DEF IInv, TypeOK, Request1Mtu
<1>2. TypeOK'
  BY <1>0, <1>1 DEF IInv, TypeOK, config, session
<1>3. RequestedOnce' /\ Requested'
  BY DEF IInv, RequestedOnce, Requested, config
<1>4. AuthenticatedIsAnswered'
  BY DEF IInv, AuthenticatedIsAnswered, session
<1>5. MtuNegotiated'
  BY <1>1 DEF IInv, MtuNegotiated, Acceptable, PaddedLength, config
<1> QED BY <1>2, <1>3, <1>4, <1>5 DEF IInv

\* What a Reply2 does.
LEMMA Reply2Step ==
  ASSUME IInv, \/ \E problem \in Problems : RejectReply2(problem)
               \/ \E e \in Epochs : AcceptReply2(e)
  PROVE  IInv'
<1>0. UNCHANGED <<config, progress, opening>> /\ Receiving /\ request2_sent > 0
  BY DEF RejectReply2, AcceptReply2
<1>1. Candidates' = Candidates
  BY <1>0 DEF Candidates, config
<1>2. RequestedOnce' /\ Requested'
  BY <1>0 DEF IInv, RequestedOnce, Requested, config, opening
<1>3. MtuNegotiated'
  BY <1>0 DEF IInv, MtuNegotiated, Acceptable, PaddedLength, config, opening, progress
<1>4. ASSUME NEW problem \in Problems, RejectReply2(problem)
      PROVE  TypeOK' /\ AuthenticatedIsAnswered'
  BY <1>0, <1>1, <1>4 DEF RejectReply2, IInv, TypeOK, AuthenticatedIsAnswered, config, opening, progress
<1>5. ASSUME NEW e \in Epochs, AcceptReply2(e)
      PROVE  TypeOK' /\ AuthenticatedIsAnswered'
  <2> USE <1>5 DEF AcceptReply2
  <2>1. verified \in Seq(Epochs) /\ verified' = Append(verified, e)
    BY DEF IInv, TypeOK
  <2>2. /\ verified' \in Seq(Epochs) /\ verified' # <<>> /\ Len(verified') <= MaxVerified
        /\ verified'[Len(verified')] = e
        /\ verified # <<>> => verified'[1] = verified[1]
        /\ verified = <<>> => verified'[1] = e
    BY <2>1, ExchangeAssumption
  <2>3. TypeOK'
    BY <1>0, <1>1, <2>2 DEF IInv, TypeOK, config, opening, progress
  <2>4. request2_sent' = 1 /\ "rbx_reply_1" \in answers' /\ phase' # "unanswered"
    BY <1>0 DEF IInv, RequestedOnce, Requested, opening, progress, Receiving
  <2>5. route' = verified'[1] /\ keys' = verified'[Len(verified')]
    BY <2>2 DEF IInv, AuthenticatedIsAnswered
  <2> QED BY <2>2, <2>3, <2>4, <2>5 DEF AuthenticatedIsAnswered
<1> QED BY <1>2, <1>3, <1>4, <1>5 DEF IInv

\* Taking a packet of the batch.
LEMMA TakenType ==
  ASSUME IInv, NEW kind, Taken(kind)
  PROVE  /\ Head(batch) \in Packets /\ batch' \in Seq(Packets) /\ Len(batch') <= MaxBatch
         /\ Candidates' = Candidates
         /\ UNCHANGED <<config, window, try, session>>
<1>1. Head(batch) \in Packets /\ batch' \in Seq(Packets) /\ Len(batch') <= MaxBatch
  BY ExchangeAssumption DEF Taken, IInv, TypeOK
<1> QED BY <1>1 DEF Taken, Candidates, config

\* Request2 is sent once, for an offer that fits.
LEMMA Request2Step ==
  ASSUME IInv, NEW m \in Nat, EncryptedRequest2(m), UNCHANGED config
  PROVE  /\ request2_sent' \in {0, 1} /\ request2_error' \in BOOLEAN /\ agreed' \in Nat
         /\ request2_sent <= request2_sent'
         /\ header' /\ configured' /\ request2_sent' = 0 => request2_error'
         /\ request2_sent' > 0 => \/ agreed' = agreed /\ request2_sent > 0
                                  \/ agreed' = m /\ Acceptable(PaddedLength(m))
<1>0. /\ request2_sent \in {0, 1} /\ request2_error \in BOOLEAN /\ agreed \in Nat
      /\ header' = header /\ configured' = configured
  BY DEF IInv, TypeOK, RequestedOnce, config
<1>1. CASE MaySendRequest2 /\ request2_error' = TRUE /\ UNCHANGED <<request2_sent, agreed>>
  BY <1>0, <1>1 DEF MaySendRequest2
<1>2. CASE /\ MaySendRequest2 /\ Acceptable(PaddedLength(m))
           /\ request2_sent' = request2_sent + 1 /\ agreed' = m /\ UNCHANGED request2_error
  BY <1>0, <1>2 DEF MaySendRequest2
<1>3. CASE /\ ~MaySendRequest2
           /\ request2_error' \in IF header /\ configured THEN {request2_error}
                                                        ELSE {request2_error, TRUE}
           /\ UNCHANGED <<request2_sent, agreed>>
  <2>1. request2_error' \in BOOLEAN
    BY <1>0, <1>3
  <2>2. ~(header' /\ configured' /\ request2_sent' = 0)
    BY <1>0, <1>3 DEF MaySendRequest2
  <2> QED BY <1>0, <1>3, <2>1, <2>2
<1> QED BY <1>1, <1>2, <1>3 DEF EncryptedRequest2

\* Looking at a Roblox Reply1.
LEMMA RbxReply1Step == ASSUME IInv, HandleRbxReply1 PROVE IInv'
<1> DEFINE m == Head(batch).mtu
<1>0. /\ Taken("rbx_reply_1") /\ answers' = answers \cup {"rbx_reply_1"}
      /\ UNCHANGED <<phase, asked, standard_sent>> /\ window = "reply" /\ phase = "handle"
  BY DEF HandleRbxReply1, Taken
<1>1. /\ Head(batch) \in Packets /\ batch' \in Seq(Packets) /\ Len(batch') <= MaxBatch
      /\ Candidates' = Candidates
      /\ UNCHANGED <<config, window, try, session>>
  BY <1>0, TakenType
<1>2. m \in ReplyMtus /\ m \in Nat
  BY <1>0, <1>1, ExchangeAssumption DEF Taken, Packets
<1>3. CASE Acceptable(m)
  <2>1. mtu' = Smallest(mtu, m) /\ offers' = offers \cup {m} /\ EncryptedRequest2(m)
    BY <1>3 DEF HandleRbxReply1
  <2>2. /\ request2_sent' \in {0, 1} /\ request2_error' \in BOOLEAN /\ agreed' \in Nat
        /\ request2_sent <= request2_sent'
        /\ header' /\ configured' /\ request2_sent' = 0 => request2_error'
        /\ request2_sent' > 0 => \/ agreed' = agreed /\ request2_sent > 0
                                 \/ agreed' = m /\ Acceptable(PaddedLength(m))
    BY <1>1, <1>2, <2>1, Request2Step
  <2>3. /\ mtu' \in {mtu, m} /\ mtu' \in Nat /\ mtu' <= mtu /\ mtu' <= m
    BY <1>2, <2>1, SmallestOfTwo DEF IInv, TypeOK
  <2>4. TypeOK'
    BY <1>0, <1>1, <1>2, <2>1, <2>2, <2>3 DEF IInv, TypeOK, config, session
  <2>5. RequestedOnce' /\ Requested'
    BY <1>0, <2>2 DEF RequestedOnce, Requested
  <2>6. AuthenticatedIsAnswered'
    BY <1>0, <1>1, <2>2 DEF IInv, TypeOK, AuthenticatedIsAnswered, session
  <2>7. MtuNegotiated'
    <3>1. \A x \in offers' \cup {InitialMtu} : mtu' <= x
      <4> SUFFICES ASSUME NEW x \in offers' \cup {InitialMtu} PROVE mtu' <= x
        OBVIOUS
      <4>1. x \in Nat
        BY <1>2, <2>1, ExchangeAssumption DEF IInv, TypeOK
      <4>2. x = m \/ mtu <= x
        BY <2>1 DEF IInv, MtuNegotiated
      <4> QED BY <2>3, <4>1, <4>2 DEF IInv, TypeOK
    <3>2. mtu' \in offers' \cup {InitialMtu}
      BY <2>1, <2>3 DEF IInv, MtuNegotiated
    <3>3. request2_sent' > 0 => agreed' \in offers' /\ Acceptable(PaddedLength(agreed'))
      BY <2>1, <2>2 DEF IInv, MtuNegotiated
    <3> QED BY <1>0, <3>1, <3>2, <3>3 DEF MtuNegotiated, Acceptable, PaddedLength
  <2> QED BY <2>4, <2>5, <2>6, <2>7 DEF IInv
<1>4. CASE ~Acceptable(m)
  <2>1. UNCHANGED <<mtu, offers, agreed, request2_sent, request2_error>>
    BY <1>4 DEF HandleRbxReply1
  <2>2. TypeOK'
    BY <1>0, <1>1, <2>1 DEF IInv, TypeOK, config, session
  <2>3. RequestedOnce' /\ Requested' /\ AuthenticatedIsAnswered'
    BY <1>0, <1>1, <2>1 DEF IInv, RequestedOnce, Requested, AuthenticatedIsAnswered, config, session
  <2>4. MtuNegotiated'
    BY <1>0, <1>1, <2>1 DEF IInv, MtuNegotiated, Acceptable, PaddedLength, config
  <2> QED BY <2>2, <2>3, <2>4 DEF IInv
<1> QED BY <1>3, <1>4

\* Looking at anything else.
LEMMA OtherStep ==
  ASSUME IInv, HandleReply1 \/ HandleOther
  PROVE  IInv'
<1>0. PICK kind \in {"pong", "reply_1", "reply_2", "rbx_reply_1"} : Taken(kind)
  BY DEF HandleReply1, HandleOther
<1>1. /\ batch' \in Seq(Packets) /\ Len(batch') <= MaxBatch /\ Head(batch) \in Packets
      /\ Candidates' = Candidates
      /\ UNCHANGED <<config, window, try, session>>
  BY <1>0, TakenType
<1>2. /\ UNCHANGED <<asked, mtu, request2_sent, request2_error, offers, agreed>>
      /\ answers \subseteq answers'
      /\ answers' \subseteq {"pong", "reply_1", "rbx_reply_1", "reply_2"}
      /\ phase = "handle" /\ phase' \in {"handle", "failed"} /\ standard_sent' \in BOOLEAN
  <2>1. CASE HandleReply1
    BY <2>1 DEF HandleReply1, Taken, IInv, TypeOK
  <2>2. CASE HandleOther
    BY <1>0, <2>2 DEF HandleOther, Taken, IInv, TypeOK
  <2> QED BY <2>1, <2>2
<1>3. TypeOK'
  BY <1>1, <1>2 DEF IInv, TypeOK, config, session
<1>4. RequestedOnce' /\ Requested'
  BY <1>1, <1>2 DEF IInv, RequestedOnce, Requested, config
<1>5. AuthenticatedIsAnswered'
  BY <1>1, <1>2 DEF IInv, AuthenticatedIsAnswered, session
<1>6. MtuNegotiated'
  BY <1>1, <1>2 DEF IInv, MtuNegotiated, Acceptable, PaddedLength, config
<1> QED BY <1>3, <1>4, <1>5, <1>6 DEF IInv

\* The invariant is kept by every step.
THEOREM ExchangeInvariant == Spec => []IInv
<1>1. IInv /\ [Next]_vars => IInv'
  <2> SUFFICES ASSUME IInv, [Next]_vars PROVE IInv'
    OBVIOUS
  <2>1. CASE UNCHANGED vars
    <3>1. UNCHANGED <<header, configured, phase, window, try, batch, asked, mtu, answers, request2_sent,
                      request2_error, standard_sent, authenticated, keys, route, connecting, problems,
                      offers, agreed, verified>>
      BY <2>1 DEF vars, config, progress, opening, session
    <3> QED BY <3>1 DEF IInv, TypeOK, RequestedOnce, AuthenticatedIsAnswered, MtuNegotiated, Requested,
                        Candidates, Acceptable, PaddedLength
  <2> QED BY <2>1, ProgressStep, RequestStep, Reply2Step, RbxReply1Step, OtherStep DEF Next
<1> QED BY <1>1, InitInv, PTL DEF Spec

\* The variables keep their types.
THEOREM ExchangeType == Spec => []TypeOK
<1>1. IInv => TypeOK
  BY DEF IInv
<1> QED BY <1>1, ExchangeInvariant, PTL

\* The Request2 of a join is sent once at most, and missing only for a reason.
THEOREM Request2Once == Spec => []RequestedOnce
<1>1. IInv => RequestedOnce
  BY DEF IInv
<1> QED BY <1>1, ExchangeInvariant, PTL

\* A verified session was asked for, is never thrown away, and has the newest keys
\* and the first header.
THEOREM VerifiedSession == Spec => []AuthenticatedIsAnswered
<1>1. IInv => AuthenticatedIsAnswered
  BY DEF IInv
<1> QED BY <1>1, ExchangeInvariant, PTL

\* The MTU is the smallest on offer, and what is sent respects it.
THEOREM MtuAgreed == Spec => []MtuNegotiated
<1>1. IInv => MtuNegotiated
  BY DEF IInv
<1> QED BY <1>1, ExchangeInvariant, PTL

-----------------------------------------------------------------------------
(* The exchange implements SessionOpening                                  *)

\* Keys and header come with the first verification only.
Unverified == ~authenticated => keys = None /\ route = None

LEMMA UnverifiedStep == Unverified /\ [Next]_vars => Unverified'
<1> SUFFICES ASSUME Unverified, [Next]_vars PROVE Unverified'
  OBVIOUS
<1>1. CASE UNCHANGED session
  BY <1>1 DEF Unverified, session
<1>2. ASSUME NEW e \in Epochs, AcceptReply2(e) PROVE Unverified'
  BY <1>2 DEF AcceptReply2, Unverified
<1>3. ASSUME NEW problem \in Problems, RejectReply2(problem) PROVE Unverified'
  BY <1>3 DEF RejectReply2, Unverified
<1>4. \/ UNCHANGED session
      \/ \E e \in Epochs : AcceptReply2(e)
      \/ \E problem \in Problems : RejectReply2(problem)
  BY DEF Next, vars, Start, SendRequest1, ReceiveFinally, SocketFails, Arrive, EndWindow,
         HandleRbxReply1, HandleReply1, HandleOther, Taken, NextCandidate, Return
<1> QED BY <1>1, <1>2, <1>3, <1>4

OInv == IInv /\ Unverified

\* A first verification finds no header, and every later one finds one.
LEMMA HeaderTellsVerified ==
  ASSUME OInv
  PROVE  authenticated <=> route # None
<1>1. /\ authenticated => verified # <<>> /\ route = verified[1]
      /\ verified \in Seq(Epochs)
  BY DEF OInv, IInv, TypeOK, AuthenticatedIsAnswered
<1>2. verified # <<>> => verified[1] \in Epochs
  BY <1>1
<1> QED BY <1>1, <1>2, ExchangeAssumption DEF OInv, Unverified

\* The steps that are not seen from outside.
LEMMA OpeningStutter ==
  ASSUME UNCHANGED <<request2_sent, route, keys, connecting>>, Outcome' = Outcome
  PROVE  UNCHANGED Opening!vars
  BY DEF Opening!vars

\* The end of the handshake: nobody is given up who was asked.
LEMMA OpeningSettles ==
  ASSUME OInv, UNCHANGED <<request2_sent, route, keys, connecting>>,
         Outcome = "pending", phase' \in {"open", "unanswered", "failed"},
         phase' = "unanswered" => request2_sent = 0
  PROVE  Opening!Next
<1>1. Outcome' = phase'
  BY DEF Outcome
<1>2. Opening!Settle(phase')
  BY <1>1 DEF Opening!Settle
<1> QED BY <1>2 DEF Opening!Next, Opening!Open, Opening!GiveUp, Opening!Fail

\* A Reply2 that is good.
LEMMA OpeningVerifies ==
  ASSUME OInv, NEW e \in Epochs, AcceptReply2(e)
  PROVE  Opening!Next
<1>1. /\ Outcome \in {"pending", "open"} /\ Outcome' = Outcome
      /\ request2_sent > 0 /\ request2_sent' = request2_sent
      /\ keys' = e /\ route' = IF authenticated THEN route ELSE e
      /\ connecting' \in IF authenticated THEN {connecting} ELSE BOOLEAN
  BY DEF AcceptReply2, Receiving, Outcome, progress, opening
<1>2. authenticated <=> route # None
  BY HeaderTellsVerified
<1>3. CASE authenticated
  <2>1. Opening!VerifyAgain(e)
    BY <1>1, <1>2, <1>3 DEF Opening!VerifyAgain
  <2> QED BY <2>1 DEF Opening!Next
<1>4. CASE ~authenticated
  <2>1. Opening!VerifyFirst(e)
    BY <1>1, <1>2, <1>4 DEF Opening!VerifyFirst
  <2> QED BY <2>1 DEF Opening!Next
<1> QED BY <1>3, <1>4

\* A Roblox Reply1: the request leaves, once, or nothing is seen of it.
LEMMA OpeningRequests ==
  ASSUME OInv, HandleRbxReply1
  PROVE  Opening!Next \/ UNCHANGED Opening!vars
<1>1. /\ phase = "handle" /\ phase' = phase /\ UNCHANGED session
      /\ Outcome = "pending" /\ Outcome' = "pending"
  BY DEF HandleRbxReply1, Taken, Outcome
<1>2. request2_sent' = request2_sent \/ (request2_sent = 0 /\ request2_sent' = 1)
  <2> DEFINE m == Head(batch).mtu
  <2>1. \/ request2_sent' = request2_sent
        \/ Acceptable(m) /\ EncryptedRequest2(m)
    BY DEF HandleRbxReply1
  <2>2. CASE request2_sent' = request2_sent
    BY <2>2
  <2>3. CASE Acceptable(m) /\ EncryptedRequest2(m)
    <3> HIDE DEF m
    <3>1. \/ request2_sent = 0 /\ request2_sent' = request2_sent + 1
          \/ request2_sent' = request2_sent
      BY <2>3 DEF EncryptedRequest2, MaySendRequest2
    <3> QED BY <3>1
  <2> QED BY <2>1, <2>2, <2>3
<1>3. CASE request2_sent' = request2_sent
  BY <1>1, <1>3, OpeningStutter DEF session
<1>4. CASE request2_sent = 0 /\ request2_sent' = 1
  <2>1. Opening!Request
    BY <1>1, <1>4 DEF Opening!Request, session
  <2> QED BY <2>1 DEF Opening!Next
<1> QED BY <1>2, <1>3, <1>4

LEMMA OpeningStep == OInv /\ [Next]_vars => [Opening!Next]_(Opening!vars)
<1> SUFFICES ASSUME OInv, [Next]_vars
             PROVE  Opening!Next \/ UNCHANGED Opening!vars
  OBVIOUS
<1>1. CASE UNCHANGED vars
  BY <1>1, OpeningStutter DEF vars, progress, opening, session, Outcome
<1>2. CASE \/ Start \/ SendRequest1 \/ ReceiveFinally \/ EndWindow \/ NextCandidate
           \/ \E p \in Packets : Arrive(p)
  <2>1. /\ UNCHANGED <<request2_sent, route, keys, connecting>>
        /\ phase \in {"start", "next", "receive", "handle"}
        /\ phase' \in {"start", "next", "receive", "handle"}
    BY <1>2 DEF Start, SendRequest1, ReceiveFinally, EndWindow, NextCandidate, Arrive,
                opening, session
  <2>2. Outcome' = Outcome
    BY <2>1 DEF Outcome
  <2> QED BY <2>1, <2>2, OpeningStutter
<1>3. ASSUME NEW problem \in Problems, RejectReply2(problem)
      PROVE  UNCHANGED Opening!vars
  BY <1>3, OpeningStutter DEF RejectReply2, progress, opening, Outcome
<1>4. CASE SocketFails
  <2>1. /\ UNCHANGED <<request2_sent, route, keys, connecting>> /\ phase' = "failed"
        /\ Outcome = "pending"
    BY <1>4 DEF SocketFails, opening, session, Outcome
  <2> QED BY <2>1, OpeningSettles
<1>5. CASE HandleReply1 \/ HandleOther
  <2>1. /\ UNCHANGED <<request2_sent, route, keys, connecting>>
        /\ phase = "handle" /\ phase' \in {"handle", "failed"}
        /\ Outcome = "pending"
    BY <1>5 DEF HandleReply1, HandleOther, Taken, session, Outcome
  <2>2. CASE phase' = "handle"
    <3>1. Outcome' = Outcome
      BY <2>1, <2>2 DEF Outcome
    <3> QED BY <2>1, <3>1, OpeningStutter
  <2>3. CASE phase' = "failed"
    BY <2>1, <2>3, OpeningSettles
  <2> QED BY <2>1, <2>2, <2>3
<1>6. CASE Return
  <2>1. /\ UNCHANGED <<request2_sent, route, keys, connecting>>
        /\ Outcome = "pending" /\ phase' = IF answers # {} THEN "open" ELSE "unanswered"
    BY <1>6 DEF Return, opening, session, Outcome
  <2>2. phase' = "unanswered" => request2_sent = 0
    BY <2>1 DEF OInv, IInv, Requested, RequestedOnce
  <2> QED BY <2>1, <2>2, OpeningSettles
<1> QED
  BY <1>1, <1>2, <1>3, <1>4, <1>5, <1>6, OpeningVerifies, OpeningRequests DEF Next

\* For every MTU, offer, epoch and padding the exchange opens a session as
\* SessionOpening says; in particular handshake never returns false for a client
\* whose Request2 has left, so that a session is not verified and then given up.
THEOREM ExchangeImplementsOpening == Spec => OpeningSpec
<1>1. Init => Opening!Init /\ Unverified
  BY DEF Init, Opening!Init, Outcome, Unverified
<1>2. Spec => []OInv
  BY <1>1, UnverifiedStep, ExchangeInvariant, PTL DEF Spec, OInv
<1>3. Init => Opening!Init
  BY <1>1
<1> QED
  BY <1>2, <1>3, OpeningStep, PTL DEF Spec, OpeningSpec, Opening!Spec

=============================================================================
