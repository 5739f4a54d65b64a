----------------------------- MODULE OpenExchange -----------------------------
(***************************************************************************)
(* How a session is opened: RakNetClient.handshake of rift_headless.py,    *)
(* the encrypted Request2 of request2_adapter.py, and the verification of  *)
(* the server's Reply2, which goes on while the session is open.           *)
(*                                                                         *)
(* The client sends a Request1 for each candidate and collects what        *)
(* arrives for a while; a Reply2 is verified at once, everything else is   *)
(* looked at when the window has ended.  The server is external: it may    *)
(* answer what was sent, any number of times and at any later instant.     *)
(* A Reply2 is known by the epoch of its key exchange, and by what becomes *)
(* of it: it fails to open, opens without a usable key, or is good.        *)
(***************************************************************************)
EXTENDS Integers, Sequences

CONSTANTS
  InitialMtu,   \* the mtu argument of RakNetClient
  ReplyMtus,    \* the MTUs a Reply1 of the server may offer
  Epochs,       \* the key exchanges the server may answer with
  PadLength,    \* request2_config["pad_length"], or 0 when there is none; the
                \* Request2 without padding is left out
  PayloadOnly,  \* request2_config["payload_only"]
  MaxBatch,     \* bound: packets that wait for the end of a window
  MaxVerified   \* bound: good Reply2 packets

None == "none"
Smallest(a, b) == IF a < b THEN a ELSE b

ASSUME ExchangeAssumption ==
  /\ InitialMtu \in Nat
  /\ ReplyMtus \subseteq Nat
  /\ None \notin Epochs
  /\ PadLength \in Nat
  /\ PayloadOnly \in BOOLEAN
  /\ MaxBatch \in Nat /\ MaxVerified \in Nat

VARIABLES
  header,         \* a UDMUX header was supplied
  configured,     \* request2_config has a candidate, and there is a session context
  phase,          \* "start", "next", "receive", "handle", "open", "unanswered" or "failed"
  window,         \* what is received for: "pong", "reply" or "final"
  try,            \* the candidates used so far
  batch,          \* the packets of this window
  asked,          \* the MTU of the last Request1
  mtu,            \* self.mtu
  answers,        \* the counters pongs, open_reply_1, rbx_reply_1, open_reply_2 above 0
  request2_sent,  \* stats["request2_sent"]
  request2_error, \* stats["request2_error"] is set
  standard_sent,  \* a standard Request2 was sent
  authenticated,  \* stats["authenticated"]
  keys,           \* the epoch of the established keys
  route,          \* the epoch of established_header
  connecting,     \* app_connection_sent
  problems,       \* stats: reply2_auth_required, established_key_derivation_error
  offers,         \* history: the acceptable MTUs of the Reply1 packets handled
  agreed,         \* history: the MTU in the Request2, or 0
  verified        \* history: the epochs of the good Reply2 packets, in order

config == <<header, configured>>
progress == <<phase, window, try, batch>>
opening == <<asked, mtu, answers, request2_sent, request2_error, standard_sent, offers, agreed>>
session == <<authenticated, keys, route, connecting, problems, verified>>
vars == <<config, progress, opening, session>>

Problems == {"auth_required", "key_derivation"}

\* The packets of the server, and when it may send them.
Packets ==
  [kind : {"pong", "reply_1", "reply_2"}] \cup
  [kind : {"rbx_reply_1"}, mtu : ReplyMtus]

MayArrive(p) ==
  CASE p.kind = "pong" -> ~header
    [] p.kind = "reply_2" -> standard_sent
    [] OTHER -> try > 0

Init ==
  /\ header \in BOOLEAN
  /\ configured \in BOOLEAN
  /\ phase = "start"
  /\ window = "pong"
  /\ try = 0
  /\ batch = <<>>
  /\ asked = 0
  /\ mtu = InitialMtu
  /\ answers = {}
  /\ request2_sent = 0 /\ request2_error = FALSE /\ standard_sent = FALSE
  /\ authenticated = FALSE
  /\ keys = None /\ route = None
  /\ connecting = FALSE
  /\ problems = {}
  /\ offers = {} /\ agreed = 0
  /\ verified = <<>>

-----------------------------------------------------------------------------
(* Requests                                                                *)

\* handshake: a client without a header probes with a ping first.
Start ==
  /\ phase = "start"
  /\ phase' = IF header THEN "next" ELSE "receive"
  /\ UNCHANGED <<config, window, try, batch, opening, session>>

\* The MTUs of the candidates; the tuple is built once, before the first Request1.
Candidates == IF header THEN <<1160, InitialMtu, 1200, InitialMtu, 1200>>
                        ELSE <<InitialMtu, 1200, InitialMtu, 1200>>

\* Mutant: a padded Request1 is as long as its candidate says.
Request1MtuUnbounded(candidate) == candidate

\* _build_open_request1: with a header the datagram is padded, to what was negotiated.
Request1Mtu(candidate) == IF header THEN Smallest(candidate, mtu) ELSE candidate

\* Mutant: every other candidate is left out.
SendRequest1Skipping ==
  /\ phase = "next"
  /\ try < Len(Candidates)
  /\ try' = try + 2
  /\ asked' = Request1Mtu(Candidates[try + 1])
  /\ phase' = "receive"
  /\ window' = "reply"
  /\ UNCHANGED <<config, batch, mtu, answers, request2_sent, request2_error, standard_sent,
                 offers, agreed, session>>

SendRequest1 ==
  /\ phase = "next"
  /\ try < Len(Candidates)
  /\ try' = try + 1
  /\ asked' = Request1Mtu(Candidates[try + 1])
  /\ phase' = "receive"
  /\ window' = "reply"
  /\ UNCHANGED <<config, batch, mtu, answers, request2_sent, request2_error, standard_sent,
                 offers, agreed, session>>

\* After the last candidate it receives once more.
ReceiveFinally ==
  /\ phase = "next"
  /\ try = Len(Candidates)
  /\ phase' = "receive"
  /\ window' = "final"
  /\ UNCHANGED <<config, try, batch, opening, session>>

\* The socket raises OSError in a send or a receive that nobody guards.
SocketFails ==
  /\ phase \in {"start", "next", "receive"}
  /\ phase' = "failed"
  /\ UNCHANGED <<config, window, try, batch, opening, session>>

-----------------------------------------------------------------------------
(* What arrives                                                            *)

\* A packet that waits for the end of the window.
Arrive(p) ==
  /\ phase = "receive"
  /\ Len(batch) < MaxBatch
  /\ MayArrive(p)
  /\ batch' = Append(batch, p)
  /\ UNCHANGED <<config, phase, window, try, opening, session>>

EndWindow ==
  /\ phase = "receive"
  /\ phase' = "handle"
  /\ UNCHANGED <<config, window, try, batch, opening, session>>

\* _recv_until is also what the open session receives with.
Receiving == phase \in {"receive", "open"}

\* A Reply2 that does not open, or opens without a usable public key, changes
\* what is reported and nothing else.
RejectReply2(problem) ==
  /\ Receiving
  /\ request2_sent > 0
  /\ problems' = problems \cup {problem}
  /\ UNCHANGED <<config, progress, opening, authenticated, keys, route, connecting, verified>>

\* _try_decrypt_session_frame: every good Reply2 replaces the keys;
\* _promote_reply2: the first one only sets the header and has the connection
\* request sent, whose OSError is caught.
AcceptReply2(e) ==
  /\ Receiving
  /\ request2_sent > 0
  /\ Len(verified) < MaxVerified
  /\ keys' = e
  /\ verified' = Append(verified, e)
  /\ authenticated' = TRUE
  /\ route' = IF authenticated THEN route ELSE e
  /\ connecting' \in IF authenticated THEN {connecting} ELSE BOOLEAN
  /\ problems' = problems \ {"key_derivation"}
  /\ UNCHANGED <<config, progress, opening>>

-----------------------------------------------------------------------------
(* What is looked at when the window has ended                             *)

Acceptable(m) == m \in 576..1492

\* The length build_encrypted_request2 pads a Request2 to.
PaddedLength(m) == IF PadLength > 0 THEN PadLength ELSE IF PayloadOnly THEN 31 + m ELSE m

\* Mutant: Request2 is sent for every Reply1.
MaySendRequest2Again == header /\ configured

MaySendRequest2 == header /\ configured /\ request2_sent = 0

\* _send_encrypted_request2: leaves, or fails to be built or sent, which is caught;
\* a configuration that lacks a part is an error or sends nothing.
EncryptedRequest2(m) ==
  \/ /\ MaySendRequest2
     /\ Acceptable(PaddedLength(m))
     /\ request2_sent' = request2_sent + 1
     /\ agreed' = m
     /\ UNCHANGED request2_error
  \/ /\ MaySendRequest2
     /\ request2_error' = TRUE
     /\ UNCHANGED <<request2_sent, agreed>>
  \/ /\ ~MaySendRequest2
     /\ request2_error' \in IF header /\ configured THEN {request2_error}
                                                  ELSE {request2_error, TRUE}
     /\ UNCHANGED <<request2_sent, agreed>>

Taken(kind) ==
  /\ phase = "handle" /\ batch # <<>>
  /\ Head(batch).kind = kind
  /\ batch' = Tail(batch)
  /\ UNCHANGED <<config, window, try, session>>

\* 0x7e counts before it is parsed; one whose MTU is refused has no other effect.
HandleRbxReply1 ==
  /\ Taken("rbx_reply_1") /\ window = "reply"
  /\ answers' = answers \cup {"rbx_reply_1"}
  /\ LET m == Head(batch).mtu IN
       IF Acceptable(m) THEN /\ mtu' = Smallest(mtu, m)
                             /\ offers' = offers \cup {m}
                             /\ EncryptedRequest2(m)
       ELSE UNCHANGED <<mtu, offers, agreed, request2_sent, request2_error>>
  /\ UNCHANGED <<phase, asked, standard_sent>>

\* 0x06 is answered with a standard Request2 each time, unless it is too short or
\* the send raises.
HandleReply1 ==
  /\ Taken("reply_1") /\ window = "reply"
  /\ answers' = answers \cup {"reply_1"}
  /\ \/ standard_sent' = TRUE /\ UNCHANGED phase
     \/ phase' = "failed" /\ UNCHANGED standard_sent
     \/ UNCHANGED <<phase, standard_sent>>
  /\ UNCHANGED <<asked, mtu, request2_sent, request2_error, offers, agreed>>

\* A pong counts in the first window, 0x08 in the last, anything else nowhere.
Counts(p) == <<window, p.kind>> \in {<<"pong", "pong">>, <<"final", "reply_2">>}

HandleOther ==
  /\ \E kind \in {"pong", "reply_1", "reply_2", "rbx_reply_1"} : Taken(kind)
  /\ window = "reply" => Head(batch).kind \in {"pong", "reply_2"}
  /\ answers' = answers \cup {kind \in {Head(batch).kind} : Counts(Head(batch))}
  /\ UNCHANGED <<phase, asked, mtu, request2_sent, request2_error, standard_sent, offers, agreed>>

NextCandidate ==
  /\ phase = "handle" /\ batch = <<>> /\ window # "final"
  /\ phase' = "next"
  /\ UNCHANGED <<config, window, try, batch, opening, session>>

\* Mutant: only the answers of a stock server open the session.
ReturnStock ==
  /\ phase = "handle" /\ batch = <<>> /\ window = "final"
  /\ phase' = IF answers \ {"rbx_reply_1"} # {} THEN "open" ELSE "unanswered"
  /\ UNCHANGED <<config, window, try, batch, opening, session>>

\* handshake returns, and run goes on when anything at all was counted.
Return ==
  /\ phase = "handle" /\ batch = <<>> /\ window = "final"
  /\ phase' = IF answers # {} THEN "open" ELSE "unanswered"
  /\ UNCHANGED <<config, window, try, batch, opening, session>>

Next ==
  \/ Start
  \/ SendRequest1
  \/ ReceiveFinally
  \/ SocketFails
  \/ \E p \in Packets : Arrive(p)
  \/ EndWindow
  \/ \E problem \in Problems : RejectReply2(problem)
  \/ \E e \in Epochs : AcceptReply2(e)
  \/ HandleRbxReply1
  \/ HandleReply1
  \/ HandleOther
  \/ NextCandidate
  \/ Return

Spec == Init /\ [][Next]_vars

-----------------------------------------------------------------------------
(* Properties                                                              *)

\* The variables keep their types.
TypeOK ==
  /\ header \in BOOLEAN /\ configured \in BOOLEAN
  /\ phase \in {"start", "next", "receive", "handle", "open", "unanswered", "failed"}
  /\ window \in {"pong", "reply", "final"}
  /\ try \in 0..Len(Candidates)
  /\ batch \in Seq(Packets) /\ Len(batch) <= MaxBatch
  /\ asked \in Nat /\ mtu \in Nat /\ agreed \in Nat
  /\ answers \subseteq {"pong", "reply_1", "rbx_reply_1", "reply_2"}
  /\ request2_sent \in Nat
  /\ request2_error \in BOOLEAN /\ standard_sent \in BOOLEAN
  /\ authenticated \in BOOLEAN /\ connecting \in BOOLEAN
  /\ {keys, route} \subseteq Epochs \cup {None}
  /\ problems \subseteq Problems
  /\ offers \subseteq ReplyMtus
  /\ verified \in Seq(Epochs) /\ Len(verified) <= MaxVerified

\* The encrypted Request2 of a join is sent once, however many Reply1 packets of how
\* many windows there are and whatever failed before; and it is not sent only if no
\* Reply1 was acceptable or each attempt failed.
RequestedOnce ==
  /\ request2_sent \in {0, 1}
  /\ header /\ configured /\ offers # {} /\ request2_sent = 0 => request2_error

\* A verified session was asked for and belongs to an exchange that run takes for
\* answered: a Reply2 verified in the middle of the handshake is never thrown away
\* with a handshake that returns false.  Its keys are those of the newest good Reply2
\* and its header is that of the first.
AuthenticatedIsAnswered ==
  /\ authenticated <=> verified # <<>>
  /\ authenticated =>
       /\ request2_sent = 1
       /\ "rbx_reply_1" \in answers
       /\ phase # "unanswered"
       /\ route = verified[1] /\ keys = verified[Len(verified)]
  /\ connecting => authenticated

\* The MTU is the smallest acceptable one on offer, the Request2 repeats an offer of
\* the server and fits a datagram, and a padded Request1 is no longer than the MTU.
MtuNegotiated ==
  /\ mtu \in offers \cup {InitialMtu}
  /\ \A m \in offers \cup {InitialMtu} : mtu <= m
  /\ request2_sent > 0 => agreed \in offers /\ Acceptable(PaddedLength(agreed))
  /\ header /\ phase = "receive" /\ window = "reply" => asked <= mtu

-----------------------------------------------------------------------------
(* What is promised to run                                                 *)

Outcome == IF phase \in {"open", "unanswered", "failed"} THEN phase ELSE "pending"

Opening == INSTANCE SessionOpening WITH
  outcome   <- Outcome,
  requested <- request2_sent > 0,
  header    <- route

\* The exchange opens a session as SessionOpening says: one request, verification
\* only after it and as often as the server likes, the header of the first and the
\* keys of the newest, and no client that has sent its Request2 gives up as if
\* nobody had answered.
OpeningSpec == Opening!Spec

=============================================================================
