---------------------------- MODULE ClientSession ----------------------------
(***************************************************************************)
(* RakNetClient of rift_headless.py after the open exchange: what it does  *)
(* with the datagrams of the server.                                       *)
(*                                                                         *)
(* Reply2 promotes the session, which sends the connection request.  Each  *)
(* later datagram is parsed and reassembled as a whole (ReplicatorState.   *)
(* apply); then its complete messages are handled in order, each by        *)
(* queueing reliable answers, then the lifecycle profile is sent, and      *)
(* only then is the datagram acknowledged.  An exception in a handler is   *)
(* either caught inside it, and the datagram goes on, or it leaves         *)
(* _try_decrypt_established: the rest of the datagram is skipped and there *)
(* is no acknowledgement.  A send raises OSError after the payload is      *)
(* tracked, and BufferError, with nothing tracked, when the window is full.*)
(*                                                                         *)
(* The server resends what is not acknowledged, the network loses, repeats *)
(* and reorders: a datagram may arrive at any time and any number of times.*)
(* The client keeps no record of what it has received.                     *)
(***************************************************************************)
EXTENDS Integers, Sequences, FiniteSets

CONSTANTS
  Messages,           \* the messages of the server
  KindOf,             \* what each of them is
  PartsOf,            \* in how many frames it comes
  Datagrams,          \* sequences of frames [message, part]
  Bootstrap,          \* the answer to the dictionary (0x90, 0x92, 0x8A, 0x8F)
  Profile,            \* the configured lifecycle payloads, in sending order
  Malformed,          \* of these and of the acceptances, the ones that do not parse
  MaxWindow,          \* ReliabilityWindow.max_pending
  RequestsCharacter,  \* lifecycle.request_character_after_marker
  MaxRaised           \* bound: exceptions raised by sends of reliable payloads

\* An 0x83 message is "data", or a "token" if it parses as a progress token.
Kinds == {"accepted", "ping", "dictionary", "marker", "token", "challenge", "data", "other"}

Names == {"connection_request", "new_incoming_connection", "marker_echo",
          "request_character", "challenge_response"}

BootstrapNames == {Bootstrap[i] : i \in 1 .. Len(Bootstrap)}

ProfileNames == {Profile[i] : i \in 1 .. Len(Profile)}

\* The acknowledgement of a progress token is named by its message.
Payloads == Names \cup BootstrapNames \cup ProfileNames \cup Messages

ASSUME SessionAssumption ==
  /\ KindOf \in [Messages -> Kinds]
  /\ PartsOf \in [Messages -> Nat \ {0}]
  /\ \A d \in Datagrams :
       /\ d # <<>>
       /\ d \in Seq([message : Messages, part : Nat])
       /\ \A i \in 1 .. Len(d) : d[i].part < PartsOf[d[i].message]
       /\ \A i, j \in 1 .. Len(d) : d[i].message = d[j].message => i = j
  /\ Bootstrap \in Seq(BootstrapNames)
  /\ \A i, j \in 1 .. Len(Bootstrap) : Bootstrap[i] = Bootstrap[j] => i = j
  /\ Profile \in Seq(ProfileNames)
  /\ \A i, j \in 1 .. Len(Profile) : Profile[i] = Profile[j] => i = j
  /\ \A i \in 1 .. Len(Profile) : Profile[i] = "physics" => i = Len(Profile)
  /\ Malformed \subseteq ProfileNames \cup {m \in Messages : KindOf[m] = "accepted"}
  /\ Names \cap (Messages \cup BootstrapNames) = {}
  /\ Messages \cap BootstrapNames = {}
  /\ ProfileNames \cap (Names \cup BootstrapNames \cup Messages) = {}
  /\ "nothing" \notin Messages \cup ProfileNames /\ "bootstrap" \notin Payloads
  /\ MaxWindow \in Nat \ {0}
  /\ RequestsCharacter \in BOOLEAN
  /\ MaxRaised \in Nat

VARIABLES
  open,           \* no exception has left RakNetClient.run
  authenticated,  \* stats["authenticated"]
  registered,     \* ReplicatorState.replicator_registered
  done,           \* the once-only flags that are set
  parts,          \* the reassembler: message -> the frames it holds
  current,        \* the datagram being handled, or <<>>
  inbox,          \* what is left to do before it is acknowledged
  queued,         \* how often each payload was tracked, as far as it is counted
  waiting,        \* frames in the reliability window
  acked,          \* the datagrams the client has acknowledged
  handled,        \* the messages whose handler has returned
  raised,         \* how many sends of reliable payloads have raised
  cut             \* history: an exception has skipped the rest of a datagram

vars == <<open, authenticated, registered, done, parts, current, inbox, queued,
          waiting, acked, handled, raised, cut>>

\* The payloads that are meant to be sent once: of the profile all but the
\* physics, which the service repeats.
OncePayloads ==
  {"connection_request", "new_incoming_connection"} \cup (ProfileNames \ {"physics"})
    \cup BootstrapNames
    \cup {m \in Messages : KindOf[m] = "token"}

\* How far they are counted: more often than the exceptions explain.
Many == MaxRaised + 2

Idle == open /\ current = <<>>

Init ==
  /\ open = TRUE
  /\ authenticated = FALSE
  /\ registered = FALSE
  /\ done = {}
  /\ parts = [m \in Messages |-> {}]
  /\ current = <<>>
  /\ inbox = <<>>
  /\ queued = [p \in Payloads |-> 0]
  /\ waiting = 0
  /\ acked = {}
  /\ handled = {}
  /\ raised = 0
  /\ cut = FALSE

-----------------------------------------------------------------------------
(* Queueing reliable payloads                                              *)

\* Of what is sent again and again it only matters whether it was sent.
Limit(p) == IF p \in OncePayloads THEN Many ELSE 1

\* The first k payloads of `reply` are tracked (and all but a failing one sent).
Track(reply, k) ==
  /\ queued' = [p \in Payloads |->
                  IF \E i \in 1 .. k : reply[i] = p /\ queued[p] < Limit(p)
                  THEN queued[p] + 1 ELSE queued[p]]
  /\ waiting' = waiting + k

\* What the handler of an item sends.
Reply(x) ==
  IF x \in ProfileNames THEN <<x>>
  ELSE IF x \notin Messages THEN <<>>
  ELSE CASE KindOf[x] = "accepted"   -> <<"new_incoming_connection">>
         [] KindOf[x] = "dictionary" -> Bootstrap
         [] KindOf[x] = "marker"     ->
              IF RequestsCharacter THEN <<"marker_echo", "request_character">>
              ELSE <<"marker_echo">>
         [] KindOf[x] = "token"      -> <<x>>
         [] KindOf[x] = "challenge"  -> <<"challenge_response">>
         [] OTHER                    -> <<>>

\* The flag that a handler tests first and sets last, if it has one.
Flag(x) ==
  IF x \in ProfileNames THEN {x}
  ELSE IF x \notin Messages THEN {}
  ELSE CASE KindOf[x] = "accepted"   -> {"new_incoming_connection"}
         [] KindOf[x] = "dictionary" -> {"bootstrap"}
         [] KindOf[x] = "token"      -> {x}
         [] OTHER                    -> {}

\* The handlers that catch OSError themselves.  None of them catches BufferError.
Catches(x) == x \in Messages /\ KindOf[x] \in {"dictionary", "marker", "challenge"}

-----------------------------------------------------------------------------
(* From Reply2 to the connection request                                   *)

\* Mutant: every Reply2 promotes the session again.
PromoteAgain(sent) ==
  /\ Idle
  /\ authenticated' = TRUE
  /\ Track(<<"connection_request">>, 1)
  /\ done' = IF sent THEN done \cup {"connection_request"} ELSE done
  /\ sent \/ raised < MaxRaised
  /\ raised' = IF sent THEN raised ELSE raised + 1
  /\ UNCHANGED <<open, registered, parts, current, inbox, acked, handled, cut>>

\* _promote_reply2, once, and _send_app_connection_request, whose OSError is
\* caught; the frame is tracked either way.
Promote(sent) ==
  /\ Idle
  /\ ~authenticated
  /\ authenticated' = TRUE
  /\ Track(<<"connection_request">>, 1)
  /\ done' = IF sent THEN done \cup {"connection_request"} ELSE done
  /\ sent \/ raised < MaxRaised
  /\ raised' = IF sent THEN raised ELSE raised + 1
  /\ UNCHANGED <<open, registered, parts, current, inbox, acked, handled, cut>>

-----------------------------------------------------------------------------
(* A datagram                                                              *)

All(m) == 0 .. PartsOf[m] - 1

\* The frame brings the last missing part of its message.
Completes(f) == parts[f.message] \cup {f.part} = All(f.message)

\* A finished group leaves the reassembler.
Collected(m, p) ==
  IF parts[m] \cup {p} = All(m) THEN {} ELSE parts[m] \cup {p}

\* Every 0x83 message of at least two bytes registers the replicator.
Registers(d) ==
  \E i \in 1 .. Len(d) : Completes(d[i]) /\ KindOf[d[i].message] \in {"data", "token"}

\* Mutant: the profile is sent before the messages are handled, last name first.
StepsReversed(d, profile) ==
  [i \in 1 .. Len(profile) |-> profile[Len(profile) + 1 - i]]
    \o [i \in 1 .. Len(d) |-> IF Completes(d[i]) THEN d[i].message ELSE "nothing"]

\* The handlers to run, then _send_lifecycle_profile.
Steps(d, profile) ==
  [i \in 1 .. Len(d) |-> IF Completes(d[i]) THEN d[i].message ELSE "nothing"] \o profile

\* Mutant: the datagram is acknowledged as soon as it is parsed.
ReceiveAcknowledging(d) ==
  /\ Idle
  /\ authenticated
  /\ parts' = [m \in Messages |->
                 IF \E i \in 1 .. Len(d) : d[i].message = m
                 THEN Collected(m, (CHOOSE f \in {d[i] : i \in 1 .. Len(d)} : f.message = m).part)
                 ELSE parts[m]]
  /\ registered' = (registered \/ Registers(d))
  /\ current' = d
  /\ inbox' = Steps(d, IF registered' THEN Profile ELSE <<>>)
  /\ acked' = acked \cup {d}
  /\ UNCHANGED <<open, authenticated, done, queued, waiting, handled, raised, cut>>

\* Decryption and ReplicatorState.apply, for the whole datagram.
Receive(d) ==
  /\ Idle
  /\ authenticated
  /\ parts' = [m \in Messages |->
                 IF \E i \in 1 .. Len(d) : d[i].message = m
                 THEN Collected(m, (CHOOSE f \in {d[i] : i \in 1 .. Len(d)} : f.message = m).part)
                 ELSE parts[m]]
  /\ registered' = (registered \/ Registers(d))
  /\ current' = d
  /\ inbox' = Steps(d, IF registered' THEN Profile ELSE <<>>)
  /\ UNCHANGED <<open, authenticated, done, queued, waiting, acked, handled, raised,
                 cut>>

Busy == open /\ current # <<>> /\ inbox # <<>>

\* The handler of the item is to send something, and can build it.
Tries(x) == Reply(x) # <<>> /\ Flag(x) \cap done = {}
Sends(x) == Tries(x) /\ x \notin Malformed

\* The handler of x returns, and the next item is taken up.
Return(x) ==
  /\ inbox' = Tail(inbox)
  /\ handled' = handled \cup ({x} \cap Messages)
  /\ UNCHANGED <<current, acked, cut>>

\* The exception leaves _try_decrypt_established.
Escape ==
  /\ inbox' = <<>>
  /\ current' = <<>>
  /\ cut' = TRUE
  /\ UNCHANGED <<acked, handled>>

\* Nothing to send: an incomplete message, a kind without an answer, a pong
\* that leaves, or an answer that is marked as sent.
Pass(x) ==
  /\ ~Tries(x)
  /\ Return(x)
  /\ UNCHANGED <<done, queued, waiting, raised>>

\* An exception with nothing tracked: the pong is untracked and its OSError is
\* not caught, and neither is the ValueError of what does not parse.
Raises(x) ==
  /\ \/ x \in Messages /\ KindOf[x] = "ping"
     \/ Tries(x) /\ x \in Malformed
  /\ Escape
  /\ UNCHANGED <<done, queued, waiting, raised>>

\* Mutant: the window takes one frame too many.
AnswerOverfull(x) ==
  /\ Sends(x)
  /\ waiting + Len(Reply(x)) <= MaxWindow + 1
  /\ Track(Reply(x), Len(Reply(x)))
  /\ done' = done \cup Flag(x)
  /\ Return(x)
  /\ UNCHANGED raised

\* Mutant: the flag is not set after the sends.
AnswerUnflagged(x) ==
  /\ Sends(x)
  /\ waiting + Len(Reply(x)) <= MaxWindow
  /\ Track(Reply(x), Len(Reply(x)))
  /\ Return(x)
  /\ UNCHANGED <<done, raised>>

\* Every payload is tracked and leaves, and the flag is set.
Answer(x) ==
  /\ Sends(x)
  /\ waiting + Len(Reply(x)) <= MaxWindow
  /\ Track(Reply(x), Len(Reply(x)))
  /\ done' = done \cup Flag(x)
  /\ Return(x)
  /\ UNCHANGED raised

\* Mutant: the flag is set before the sends.
SendRaisesFlagged(x, k) ==
  /\ Sends(x)
  /\ waiting + k <= MaxWindow
  /\ Track(Reply(x), k)
  /\ raised < MaxRaised
  /\ raised' = raised + 1
  /\ IF Catches(x) THEN Return(x) ELSE Escape
  /\ done' = done \cup Flag(x)

\* The k-th payload is tracked, and its datagram raises OSError.
SendRaises(x, k) ==
  /\ Sends(x)
  /\ waiting + k <= MaxWindow
  /\ Track(Reply(x), k)
  /\ raised < MaxRaised
  /\ raised' = raised + 1
  /\ IF Catches(x) THEN Return(x) ELSE Escape
  /\ UNCHANGED done

\* BufferError: as many payloads are tracked as there is room for.
WindowRefuses(x) ==
  /\ Sends(x)
  /\ waiting + Len(Reply(x)) > MaxWindow
  /\ Track(Reply(x), MaxWindow - waiting)
  /\ raised < MaxRaised
  /\ raised' = raised + 1
  /\ Escape
  /\ UNCHANGED done

Handle ==
  /\ Busy
  /\ \/ Pass(Head(inbox))
     \/ Raises(Head(inbox))
     \/ Answer(Head(inbox))
     \/ \E k \in 1 .. Len(Reply(Head(inbox))) : SendRaises(Head(inbox), k)
     \/ WindowRefuses(Head(inbox))
  /\ UNCHANGED <<open, authenticated, registered, parts>>

\* build_ack comes last; its OSError is swallowed.
Acknowledge(sent) ==
  /\ open
  /\ current # <<>>
  /\ inbox = <<>>
  /\ acked' = IF sent THEN acked \cup {current} ELSE acked
  /\ current' = <<>>
  /\ UNCHANGED <<open, authenticated, registered, done, parts, inbox, queued,
                 waiting, handled, raised, cut>>

-----------------------------------------------------------------------------
(* Between datagrams                                                       *)

\* An ACK of the server releases a frame (ReliableSender has the details).
Release ==
  /\ Idle
  /\ waiting > 0
  /\ waiting' = waiting - 1
  /\ UNCHANGED <<open, authenticated, registered, done, parts, current, inbox,
                 queued, acked, handled, raised, cut>>

\* _service_lifecycle sends a heartbeat, a ping or a timestamp; its OSError
\* comes after the frame is tracked and ends the session.
Service(sent) ==
  /\ Idle
  /\ authenticated /\ registered
  /\ waiting < MaxWindow
  /\ waiting' = waiting + 1
  /\ open' = sent
  /\ UNCHANGED <<authenticated, registered, done, parts, current, inbox, queued,
                 acked, handled, raised, cut>>

\* Its last send is the physics payload of the profile, again and again, whether
\* the profile has sent it or not: the clock of the samples starts long overdue.
SamplePhysics(sent) ==
  /\ Idle
  /\ authenticated /\ registered
  /\ "physics" \in ProfileNames \ Malformed
  /\ waiting < MaxWindow
  /\ Track(<<"physics">>, 1)
  /\ open' = sent
  /\ UNCHANGED <<authenticated, registered, done, parts, current, inbox, acked,
                 handled, raised, cut>>

\* The run loop or the service raises before it tracks anything (a full window,
\* a payload that does not parse, a send), or its time is over.
End ==
  /\ Idle
  /\ open' = FALSE
  /\ UNCHANGED <<authenticated, registered, done, parts, current, inbox, queued,
                 waiting, acked, handled, raised, cut>>

Next ==
  \/ \E sent \in BOOLEAN :
       Promote(sent) \/ Acknowledge(sent) \/ Service(sent) \/ SamplePhysics(sent)
  \/ \E d \in Datagrams : Receive(d)
  \/ Handle
  \/ Release \/ End

Spec == Init /\ [][Next]_vars

-----------------------------------------------------------------------------
(* Properties                                                              *)

\* The types; only the datagram at hand has something left to do, and the
\* window holds at most max_pending frames whatever is raised on the way.
TypeOK ==
  /\ open \in BOOLEAN /\ authenticated \in BOOLEAN /\ registered \in BOOLEAN
  /\ done \subseteq Payloads \cup {"bootstrap"}
  /\ \A m \in Messages : parts[m] \subseteq All(m) /\ parts[m] # All(m)
  /\ current \in Datagrams \cup {<<>>}
  /\ inbox \in Seq(Messages \cup ProfileNames \cup {"nothing"})
  /\ current = <<>> => inbox = <<>>
  /\ queued \in [Payloads -> 0 .. Many]
  /\ waiting \in 0 .. MaxWindow
  /\ acked \subseteq Datagrams
  /\ handled \subseteq Messages
  /\ raised \in 0 .. MaxRaised
  /\ cut \in BOOLEAN

\* A flag is set only when everything it stands for is in the reliable channel,
\* however often the handlers were interrupted on the way.
FlagMeansQueued ==
  /\ \A x \in Messages \cup ProfileNames :
       Flag(x) \subseteq done =>
         \A i \in 1 .. Len(Reply(x)) : Flag(x) = {} \/ queued[Reply(x)[i]] > 0
  /\ "connection_request" \in done => queued["connection_request"] > 0

\* Repeated and reordered datagrams alone never make the client queue twice what
\* it sends once: every repetition takes an exception of its own.
EachRepeatHasAnException ==
  \A p \in OncePayloads : queued[p] <= 1 + raised

\* Before Reply2 promotes the session no reliable payload is queued, and the
\* connection request, first of them, is never queued again.
ConnectionRequestFirst ==
  (\E p \in Payloads : queued[p] > 0) => authenticated /\ queued["connection_request"] = 1

\* The lifecycle payloads are queued in their order, and only for a registered
\* replicator, also when some of them were refused or sent in an earlier datagram.
\* The service sends the physics payload, too, and does not look at the others:
\* until an exception has cut a datagram short it comes after them all the same,
\* and when the profile has sent it they are all there.
ProfileInOrder ==
  \A j \in 1 .. Len(Profile) : queued[Profile[j]] > 0 =>
    /\ registered
    /\ Profile[j] # "physics" \/ ~cut \/ "physics" \in done
         => \A i \in 1 .. j : queued[Profile[i]] > 0

\* A datagram is acknowledged only when the handler of every message that it
\* carries whole has returned: an exception leaves it to the server to resend.
AcknowledgedIsHandled ==
  \A d \in acked : \A i \in 1 .. Len(d) :
    PartsOf[d[i].message] = 1 => d[i].message \in handled

\* What the comment on the acknowledgement says of a message in several frames,
\* too: the server goes on once all of them are acknowledged.
AcknowledgedIsParsed ==
  \A m \in Messages :
    (\A p \in All(m) : \E d \in acked : \E i \in 1 .. Len(d) : d[i] = [message |-> m, part |-> p])
      => m \in handled \/ inbox # <<>>

\* What the comment of _send_application_bootstrap says: the dictionary is
\* answered with the four packets.
DictionaryAnsweredInFull ==
  \A d \in acked : \A i \in 1 .. Len(d) :
    KindOf[d[i].message] = "dictionary" /\ PartsOf[d[i].message] = 1
      => \A j \in 1 .. Len(Bootstrap) : queued[Bootstrap[j]] > 0

=============================================================================
