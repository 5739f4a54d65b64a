------------------------ MODULE ClientSession_proofs ------------------------
(***************************************************************************)
(* Safety of the established session for every set of messages and          *)
(* datagrams, every profile and every window.                              *)
(***************************************************************************)
EXTENDS ClientSession, SequenceTheorems, TLAPS

\* What an entry of the inbox may be.
Items == Messages \cup ProfileNames \cup {"nothing"}

\* The payloads behind a flag: the physics of the profile has one, too.
Flagged == OncePayloads \cup ProfileNames

\* The flag that stands for such a payload.
FlagOf(p) == IF p \in BootstrapNames THEN "bootstrap" ELSE p

-----------------------------------------------------------------------------
(* What the handlers send                                                  *)

LEMMA ReplyType ==
  ASSUME NEW x \in Items
  PROVE  /\ Reply(x) \in Seq(Payloads)
         /\ \A i \in 1 .. Len(Reply(x)) : Reply(x)[i] # "connection_request"
<1>1. /\ Bootstrap \in Seq(BootstrapNames)
      /\ "connection_request" \notin BootstrapNames
      /\ "connection_request" \notin Messages /\ "connection_request" \notin ProfileNames
  BY SessionAssumption DEF Names
<1>2. /\ Bootstrap \in Seq(Payloads)
      /\ \A i \in 1 .. Len(Bootstrap) : Bootstrap[i] # "connection_request"
  BY <1>1 DEF Payloads
<1>3. x \in ProfileNames => Reply(x) = <<x>> /\ x \in Payloads
  BY DEF Reply, Payloads
<1>4. x \notin ProfileNames /\ x \notin Messages => Reply(x) = <<>>
  BY DEF Reply
<1>5. ASSUME x \notin ProfileNames, x \in Messages
      PROVE  Reply(x) \in {<<"new_incoming_connection">>, Bootstrap, <<x>>,
                           <<"marker_echo", "request_character">>, <<"marker_echo">>,
                           <<"challenge_response">>, <<>>}
  BY <1>5 DEF Reply
<1>6. {"new_incoming_connection", "marker_echo", "request_character", "challenge_response"}
        \subseteq Payloads
  BY DEF Payloads, Names
<1>7. x \in Messages => x \in Payloads
  BY DEF Payloads
<1>8. ASSUME NEW p \in Payloads, p # "connection_request"
      PROVE  /\ <<p>> \in Seq(Payloads)
             /\ \A i \in 1 .. Len(<<p>>) : <<p>>[i] # "connection_request"
  BY <1>8
<1>9. /\ <<"marker_echo", "request_character">> \in Seq(Payloads)
      /\ \A i \in 1 .. Len(<<"marker_echo", "request_character">>) :
           <<"marker_echo", "request_character">>[i] # "connection_request"
  BY <1>6
<1>10. CASE x \in ProfileNames
  BY <1>1, <1>3, <1>8, <1>10
<1>11. CASE x \notin ProfileNames /\ x \notin Messages
  <2>1. Reply(x) = <<>>
    BY <1>4, <1>11
  <2> QED
    BY <2>1
<1>12. CASE x \notin ProfileNames /\ x \in Messages
  <2>1. CASE Reply(x) = Bootstrap
    BY <1>2, <2>1
  <2>2. CASE Reply(x) = <<x>>
    BY <1>1, <1>7, <1>8, <1>12, <2>2
  <2>3. CASE Reply(x) = <<"marker_echo", "request_character">>
    BY <1>9, <2>3
  <2>4. CASE Reply(x) = <<>>
    BY <2>4
  <2>5. CASE Reply(x) = <<"new_incoming_connection">>
    BY <1>6, <1>8, <2>5
  <2>6. CASE Reply(x) = <<"marker_echo">>
    BY <1>6, <1>8, <2>6
  <2>7. CASE Reply(x) = <<"challenge_response">>
    BY <1>6, <1>8, <2>7
  <2> QED
    BY <1>5, <1>12, <2>1, <2>2, <2>3, <2>4, <2>5, <2>6, <2>7
<1> QED
  BY <1>10, <1>11, <1>12

LEMMA FlagFacts ==
  ASSUME NEW x \in Items
  PROVE  /\ Flag(x) \subseteq Payloads \cup {"bootstrap"}
         /\ "connection_request" \notin Flag(x)
         /\ Flag(x) # {} =>
              \A i \in 1 .. Len(Reply(x)) : Reply(x)[i] \in Flagged
         /\ \A i \in 1 .. Len(Reply(x)) :
              Reply(x)[i] \in Flagged => Flag(x) = {FlagOf(Reply(x)[i])}
         /\ \A p \in Flagged : FlagOf(p) \in Flag(x) =>
              \E i \in 1 .. Len(Reply(x)) : Reply(x)[i] = p
<1>0. /\ "nothing" \notin Messages \cup ProfileNames /\ "bootstrap" \notin Payloads
      /\ Names \cap (Messages \cup BootstrapNames) = {}
      /\ Messages \cap BootstrapNames = {}
      /\ ProfileNames \cap (Names \cup BootstrapNames \cup Messages) = {}
  BY SessionAssumption
<1>1. /\ {"connection_request", "new_incoming_connection", "marker_echo",
          "request_character", "challenge_response"} = Names
      /\ Payloads = Names \cup BootstrapNames \cup ProfileNames \cup Messages
      /\ Flagged = {"connection_request", "new_incoming_connection"} \cup ProfileNames
           \cup BootstrapNames \cup {m \in Messages : KindOf[m] = "token"}
  BY DEF Names, Payloads, OncePayloads, Flagged
<1>2. CASE x \in ProfileNames
  <2>1. Reply(x) = <<x>> /\ Flag(x) = {x}
    BY <1>2 DEF Reply, Flag
  <2> QED
    BY <1>0, <1>1, <1>2, <2>1 DEF FlagOf
<1>3. CASE x = "nothing"
  <2>1. Reply(x) = <<>> /\ Flag(x) = {}
    BY <1>0, <1>3 DEF Reply, Flag
  <2> QED
    BY <2>1
<1>4. CASE x \in Messages
  <2>0. x \notin ProfileNames /\ KindOf[x] \in Kinds
    BY <1>0, <1>4, SessionAssumption
  <2>1. CASE KindOf[x] = "accepted"
    <3>1. Reply(x) = <<"new_incoming_connection">> /\ Flag(x) = {"new_incoming_connection"}
      BY <1>4, <2>0, <2>1 DEF Reply, Flag
    <3> QED
      BY <1>0, <1>1, <3>1 DEF FlagOf
  <2>2. CASE KindOf[x] = "dictionary"
    <3>1. Reply(x) = Bootstrap /\ Flag(x) = {"bootstrap"}
      BY <1>4, <2>0, <2>2 DEF Reply, Flag
    <3>2. BootstrapNames = {Bootstrap[i] : i \in 1 .. Len(Bootstrap)}
      BY DEF BootstrapNames
    <3>3. \A p \in Flagged : FlagOf(p) = "bootstrap" => p \in BootstrapNames
      BY <1>0, <1>1 DEF FlagOf
    <3> QED
      BY <1>0, <1>1, <3>1, <3>2, <3>3 DEF FlagOf
  <2>3. CASE KindOf[x] = "marker"
    <3>1. /\ Flag(x) = {}
          /\ Reply(x) = <<"marker_echo", "request_character">> \/ Reply(x) = <<"marker_echo">>
      BY <1>4, <2>0, <2>3 DEF Reply, Flag
    <3>2. "marker_echo" \notin Flagged /\ "request_character" \notin Flagged
      BY <1>0, <1>1
    <3>3. \A i \in 1 .. Len(Reply(x)) : Reply(x)[i] \in {"marker_echo", "request_character"}
      BY <3>1
    <3> QED
      BY <3>1, <3>2, <3>3
  <2>4. CASE KindOf[x] = "token"
    <3>1. Reply(x) = <<x>> /\ Flag(x) = {x}
      BY <1>4, <2>0, <2>4 DEF Reply, Flag
    <3> QED
      BY <1>0, <1>1, <1>4, <2>4, <3>1 DEF FlagOf
  <2>5. CASE KindOf[x] = "challenge"
    <3>1. Reply(x) = <<"challenge_response">> /\ Flag(x) = {}
      BY <1>4, <2>0, <2>5 DEF Reply, Flag
    <3>2. "challenge_response" \notin Flagged
      BY <1>0, <1>1
    <3> QED
      BY <3>1, <3>2
  <2>6. CASE KindOf[x] \in {"ping", "data", "other"}
    <3>1. Reply(x) = <<>> /\ Flag(x) = {}
      BY <1>4, <2>0, <2>6 DEF Reply, Flag
    <3> QED
      BY <3>1
  <2> QED
    BY <2>0, <2>1, <2>2, <2>3, <2>4, <2>5, <2>6 DEF Kinds
<1> QED
  BY <1>2, <1>3, <1>4 DEF Items

\* A payload of the profile is sent by its own item.
LEMMA ProfileReply ==
  ASSUME NEW x \in Items, NEW i \in 1 .. Len(Reply(x)), Reply(x)[i] \in ProfileNames
  PROVE  x = Reply(x)[i]
<1>1. Reply(x)[i] \in Flagged
  BY DEF Flagged
<1>2. Flag(x) = {FlagOf(Reply(x)[i])}
  BY <1>1, FlagFacts
<1>3. Reply(x)[i] \notin BootstrapNames
  BY SessionAssumption
<1>4. Flag(x) = {Reply(x)[i]}
  BY <1>2, <1>3 DEF FlagOf
<1>5. Reply(x)[i] \notin Messages /\ Reply(x)[i] # "bootstrap"
      /\ Reply(x)[i] # "new_incoming_connection"
  BY SessionAssumption DEF Payloads, Names
<1> QED
  BY <1>4, <1>5 DEF Flag, Items

-----------------------------------------------------------------------------
(* Tracking                                                                *)

LEMMA TrackFacts ==
  ASSUME queued \in [Payloads -> 0 .. Many],
         NEW reply \in Seq(Payloads), NEW k \in 0 .. Len(reply), Track(reply, k)
  PROVE  /\ queued' \in [Payloads -> 0 .. Many]
         /\ waiting' = waiting + k
         /\ \A p \in Payloads : queued'[p] = queued[p] \/ queued'[p] = queued[p] + 1
         /\ \A p \in Payloads : (\A i \in 1 .. k : reply[i] # p) => queued'[p] = queued[p]
         /\ \A i \in 1 .. k : queued'[reply[i]] > 0
<1>1. Many \in Nat /\ \A p \in Payloads : Limit(p) \in Nat /\ 0 < Limit(p) /\ Limit(p) <= Many
  BY SessionAssumption DEF Many, Limit
<1>2. \A p \in Payloads : queued[p] \in Nat /\ queued[p] <= Many
  BY <1>1
<1>3. /\ queued' = [p \in Payloads |->
                     IF \E i \in 1 .. k : reply[i] = p /\ queued[p] < Limit(p)
                     THEN queued[p] + 1 ELSE queued[p]]
      /\ waiting' = waiting + k
  BY DEF Track
<1>4. ASSUME NEW p \in Payloads
      PROVE  /\ queued'[p] \in 0 .. Many
             /\ queued'[p] = queued[p] \/ queued'[p] = queued[p] + 1
             /\ (\A i \in 1 .. k : reply[i] # p) => queued'[p] = queued[p]
             /\ (\E i \in 1 .. k : reply[i] = p) => queued'[p] > 0
  <2>1. queued'[p] = IF (\E i \in 1 .. k : reply[i] = p) /\ queued[p] < Limit(p)
                     THEN queued[p] + 1 ELSE queued[p]
    BY <1>3
  <2> DEFINE l == Limit(p)  q == queued[p]
  <2>2. l \in Nat /\ 0 < l /\ l <= Many /\ q \in Nat /\ q <= Many /\ Many \in Nat
    BY <1>1, <1>2
  <2> HIDE DEF l, q
  <2>3. queued'[p] = IF (\E i \in 1 .. k : reply[i] = p) /\ q < l THEN q + 1 ELSE q
    BY <2>1 DEF l, q
  <2>4. CASE (\E i \in 1 .. k : reply[i] = p) /\ q < l
    BY <2>2, <2>3, <2>4 DEF q
  <2>5. CASE ~((\E i \in 1 .. k : reply[i] = p) /\ q < l)
    BY <2>2, <2>3, <2>5 DEF q
  <2> QED
    BY <2>4, <2>5
<1>5. DOMAIN queued' = Payloads /\ queued' = [p \in Payloads |-> queued'[p]]
  BY <1>3
<1>6. queued' \in [Payloads -> 0 .. Many]
  BY <1>4, <1>5
<1>7. \A i \in 1 .. k : reply[i] \in Payloads
  OBVIOUS
<1> QED
  BY <1>3, <1>4, <1>6, <1>7

-----------------------------------------------------------------------------
(* The inductive invariant                                                 *)

FlagsQueued == \A p \in Flagged : FlagOf(p) \in done => queued[p] > 0

\* Before its flag is set, a payload was queued by interrupted handlers only.
Counts ==
  \A p \in OncePayloads :
    queued[p] <= raised + (IF FlagOf(p) \in done THEN 1 ELSE 0)

Request ==
  /\ current # <<>> => authenticated
  /\ authenticated => queued["connection_request"] = 1
  /\ ~authenticated => waiting = 0 /\ \A p \in Payloads : queued[p] = 0

\* The payloads of the profile that come before one in the inbox are queued, or
\* come before it in the inbox as well.
ProfileLeft ==
  \A a \in 1 .. Len(inbox), j \in 1 .. Len(Profile) :
    inbox[a] = Profile[j] =>
      /\ registered
      /\ \A i \in 1 .. j - 1 :
           queued[Profile[i]] > 0 \/ \E b \in 1 .. a - 1 : inbox[b] = Profile[i]

\* Until an exception cuts a datagram short, the profile of a registered replicator
\* is queued or about to be.
ProfileDue ==
  registered /\ ~cut =>
    \A i \in 1 .. Len(Profile) :
      queued[Profile[i]] > 0 \/ \E a \in 1 .. Len(inbox) : inbox[a] = Profile[i]

\* The whole messages of the datagram at hand are handled or in the inbox.
ToHandle ==
  \A i \in 1 .. Len(current) :
    PartsOf[current[i].message] = 1 =>
      \/ current[i].message \in handled
      \/ \E a \in 1 .. Len(inbox) : inbox[a] = current[i].message

SInv ==
  /\ TypeOK
  /\ FlagsQueued
  /\ Counts
  /\ Request
  /\ ProfileLeft
  /\ ProfileDue
  /\ ProfileInOrder
  /\ ToHandle
  /\ AcknowledgedIsHandled

LEMMA OnceArePayloads ==
  /\ OncePayloads \subseteq Flagged /\ Flagged \subseteq Payloads
  /\ "connection_request" \in OncePayloads
  BY DEF OncePayloads, Flagged, Payloads, Names

LEMMA PartZero ==
  ASSUME NEW m \in Messages
  PROVE  0 \in All(m) /\ (PartsOf[m] = 1 => All(m) = {0})
<1>1. PartsOf[m] \in Nat \ {0}
  BY SessionAssumption
<1>2. 0 \in 0 .. PartsOf[m] - 1
  BY <1>1
<1>3. PartsOf[m] = 1 => 0 .. PartsOf[m] - 1 = {0}
  BY <1>1
<1> QED
  BY <1>2, <1>3 DEF All

LEMMA DatagramFacts ==
  ASSUME NEW d \in Datagrams
  PROVE  /\ d # <<>> /\ Len(d) \in Nat
         /\ \A i \in 1 .. Len(d) :
              d[i].message \in Messages /\ d[i].part \in All(d[i].message)
<1>1. d # <<>> /\ d \in Seq([message : Messages, part : Nat])
  BY SessionAssumption
<1>2. ASSUME NEW i \in 1 .. Len(d)
      PROVE  d[i].message \in Messages /\ d[i].part \in All(d[i].message)
  <2>1. d[i] \in [message : Messages, part : Nat]
    BY <1>1, ElementOfSeq
  <2>2. d[i].message \in Messages /\ d[i].part \in Nat
    BY <2>1
  <2>3. d[i].part < PartsOf[d[i].message] /\ PartsOf[d[i].message] \in Nat
    BY <2>2, SessionAssumption
  <2> QED
    BY <2>2, <2>3 DEF All
<1> QED
  BY <1>1, <1>2

LEMMA SInvInit == Init => SInv
<1> SUFFICES ASSUME Init
             PROVE  SInv
  OBVIOUS
<1>1. \A m \in Messages : {} \subseteq All(m) /\ {} # All(m)
  BY PartZero
<1>2. Many \in Nat /\ MaxRaised \in Nat /\ MaxWindow \in Nat
  BY SessionAssumption DEF Many
<1>3. TypeOK
  <2>1. \A m \in Messages : parts[m] \subseteq All(m) /\ parts[m] # All(m)
    BY <1>1 DEF Init
  <2>2. queued \in [Payloads -> 0 .. Many]
    BY <1>2 DEF Init
  <2>3. inbox \in Seq(Messages \cup ProfileNames \cup {"nothing"})
    BY DEF Init
  <2>4. /\ open \in BOOLEAN /\ authenticated \in BOOLEAN /\ registered \in BOOLEAN
        /\ done \subseteq Payloads \cup {"bootstrap"}
        /\ acked \subseteq Datagrams /\ handled \subseteq Messages
    BY DEF Init
  <2>5. current \in Datagrams \cup {<<>>} /\ (current = <<>> => inbox = <<>>)
    BY DEF Init
  <2>6. waiting \in 0 .. MaxWindow /\ raised \in 0 .. MaxRaised
    BY <1>2 DEF Init
  <2>7. cut \in BOOLEAN
    BY DEF Init
  <2> QED
    BY <2>1, <2>2, <2>3, <2>4, <2>5, <2>6, <2>7 DEF TypeOK
<1>4. FlagsQueued /\ Counts /\ Request
  BY OnceArePayloads DEF Init, FlagsQueued, Counts, Request
<1>5. ProfileLeft /\ ProfileDue /\ ToHandle
  BY DEF Init, ProfileLeft, ProfileDue, ToHandle
<1>6. \A j \in 1 .. Len(Profile) : Profile[j] \in Payloads
  BY SessionAssumption DEF Payloads, ProfileNames
<1>7. ProfileInOrder /\ AcknowledgedIsHandled
  BY <1>6 DEF Init, ProfileInOrder, AcknowledgedIsHandled
<1> QED
  BY <1>3, <1>4, <1>5, <1>7 DEF SInv

-----------------------------------------------------------------------------
(* What a handler queues                                                   *)

\* A send that raises leaves the flags, and counts one exception.
LEMMA RaiseQueues ==
  ASSUME SInv, NEW x \in Items, Sends(x), NEW k \in 0 .. Len(Reply(x)),
         Track(Reply(x), k), done' = done, raised' = raised + 1
  PROVE  FlagsQueued' /\ Counts'
<1>1. /\ \A p \in Payloads : queued'[p] = queued[p] \/ queued'[p] = queued[p] + 1
      /\ \A p \in Payloads : (\A i \in 1 .. k : Reply(x)[i] # p) => queued'[p] = queued[p]
  BY ReplyType, TrackFacts DEF SInv, TypeOK
<1>2. \A p \in Flagged : queued[p] \in Nat /\ raised \in Nat
  BY OnceArePayloads, SessionAssumption DEF SInv, TypeOK, Many
<1>3. FlagsQueued'
  BY <1>1, <1>2, OnceArePayloads DEF SInv, FlagsQueued
<1>4. Counts'
  BY <1>1, <1>2, OnceArePayloads DEF SInv, Counts
<1> QED
  BY <1>3, <1>4

\* An answer sets the flag of all that it queues.
LEMMA AnswerQueues ==
  ASSUME SInv, NEW x \in Items, Sends(x), Track(Reply(x), Len(Reply(x))),
         done' = done \cup Flag(x), raised' = raised
  PROVE  FlagsQueued' /\ Counts'
<1> DEFINE n == Len(Reply(x))
<1>0. Reply(x) \in Seq(Payloads) /\ n \in Nat /\ n \in 0 .. Len(Reply(x))
  BY ReplyType
<1>1. /\ \A p \in Payloads : queued'[p] = queued[p] \/ queued'[p] = queued[p] + 1
      /\ \A p \in Payloads : (\A i \in 1 .. n : Reply(x)[i] # p) => queued'[p] = queued[p]
      /\ \A i \in 1 .. n : queued'[Reply(x)[i]] > 0
  BY <1>0, TrackFacts DEF SInv, TypeOK
<1>2. \A p \in Flagged : queued[p] \in Nat /\ raised \in Nat
  BY OnceArePayloads, SessionAssumption DEF SInv, TypeOK, Many
<1>3. /\ \A i \in 1 .. n : Reply(x)[i] \in Flagged => Flag(x) = {FlagOf(Reply(x)[i])}
      /\ \A p \in Flagged : FlagOf(p) \in Flag(x) => \E i \in 1 .. n : Reply(x)[i] = p
  BY FlagFacts
<1>4. Flag(x) \cap done = {}
  BY DEF Sends, Tries
<1> HIDE DEF n
<1>5. FlagsQueued'
  BY <1>1, <1>2, <1>3, OnceArePayloads DEF SInv, FlagsQueued
<1>6. ASSUME NEW p \in OncePayloads
      PROVE  queued'[p] <= raised + (IF FlagOf(p) \in done' THEN 1 ELSE 0)
  <2>1. CASE \E i \in 1 .. n : Reply(x)[i] = p
    <3>1. FlagOf(p) \in done' /\ FlagOf(p) \notin done
      BY <1>3, <1>4, <2>1, OnceArePayloads
    <3> QED
      BY <1>1, <1>2, <3>1, OnceArePayloads DEF SInv, Counts
  <2>2. CASE \A i \in 1 .. n : Reply(x)[i] # p
    <3>1. queued'[p] = queued[p]
      BY <1>1, <2>2, OnceArePayloads
    <3> QED
      BY <1>2, <3>1, OnceArePayloads DEF SInv, Counts
  <2> QED
    BY <2>1, <2>2
<1> QED
  BY <1>5, <1>6 DEF Counts

\* Handlers never queue the connection request, and keep the profile in order.
LEMMA HandlerQueues ==
  ASSUME SInv, inbox # <<>>, current # <<>>,
         NEW k \in 0 .. Len(Reply(Head(inbox))), Track(Reply(Head(inbox)), k),
         authenticated' = authenticated, registered' = registered,
         current' \in {current, <<>>}, cut' \in {cut, TRUE},
         done' \in {done, done \cup Flag(Head(inbox))}
  PROVE  Request' /\ ProfileInOrder'
<1> DEFINE x == Head(inbox)
<1>0. x \in Items /\ x = inbox[1] /\ Len(inbox) >= 1
  BY DEF SInv, TypeOK, Items
<1> HIDE DEF x
<1>1. /\ Reply(x) \in Seq(Payloads)
      /\ \A i \in 1 .. Len(Reply(x)) : Reply(x)[i] # "connection_request"
  BY <1>0, ReplyType
<1>2. /\ \A p \in Payloads : queued'[p] = queued[p] \/ queued'[p] = queued[p] + 1
      /\ \A p \in Payloads : (\A i \in 1 .. k : Reply(x)[i] # p) => queued'[p] = queued[p]
      /\ \A i \in 1 .. k : queued'[Reply(x)[i]] > 0
  BY <1>1, TrackFacts DEF SInv, TypeOK, x
<1>3. \A p \in Payloads : queued[p] \in Nat
  BY SessionAssumption DEF SInv, TypeOK, Many
<1>4. Request'
  <2>1. k \in 0 .. Len(Reply(x)) /\ Len(Reply(x)) \in Nat
    BY <1>1 DEF x
  <2>2. queued'["connection_request"] = queued["connection_request"]
    BY <1>1, <1>2, <2>1, OnceArePayloads
  <2> QED
    BY <2>2 DEF SInv, Request
<1>5. ASSUME NEW j \in 1 .. Len(Profile), queued'[Profile[j]] > 0
      PROVE  /\ registered
             /\ Profile[j] # "physics" \/ ~cut' \/ "physics" \in done'
                  => \A i \in 1 .. j : queued'[Profile[i]] > 0
  <2>0. /\ \A i \in 1 .. Len(Profile) : Profile[i] \in ProfileNames /\ Profile[i] \in Payloads
        /\ Len(Profile) \in Nat
    BY SessionAssumption DEF ProfileNames, Payloads
\* The handler of the payload itself: the ones before it are queued.
  <2>1. ASSUME inbox[1] = Profile[j]
        PROVE  registered /\ \A i \in 1 .. j : queued'[Profile[i]] > 0
    <3>1. registered /\ \A h \in 1 .. j - 1 : queued[Profile[h]] > 0
      BY <1>0, <2>1 DEF SInv, ProfileLeft
    <3>2. \A h \in 1 .. j : h \in 1 .. Len(Profile) /\ (h = j \/ h \in 1 .. j - 1)
      BY <2>0
    <3> QED
      BY <1>2, <1>3, <1>5, <2>0, <3>1, <3>2
  <2>2. CASE /\ queued[Profile[j]] > 0
             /\ Profile[j] # "physics" \/ ~cut \/ "physics" \in done
    <3>1. registered /\ \A i \in 1 .. j : queued[Profile[i]] > 0
      BY <2>2 DEF SInv, ProfileInOrder
    <3>2. \A i \in 1 .. j : Profile[i] \in Payloads
      BY <2>0
    <3> QED
      BY <1>2, <1>3, <3>1, <3>2
  <2>3. CASE /\ queued[Profile[j]] > 0
             /\ Profile[j] = "physics" /\ cut /\ "physics" \notin done
    <3>1. registered
      BY <2>3 DEF SInv, ProfileInOrder
    <3>2. ASSUME "physics" \in done'
          PROVE  inbox[1] = Profile[j]
      <4>1. "physics" \in Flag(x) /\ "physics" \in Flagged
        BY <2>0, <2>3, <3>2 DEF x, Flagged
      <4>2. FlagOf("physics") = "physics"
        BY <2>0, <2>3, SessionAssumption DEF FlagOf
      <4>3. PICK i \in 1 .. Len(Reply(x)) : Reply(x)[i] = "physics"
        BY <1>0, <4>1, <4>2, FlagFacts
      <4>4. Reply(x)[i] \in ProfileNames
        BY <2>0, <2>3, <4>3
      <4>5. x = Reply(x)[i]
        BY <1>0, <4>4, ProfileReply
      <4> QED
        BY <1>0, <2>3, <4>3, <4>5
    <3>3. cut' = TRUE
      BY <2>3 DEF SInv, TypeOK
    <3> QED
      BY <2>1, <2>3, <3>1, <3>2, <3>3
  <2>4. CASE ~(queued[Profile[j]] > 0)
    <3>1. PICK i \in 1 .. k : Reply(x)[i] = Profile[j]
      BY <1>2, <1>5, <2>0, <2>4
    <3>2. i \in 1 .. Len(Reply(x)) /\ Reply(x)[i] \in ProfileNames
      BY <1>1, <2>0, <3>1 DEF x
    <3>3. inbox[1] = Profile[j]
      BY <1>0, <3>1, <3>2, ProfileReply
    <3> QED
      BY <2>1, <3>3
  <2> QED
    BY <2>2, <2>3, <2>4
<1> QED
  BY <1>4, <1>5 DEF ProfileInOrder

-----------------------------------------------------------------------------
(* How a handler ends                                                      *)

LEMMA ReturnKeeps ==
  ASSUME SInv, inbox # <<>>, current # <<>>, Return(Head(inbox)),
         registered' = registered,
         \A p \in Payloads : queued[p] > 0 => queued'[p] > 0,
         Head(inbox) \in ProfileNames => queued'[Head(inbox)] > 0
  PROVE  /\ ProfileLeft' /\ ProfileDue' /\ ToHandle' /\ AcknowledgedIsHandled'
         /\ inbox' \in Seq(Items) /\ handled' \subseteq Messages
         /\ current' = current /\ acked' = acked /\ cut' = cut
<1> DEFINE x == Head(inbox)
<1>1. /\ inbox \in Seq(Items)
      /\ x = inbox[1]
      /\ inbox' \in Seq(Items)
      /\ Len(inbox') = Len(inbox) - 1
      /\ Len(inbox) \in Nat
      /\ \A a \in 1 .. Len(inbox) - 1 : inbox'[a] = inbox[a + 1]
  BY DEF SInv, TypeOK, Items, Return
<1>2. /\ handled' = handled \cup ({x} \cap Messages)
      /\ current' = current /\ acked' = acked /\ cut' = cut
  BY DEF Return
<1> HIDE DEF x
<1>3. ProfileLeft'
  <2> SUFFICES ASSUME NEW a \in 1 .. Len(inbox'), NEW j \in 1 .. Len(Profile),
                      inbox'[a] = Profile[j]
               PROVE  /\ registered
                      /\ \A i \in 1 .. j - 1 :
                           \/ queued'[Profile[i]] > 0
                           \/ \E b \in 1 .. a - 1 : inbox'[b] = Profile[i]
    BY DEF ProfileLeft
  <2>1. a + 1 \in 1 .. Len(inbox) /\ inbox[a + 1] = Profile[j]
    BY <1>1
  <2>2. /\ registered
        /\ \A i \in 1 .. j - 1 :
             queued[Profile[i]] > 0 \/ \E b \in 1 .. (a + 1) - 1 : inbox[b] = Profile[i]
    BY <2>1 DEF SInv, ProfileLeft
  <2>3. ASSUME NEW i \in 1 .. j - 1
        PROVE  queued'[Profile[i]] > 0 \/ \E b \in 1 .. a - 1 : inbox'[b] = Profile[i]
    <3>0. Profile[i] \in ProfileNames /\ Profile[i] \in Payloads
      BY SessionAssumption DEF ProfileNames, Payloads
    <3>1. CASE queued[Profile[i]] > 0
      BY <3>0, <3>1
    <3>2. CASE \E b \in 1 .. (a + 1) - 1 : inbox[b] = Profile[i]
      <4>1. PICK b \in 1 .. a : inbox[b] = Profile[i]
        BY <3>2
      <4>2. CASE b = 1
        BY <1>1, <3>0, <4>1, <4>2 DEF x
      <4>3. CASE b # 1
        <5>1. b - 1 \in 1 .. a - 1 /\ b - 1 \in 1 .. Len(inbox) - 1 /\ (b - 1) + 1 = b
          BY <1>1, <2>1, <4>3
        <5>2. inbox'[b - 1] = Profile[i]
          BY <1>1, <4>1, <5>1
        <5> QED
          BY <5>1, <5>2
      <4> QED
        BY <4>2, <4>3
    <3> QED
      BY <2>2, <3>1, <3>2
  <2> QED
    BY <2>2, <2>3
<1>4. ToHandle'
  <2> SUFFICES ASSUME NEW i \in 1 .. Len(current), PartsOf[current[i].message] = 1
               PROVE  \/ current[i].message \in handled'
                      \/ \E a \in 1 .. Len(inbox') : inbox'[a] = current[i].message
    BY <1>2 DEF ToHandle
  <2>1. CASE current[i].message \in handled
    BY <1>2, <2>1
  <2>2. CASE \E a \in 1 .. Len(inbox) : inbox[a] = current[i].message
    <3>1. PICK a \in 1 .. Len(inbox) : inbox[a] = current[i].message
      BY <2>2
    <3>2. current[i].message \in Messages
      <4>1. current \in Datagrams
        BY DEF SInv, TypeOK
      <4> QED
        BY <4>1, DatagramFacts
    <3>3. CASE a = 1
      BY <1>1, <1>2, <3>1, <3>2, <3>3
    <3>4. CASE a # 1
      <4>1. a - 1 \in 1 .. Len(inbox) - 1 /\ (a - 1) + 1 = a
        BY <1>1, <3>4
      <4>2. inbox'[a - 1] = current[i].message
        BY <1>1, <3>1, <4>1
      <4> QED
        BY <1>1, <4>1, <4>2
    <3> QED
      BY <3>3, <3>4
  <2> QED
    BY <2>1, <2>2 DEF SInv, ToHandle
<1>5. AcknowledgedIsHandled'
  BY <1>2 DEF SInv, AcknowledgedIsHandled
<1>6. handled' \subseteq Messages
  BY <1>2 DEF SInv, TypeOK
<1>7. ProfileDue'
  <2> SUFFICES ASSUME registered, ~cut, NEW i \in 1 .. Len(Profile)
               PROVE  \/ queued'[Profile[i]] > 0
                      \/ \E a \in 1 .. Len(inbox') : inbox'[a] = Profile[i]
    BY <1>2 DEF ProfileDue
  <2>0. Profile[i] \in ProfileNames /\ Profile[i] \in Payloads
    BY SessionAssumption DEF ProfileNames, Payloads
  <2>1. CASE queued[Profile[i]] > 0
    BY <2>0, <2>1
  <2>2. ASSUME NEW a \in 1 .. Len(inbox), inbox[a] = Profile[i]
        PROVE  \/ queued'[Profile[i]] > 0
               \/ \E b \in 1 .. Len(inbox') : inbox'[b] = Profile[i]
    <3>1. CASE a = 1
      BY <1>1, <2>0, <2>2, <3>1 DEF x
    <3>2. CASE a # 1
      <4>1. a - 1 \in 1 .. Len(inbox') /\ a - 1 \in 1 .. Len(inbox) - 1 /\ (a - 1) + 1 = a
        BY <1>1, <3>2
      <4>2. inbox'[a - 1] = Profile[i]
        BY <1>1, <2>2, <4>1
      <4> QED
        BY <4>1, <4>2
    <3> QED
      BY <3>1, <3>2
  <2> QED
    BY <2>1, <2>2 DEF SInv, ProfileDue
<1> QED
  BY <1>1, <1>2, <1>3, <1>4, <1>5, <1>6, <1>7

LEMMA EscapeKeeps ==
  ASSUME SInv, Escape
  PROVE  /\ ProfileLeft' /\ ProfileDue' /\ ToHandle' /\ AcknowledgedIsHandled'
         /\ inbox' = <<>> /\ current' = <<>> /\ acked' = acked /\ handled' = handled
         /\ cut' = TRUE
  BY DEF SInv, Escape, ProfileLeft, ProfileDue, ToHandle, AcknowledgedIsHandled

-----------------------------------------------------------------------------
(* The steps                                                               *)

LEMMA PromoteKeeps ==
  ASSUME SInv, NEW sent \in BOOLEAN, Promote(sent)
  PROVE  SInv'
<1> DEFINE cr == "connection_request"
<1>1. /\ current = <<>> /\ inbox = <<>> /\ ~authenticated /\ authenticated' = TRUE
      /\ waiting = 0 /\ \A p \in Payloads : queued[p] = 0
  BY DEF SInv, TypeOK, Request, Promote, Idle
<1>2. /\ cr \in Payloads /\ cr \in OncePayloads /\ OncePayloads \subseteq Flagged /\ Flagged \subseteq Payloads
      /\ MaxRaised \in Nat /\ MaxWindow \in Nat \ {0} /\ Many \in Nat /\ Many > 1
      /\ Limit(cr) > 0
  BY OnceArePayloads, SessionAssumption DEF Many, Limit
<1>3. queued' = [p \in Payloads |-> IF p = cr THEN 1 ELSE 0] /\ waiting' = 1
  <2>1. /\ queued' = [p \in Payloads |->
                        IF \E i \in 1 .. 1 : <<cr>>[i] = p /\ queued[p] < Limit(p)
                        THEN queued[p] + 1 ELSE queued[p]]
        /\ waiting' = waiting + 1
    BY DEF Promote, Track
  <2>2. \A p \in Payloads :
          (IF \E i \in 1 .. 1 : <<cr>>[i] = p /\ queued[p] < Limit(p)
           THEN queued[p] + 1 ELSE queued[p]) = (IF p = cr THEN 1 ELSE 0)
    BY <1>1, <1>2
  <2> QED
    BY <1>1, <2>1, <2>2
<1>4. /\ done' = (IF sent THEN done \cup {cr} ELSE done)
      /\ raised' = (IF sent THEN raised ELSE raised + 1)
      /\ sent \/ raised < MaxRaised
      /\ UNCHANGED <<open, registered, parts, current, inbox, acked, handled, cut>>
  BY DEF Promote
<1>5. \A p \in Flagged : FlagOf(p) = cr <=> p = cr
  <2>1. cr \notin BootstrapNames
    BY SessionAssumption DEF Names
  <2> QED
    BY <2>1 DEF FlagOf
<1>6. \A p \in Flagged : FlagOf(p) \notin done
  BY <1>1, <1>2 DEF SInv, FlagsQueued
<1>7. raised \in 0 .. MaxRaised
  BY DEF SInv, TypeOK
<1> HIDE DEF cr
<1>8. queued' \in [Payloads -> 0 .. Many]
  BY <1>2, <1>3
<1>9. TypeOK'
  BY <1>1, <1>2, <1>3, <1>4, <1>7, <1>8 DEF SInv, TypeOK, All
<1>10. FlagsQueued' /\ Counts'
  BY <1>2, <1>3, <1>4, <1>5, <1>6, <1>7 DEF FlagsQueued, Counts
<1>11. Request'
  BY <1>1, <1>2, <1>3, <1>4 DEF Request, cr
<1>12. ProfileLeft' /\ ToHandle' /\ AcknowledgedIsHandled'
  BY <1>1, <1>4 DEF SInv, ProfileLeft, ToHandle, AcknowledgedIsHandled
<1>14. ProfileDue'
  <2>1. \A i \in 1 .. Len(Profile) : Profile[i] \in Payloads
    BY DEF ProfileNames, Payloads
  <2>2. \A i \in 1 .. Len(Profile) : ~(queued[Profile[i]] > 0)
    BY <1>1, <2>1
  <2>3. \A i \in 1 .. Len(Profile) : ~(registered /\ ~cut)
    BY <1>1, <2>2 DEF SInv, ProfileDue
  <2> QED
    BY <1>4, <2>3 DEF ProfileDue
<1>13. ProfileInOrder'
  <2>1. \A j \in 1 .. Len(Profile) : Profile[j] \in ProfileNames
    BY DEF ProfileNames
  <2>2. cr \notin ProfileNames /\ ProfileNames \subseteq Payloads
    BY SessionAssumption DEF Names, cr, Payloads
  <2>3. \A j \in 1 .. Len(Profile) : queued'[Profile[j]] = 0
    BY <1>3, <2>1, <2>2
  <2> QED
    BY <2>3 DEF ProfileInOrder
<1> QED
  BY <1>9, <1>10, <1>11, <1>12, <1>13, <1>14 DEF SInv

LEMMA ReceiveKeeps ==
  ASSUME SInv, NEW d \in Datagrams, Receive(d)
  PROVE  SInv'
<1> DEFINE profile == IF registered' THEN Profile ELSE <<>>
<1>1. /\ current' = d /\ inbox' = Steps(d, profile) /\ authenticated
      /\ registered' \in BOOLEAN /\ (registered => registered')
      /\ UNCHANGED <<open, authenticated, done, queued, waiting, acked, handled, raised,
                     cut>>
  BY DEF Receive, SInv, TypeOK
<1>2. profile \in Seq(ProfileNames) /\ Profile \in Seq(ProfileNames)
  BY SessionAssumption
<1>3. /\ d # <<>> /\ Len(d) \in Nat
      /\ \A i \in 1 .. Len(d) :
           d[i].message \in Messages /\ d[i].part \in All(d[i].message)
  BY DatagramFacts
<1> DEFINE item(i) == IF Completes(d[i]) THEN d[i].message ELSE "nothing"
<1>4. /\ inbox' = [i \in 1 .. Len(d) |-> item(i)] \o profile
      /\ \A i \in 1 .. Len(d) : item(i) \in Messages \cup {"nothing"}
  BY <1>1, <1>3 DEF Steps
<1>5. profile = <<>> \/ (registered' /\ profile = Profile)
  OBVIOUS
<1>6. \A i \in 1 .. Len(d) : PartsOf[d[i].message] = 1 => item(i) = d[i].message
  <2> SUFFICES ASSUME NEW i \in 1 .. Len(d), PartsOf[d[i].message] = 1
               PROVE  item(i) = d[i].message
    OBVIOUS
  <2> DEFINE m == d[i].message
  <2>0. m \in Messages
    BY <1>3
  <2>1. All(m) = {0} /\ d[i].part = 0
    BY <1>3, <2>0, PartZero
  <2> HIDE DEF m
  <2>2. parts[m] = {}
    <3>1. parts[m] \subseteq All(m) /\ parts[m] # All(m)
      BY <2>0 DEF SInv, TypeOK
    <3> QED
      BY <2>1, <3>1
  <2>3. Completes(d[i])
    BY <2>1, <2>2 DEF Completes, m
  <2> QED
    BY <2>3 DEF item
<1> HIDE DEF profile, item
<1>7. /\ [i \in 1 .. Len(d) |-> item(i)] \in Seq(Items)
      /\ Len([i \in 1 .. Len(d) |-> item(i)]) = Len(d)
      /\ profile \in Seq(Items)
  BY <1>2, <1>3, <1>4 DEF Items
<1>8. /\ inbox' \in Seq(Items)
      /\ Len(inbox') = Len(d) + Len(profile)
      /\ \A a \in 1 .. Len(d) : inbox'[a] = item(a)
      /\ \A a \in 1 .. Len(inbox') : a > Len(d) => inbox'[a] = profile[a - Len(d)]
  BY <1>3, <1>4, <1>7
<1>9. \A m \in Messages : parts'[m] \subseteq All(m) /\ parts'[m] # All(m)
  <2> SUFFICES ASSUME NEW m \in Messages
               PROVE  parts'[m] \subseteq All(m) /\ parts'[m] # All(m)
    OBVIOUS
  <2> DEFINE fs == {d[i] : i \in 1 .. Len(d)}
             f == CHOOSE g \in fs : g.message = m
  <2>1. parts'[m] = IF \E i \in 1 .. Len(d) : d[i].message = m
                    THEN Collected(m, f.part) ELSE parts[m]
    BY DEF Receive
  <2>2. parts[m] \subseteq All(m) /\ parts[m] # All(m) /\ 0 \in All(m)
    BY PartZero DEF SInv, TypeOK
  <2>3. CASE \E i \in 1 .. Len(d) : d[i].message = m
    <3>1. \E g \in fs : g.message = m
      BY <2>3
    <3>2. f \in fs /\ f.message = m
      BY <3>1
    <3>3. f.part \in All(m)
      BY <1>3, <3>2
    <3>4. parts'[m] = Collected(m, f.part)
      BY <2>1, <2>3
    <3> HIDE DEF f
    <3> QED
      BY <2>2, <3>3, <3>4 DEF Collected
  <2>4. CASE ~ \E i \in 1 .. Len(d) : d[i].message = m
    BY <2>1, <2>2, <2>4
  <2> QED
    BY <2>3, <2>4
<1>10. TypeOK'
  <2>1. inbox' \in Seq(Messages \cup ProfileNames \cup {"nothing"})
    BY <1>8 DEF Items
  <2>2. current' \in Datagrams \cup {<<>>} /\ (current' = <<>> => inbox' = <<>>)
    BY <1>1, <1>3
  <2> QED
    BY <1>1, <1>9, <2>1, <2>2 DEF SInv, TypeOK, All
<1>11. FlagsQueued' /\ Counts' /\ AcknowledgedIsHandled' /\ Request'
  BY <1>1 DEF SInv, FlagsQueued, Counts, AcknowledgedIsHandled, Request
<1>12. ProfileInOrder'
  <2> SUFFICES ASSUME NEW j \in 1 .. Len(Profile), queued[Profile[j]] > 0
               PROVE  /\ registered'
                      /\ Profile[j] # "physics" \/ ~cut \/ "physics" \in done
                           => \A i \in 1 .. j : queued[Profile[i]] > 0
    BY <1>1 DEF ProfileInOrder
  <2>1. /\ registered
        /\ Profile[j] # "physics" \/ ~cut \/ "physics" \in done
             => \A i \in 1 .. j : queued[Profile[i]] > 0
    BY DEF SInv, ProfileInOrder
  <2> QED
    BY <1>1, <2>1
<1>13. ToHandle'
  <2> SUFFICES ASSUME NEW i \in 1 .. Len(d), PartsOf[d[i].message] = 1
               PROVE  \E a \in 1 .. Len(inbox') : inbox'[a] = d[i].message
    BY <1>1 DEF ToHandle
  <2>1. inbox'[i] = d[i].message
    BY <1>6, <1>8
  <2>2. i \in 1 .. Len(inbox')
    BY <1>3, <1>7, <1>8
  <2> QED
    BY <2>1, <2>2
<1>14. ProfileLeft'
  <2> SUFFICES ASSUME NEW a \in 1 .. Len(inbox'), NEW j \in 1 .. Len(Profile),
                      inbox'[a] = Profile[j]
               PROVE  /\ registered'
                      /\ \A i \in 1 .. j - 1 : \E b \in 1 .. a - 1 : inbox'[b] = Profile[i]
    BY DEF ProfileLeft
  <2>1. /\ Len(Profile) \in Nat /\ Len(profile) \in Nat
        /\ Profile[j] \in ProfileNames
    BY <1>2
  <2>2. Profile[j] \notin Messages \cup {"nothing"}
    BY <2>1, SessionAssumption
  <2>3. a > Len(d)
    BY <1>3, <1>4, <1>8, <2>2
  <2>4. inbox'[a] = profile[a - Len(d)] /\ a - Len(d) \in 1 .. Len(profile)
    BY <1>3, <1>8, <2>1, <2>3
  <2>5. registered' /\ profile = Profile
    BY <1>5, <2>4
  <2>6. a - Len(d) = j
    BY <2>4, <2>5, SessionAssumption
  <2>7. ASSUME NEW i \in 1 .. j - 1
        PROVE  \E b \in 1 .. a - 1 : inbox'[b] = Profile[i]
    <3>1. Len(d) + i \in 1 .. a - 1 /\ Len(d) + i \in 1 .. Len(inbox')
          /\ Len(d) + i > Len(d) /\ (Len(d) + i) - Len(d) = i
      BY <1>3, <1>8, <2>1, <2>6
    <3>2. inbox'[Len(d) + i] = Profile[i]
      BY <1>8, <2>5, <3>1
    <3> QED
      BY <3>1, <3>2
  <2> QED
    BY <2>5, <2>7
<1>15. ProfileDue'
  <2> SUFFICES ASSUME registered', NEW i \in 1 .. Len(Profile)
               PROVE  \E a \in 1 .. Len(inbox') : inbox'[a] = Profile[i]
    BY DEF ProfileDue
  <2>1. profile = Profile /\ Len(Profile) \in Nat
    BY <1>2 DEF profile
  <2>2. /\ Len(d) + i \in 1 .. Len(inbox') /\ Len(d) + i > Len(d)
        /\ (Len(d) + i) - Len(d) = i
    BY <1>3, <1>8, <2>1
  <2>3. inbox'[Len(d) + i] = Profile[i]
    BY <1>8, <2>1, <2>2
  <2> QED
    BY <2>2, <2>3
<1> QED
  BY <1>10, <1>11, <1>12, <1>13, <1>14, <1>15 DEF SInv

-----------------------------------------------------------------------------
(* One item of the inbox                                                   *)

\* The parts of the state that the handlers leave alone, and the ranges.
LEMMA HandlerTypes ==
  ASSUME SInv, inbox # <<>>, current # <<>>,
         NEW k \in 0 .. Len(Reply(Head(inbox))), Track(Reply(Head(inbox)), k),
         waiting + k <= MaxWindow,
         done' \in {done, done \cup Flag(Head(inbox))},
         raised' \in 0 .. MaxRaised,
         inbox' \in Seq(Items), handled' \subseteq Messages,
         current' \in {current, <<>>}, current' = <<>> => inbox' = <<>>,
         acked' = acked, cut' \in BOOLEAN,
         UNCHANGED <<open, authenticated, registered, parts>>
  PROVE  TypeOK'
<1>1. Head(inbox) \in Items
  BY DEF SInv, TypeOK, Items
<1>2. Reply(Head(inbox)) \in Seq(Payloads) /\ Flag(Head(inbox)) \subseteq Payloads \cup {"bootstrap"}
  BY <1>1, ReplyType, FlagFacts
<1>3. queued' \in [Payloads -> 0 .. Many] /\ waiting' = waiting + k /\ k \in Nat
  BY <1>2, TrackFacts DEF SInv, TypeOK
<1>4. waiting' \in 0 .. MaxWindow
  BY <1>3, SessionAssumption DEF SInv, TypeOK
<1>5. inbox' \in Seq(Messages \cup ProfileNames \cup {"nothing"})
  BY DEF Items
<1> QED
  BY <1>2, <1>3, <1>4, <1>5 DEF SInv, TypeOK, All

LEMMA HandleKeeps ==
  ASSUME SInv, Handle
  PROVE  SInv'
<1> DEFINE x == Head(inbox)
<1>1. /\ inbox # <<>> /\ current # <<>> /\ x \in Items
      /\ UNCHANGED <<open, authenticated, registered, parts>>
  BY DEF Handle, Busy, SInv, TypeOK, Items
<1>2. /\ Reply(x) \in Seq(Payloads) /\ Len(Reply(x)) \in Nat
      /\ Flag(x) \subseteq Payloads \cup {"bootstrap"}
  BY <1>1, ReplyType, FlagFacts
<1>3. /\ queued \in [Payloads -> 0 .. Many] /\ cut \in BOOLEAN /\ waiting \in 0 .. MaxWindow
      /\ raised \in 0 .. MaxRaised /\ MaxRaised \in Nat /\ MaxWindow \in Nat /\ Many \in Nat
  BY SessionAssumption DEF SInv, TypeOK, Many
\* Tracking nothing is tracking no payload of the reply.
<1>4. ASSUME queued' = queued, waiting' = waiting
      PROVE  Track(Reply(x), 0)
  <2>1. \A p \in Payloads : ~ \E i \in 1 .. 0 : Reply(x)[i] = p /\ queued[p] < Limit(p)
    OBVIOUS
  <2>2. queued = [p \in Payloads |->
                   IF \E i \in 1 .. 0 : Reply(x)[i] = p /\ queued[p] < Limit(p)
                   THEN queued[p] + 1 ELSE queued[p]]
    BY <1>3, <2>1
  <2> QED
    BY <1>3, <1>4, <2>2 DEF Track
<1>5. ASSUME NEW k \in 0 .. Len(Reply(x)), Track(Reply(x), k)
      PROVE  \A p \in Payloads : queued[p] > 0 => queued'[p] > 0
  <2>1. \A p \in Payloads : queued'[p] = queued[p] \/ queued'[p] = queued[p] + 1
    BY <1>2, <1>3, <1>5, TrackFacts
  <2> QED
    BY <1>3, <2>1
<1>6. ASSUME x \in ProfileNames
      PROVE  Reply(x) = <<x>> /\ Flag(x) = {x} /\ x \in Flagged /\ FlagOf(x) = x
  <2>1. x \notin BootstrapNames
    BY <1>6, SessionAssumption
  <2> QED
    BY <1>6, <2>1 DEF Reply, Flag, Flagged, FlagOf
<1> HIDE DEF x
<1>7. CASE Pass(x)
  <2>1. Return(x) /\ ~Tries(x) /\ UNCHANGED <<done, queued, waiting, raised>>
    BY <1>7 DEF Pass
  <2>2. Track(Reply(x), 0) /\ 0 \in 0 .. Len(Reply(x))
    BY <1>2, <1>4, <2>1
  <2>3. x \in ProfileNames => queued'[x] > 0
    <3>1. x \in ProfileNames => x \in done
      BY <1>6, <2>1 DEF Tries
    <3> QED
      BY <1>6, <2>1, <3>1 DEF SInv, FlagsQueued
  <2>4. /\ ProfileLeft' /\ ProfileDue' /\ ToHandle' /\ AcknowledgedIsHandled'
        /\ inbox' \in Seq(Items) /\ handled' \subseteq Messages
        /\ current' = current /\ acked' = acked /\ cut' = cut
    BY <1>1, <1>5, <2>1, <2>2, <2>3, ReturnKeeps DEF x
  <2>5. Request' /\ ProfileInOrder'
    BY <1>1, <2>1, <2>2, <2>4, HandlerQueues DEF x
  <2>6. FlagsQueued' /\ Counts'
    BY <2>1 DEF SInv, FlagsQueued, Counts
  <2>7. TypeOK'
    BY <1>1, <1>3, <2>1, <2>2, <2>4, HandlerTypes DEF x
  <2> QED
    BY <2>4, <2>5, <2>6, <2>7 DEF SInv
<1>8. CASE Raises(x)
  <2>1. Escape /\ UNCHANGED <<done, queued, waiting, raised>>
    BY <1>8 DEF Raises
  <2>2. Track(Reply(x), 0) /\ 0 \in 0 .. Len(Reply(x))
    BY <1>2, <1>4, <2>1
  <2>3. /\ ProfileLeft' /\ ProfileDue' /\ ToHandle' /\ AcknowledgedIsHandled'
        /\ inbox' = <<>> /\ current' = <<>> /\ acked' = acked /\ handled' = handled
        /\ cut' = TRUE
    BY <2>1, EscapeKeeps
  <2>4. inbox' \in Seq(Items) /\ handled' \subseteq Messages
    BY <2>3 DEF SInv, TypeOK
  <2>5. Request' /\ ProfileInOrder'
    BY <1>1, <2>1, <2>2, <2>3, HandlerQueues DEF x
  <2>6. FlagsQueued' /\ Counts'
    BY <2>1 DEF SInv, FlagsQueued, Counts
  <2>7. TypeOK'
    BY <1>1, <1>3, <2>1, <2>2, <2>3, <2>4, HandlerTypes DEF x
  <2> QED
    BY <2>3, <2>5, <2>6, <2>7 DEF SInv
<1>9. CASE Answer(x)
  <2>1. /\ Sends(x) /\ waiting + Len(Reply(x)) <= MaxWindow
        /\ Track(Reply(x), Len(Reply(x)))
        /\ done' = done \cup Flag(x) /\ Return(x) /\ raised' = raised
    BY <1>9 DEF Answer
  <2>2. Len(Reply(x)) \in 0 .. Len(Reply(x))
    BY <1>2
  <2>3. x \in ProfileNames => queued'[x] > 0
    <3>1. \A i \in 1 .. Len(Reply(x)) : queued'[Reply(x)[i]] > 0
      BY <1>2, <1>3, <2>1, <2>2, TrackFacts
    <3> QED
      BY <1>6, <3>1
  <2>4. /\ ProfileLeft' /\ ProfileDue' /\ ToHandle' /\ AcknowledgedIsHandled'
        /\ inbox' \in Seq(Items) /\ handled' \subseteq Messages
        /\ current' = current /\ acked' = acked /\ cut' = cut
    BY <1>1, <1>5, <2>1, <2>2, <2>3, ReturnKeeps DEF x
  <2>5. Request' /\ ProfileInOrder'
    BY <1>1, <2>1, <2>2, <2>4, HandlerQueues DEF x
  <2>6. FlagsQueued' /\ Counts'
    BY <1>1, <2>1, AnswerQueues
  <2>7. TypeOK'
    BY <1>1, <1>3, <2>1, <2>2, <2>4, HandlerTypes DEF x
  <2> QED
    BY <2>4, <2>5, <2>6, <2>7 DEF SInv
<1>10. ASSUME NEW k \in 0 .. Len(Reply(x)), Sends(x), Track(Reply(x), k),
              waiting + k <= MaxWindow, raised < MaxRaised, raised' = raised + 1,
              UNCHANGED done,
              Escape \/ (Return(x) /\ (x \in ProfileNames => queued'[x] > 0))
       PROVE  SInv'
  <2>1. CASE Escape
    <3>1. /\ ProfileLeft' /\ ProfileDue' /\ ToHandle' /\ AcknowledgedIsHandled'
          /\ inbox' = <<>> /\ current' = <<>> /\ acked' = acked /\ handled' = handled
          /\ cut' = TRUE
      BY <2>1, EscapeKeeps
    <3>2. inbox' \in Seq(Items) /\ handled' \subseteq Messages
      BY <3>1 DEF SInv, TypeOK
    <3>3. Request' /\ ProfileInOrder'
      BY <1>1, <1>10, <3>1, HandlerQueues DEF x
    <3>4. FlagsQueued' /\ Counts'
      BY <1>1, <1>10, RaiseQueues
    <3>5. raised' \in 0 .. MaxRaised
      BY <1>3, <1>10
    <3>6. TypeOK'
      BY <1>1, <1>10, <3>1, <3>2, <3>5, HandlerTypes DEF x
    <3> QED
      BY <3>1, <3>3, <3>4, <3>6 DEF SInv
  <2>2. CASE Return(x) /\ (x \in ProfileNames => queued'[x] > 0)
    <3>1. /\ ProfileLeft' /\ ProfileDue' /\ ToHandle' /\ AcknowledgedIsHandled'
          /\ inbox' \in Seq(Items) /\ handled' \subseteq Messages
          /\ current' = current /\ acked' = acked /\ cut' = cut
      BY <1>1, <1>5, <1>10, <2>2, ReturnKeeps DEF x
    <3>2. Request' /\ ProfileInOrder'
      BY <1>1, <1>10, <3>1, HandlerQueues DEF x
    <3>3. FlagsQueued' /\ Counts'
      BY <1>1, <1>10, RaiseQueues
    <3>4. raised' \in 0 .. MaxRaised
      BY <1>3, <1>10
    <3>5. TypeOK'
      BY <1>1, <1>3, <1>10, <3>1, <3>4, HandlerTypes DEF x
    <3> QED
      BY <3>1, <3>2, <3>3, <3>5 DEF SInv
  <2> QED
    BY <1>10, <2>1, <2>2
<1>11. ASSUME NEW k \in 1 .. Len(Reply(x)), SendRaises(x, k)
       PROVE  SInv'
  <2>1. /\ Sends(x) /\ waiting + k <= MaxWindow /\ Track(Reply(x), k)
        /\ raised < MaxRaised /\ raised' = raised + 1 /\ UNCHANGED done
        /\ Escape \/ (Return(x) /\ x \in Messages)
    BY <1>11 DEF SendRaises, Catches
  <2>2. k \in 0 .. Len(Reply(x))
    BY <1>2
  <2>3. x \in Messages => x \notin ProfileNames
    BY SessionAssumption
  <2> QED
    BY <1>10, <2>1, <2>2, <2>3
<1>12. CASE WindowRefuses(x)
  <2>1. /\ Sends(x) /\ waiting + Len(Reply(x)) > MaxWindow
        /\ Track(Reply(x), MaxWindow - waiting)
        /\ raised < MaxRaised /\ raised' = raised + 1 /\ Escape /\ UNCHANGED done
    BY <1>12 DEF WindowRefuses
  <2>2. /\ MaxWindow - waiting \in 0 .. Len(Reply(x))
        /\ waiting + (MaxWindow - waiting) <= MaxWindow
    BY <1>2, <1>3, <2>1
  <2> QED
    BY <1>10, <2>1, <2>2
<1> QED
  BY <1>7, <1>8, <1>9, <1>11, <1>12 DEF Handle, x

-----------------------------------------------------------------------------
(* The acknowledgement, and the steps between datagrams                    *)

LEMMA AcknowledgeKeeps ==
  ASSUME SInv, NEW sent \in BOOLEAN, Acknowledge(sent)
  PROVE  SInv'
<1>1. /\ current # <<>> /\ inbox = <<>> /\ current' = <<>> /\ acked' \in {acked, acked \cup {current}}
      /\ UNCHANGED <<open, authenticated, registered, done, parts, inbox, queued,
                     waiting, handled, raised, cut>>
  BY DEF Acknowledge
<1>2. TypeOK'
  BY <1>1 DEF SInv, TypeOK, All
<1>3. FlagsQueued' /\ Counts' /\ ProfileLeft' /\ ProfileDue' /\ ToHandle'
  BY <1>1 DEF SInv, FlagsQueued, Counts, ProfileLeft, ProfileDue, ToHandle
<1>4. Request'
  BY <1>1 DEF SInv, Request
<1>5. ProfileInOrder'
  BY <1>1 DEF SInv, ProfileInOrder
<1>6. \A i \in 1 .. Len(current) :
        PartsOf[current[i].message] = 1 => current[i].message \in handled
  BY <1>1 DEF SInv, ToHandle
<1>7. AcknowledgedIsHandled'
  BY <1>1, <1>6 DEF SInv, AcknowledgedIsHandled
<1> QED
  BY <1>2, <1>3, <1>4, <1>5, <1>7 DEF SInv

LEMMA OtherwiseKeeps ==
  ASSUME SInv, Release \/ (\E sent \in BOOLEAN : Service(sent)) \/ End \/ UNCHANGED vars
  PROVE  SInv'
<1>1. /\ open' \in BOOLEAN /\ waiting' \in 0 .. MaxWindow
      /\ ~authenticated => waiting' = 0
      /\ UNCHANGED <<authenticated, registered, done, parts, current, inbox, queued,
                     acked, handled, raised, cut>>
  <2>1. /\ open \in BOOLEAN /\ waiting \in 0 .. MaxWindow /\ MaxWindow \in Nat
        /\ ~authenticated => waiting = 0
    BY SessionAssumption DEF SInv, TypeOK, Request
  <2>2. CASE Release
    BY <2>1, <2>2 DEF Release
  <2>3. CASE \E sent \in BOOLEAN : Service(sent)
    BY <2>1, <2>3 DEF Service
  <2>4. CASE End
    BY <2>1, <2>4 DEF End
  <2>5. CASE UNCHANGED vars
    BY <2>1, <2>5 DEF vars
  <2> QED
    BY <2>2, <2>3, <2>4, <2>5
<1>2. TypeOK'
  BY <1>1 DEF SInv, TypeOK, All
<1>3. FlagsQueued' /\ Counts' /\ ProfileLeft' /\ ProfileDue' /\ ToHandle' /\ AcknowledgedIsHandled'
  BY <1>1 DEF SInv, FlagsQueued, Counts, ProfileLeft, ProfileDue, ToHandle, AcknowledgedIsHandled
<1>4. Request'
  BY <1>1 DEF SInv, Request
<1>5. ProfileInOrder'
  BY <1>1 DEF SInv, ProfileInOrder
<1> QED
  BY <1>2, <1>3, <1>4, <1>5 DEF SInv

\* The service sends the physics payload, and no other of the profile.
LEMMA SampleKeeps ==
  ASSUME SInv, NEW sent \in BOOLEAN, SamplePhysics(sent)
  PROVE  SInv'
<1> DEFINE ph == "physics"  reply == <<ph>>
<1>1. /\ current = <<>> /\ inbox = <<>> /\ authenticated /\ registered
      /\ ph \in ProfileNames /\ waiting < MaxWindow /\ Track(reply, 1)
      /\ open' = sent
      /\ UNCHANGED <<authenticated, registered, done, parts, current, inbox, acked,
                     handled, raised, cut>>
  BY DEF SamplePhysics, Idle, SInv, TypeOK
<1>2. /\ ph \in Payloads /\ ph \notin OncePayloads /\ ph # "connection_request"
  BY <1>1, SessionAssumption DEF Payloads, OncePayloads, Names
<1>3. reply \in Seq(Payloads) /\ 1 \in 0 .. Len(reply) /\ reply[1] = ph
  BY <1>2
<1>4. queued \in [Payloads -> 0 .. Many] /\ Many \in Nat
  BY SessionAssumption DEF SInv, TypeOK, Many
<1> HIDE DEF ph, reply
<1>5. /\ queued' \in [Payloads -> 0 .. Many] /\ waiting' = waiting + 1
      /\ \A p \in Payloads : queued'[p] = queued[p] \/ queued'[p] = queued[p] + 1
      /\ \A p \in Payloads : p # ph => queued'[p] = queued[p]
      /\ queued'[ph] > 0
  <2>1. /\ queued' \in [Payloads -> 0 .. Many] /\ waiting' = waiting + 1
        /\ \A p \in Payloads : queued'[p] = queued[p] \/ queued'[p] = queued[p] + 1
        /\ \A p \in Payloads : (\A i \in 1 .. 1 : reply[i] # p) => queued'[p] = queued[p]
        /\ \A i \in 1 .. 1 : queued'[reply[i]] > 0
    BY <1>1, <1>3, <1>4, TrackFacts
  <2>2. \A i \in 1 .. 1 : i = 1
    OBVIOUS
  <2> QED
    BY <1>3, <2>1, <2>2
<1>6. \A p \in Payloads : queued[p] \in Nat /\ (queued[p] > 0 => queued'[p] > 0)
  BY <1>4, <1>5
<1>7. TypeOK'
  <2>1. waiting' \in 0 .. MaxWindow
    BY <1>1, <1>5, SessionAssumption DEF SInv, TypeOK
  <2> QED
    BY <1>1, <1>5, <2>1 DEF SInv, TypeOK, All
<1>8. FlagsQueued' /\ Counts'
  BY <1>1, <1>2, <1>5, <1>6, OnceArePayloads DEF SInv, FlagsQueued, Counts
<1>9. Request'
  BY <1>1, <1>2, <1>5, OnceArePayloads DEF SInv, Request, ph
<1>10. ProfileLeft' /\ ToHandle' /\ AcknowledgedIsHandled'
  BY <1>1 DEF SInv, ProfileLeft, ToHandle, AcknowledgedIsHandled
<1>11. \A i \in 1 .. Len(Profile) : Profile[i] \in Payloads /\ Len(Profile) \in Nat
  BY SessionAssumption DEF ProfileNames, Payloads
<1>12. ProfileDue'
  BY <1>1, <1>6, <1>11 DEF SInv, ProfileDue
<1>13. ProfileInOrder'
  <2> SUFFICES ASSUME NEW j \in 1 .. Len(Profile), queued'[Profile[j]] > 0,
                      Profile[j] # ph \/ ~cut \/ ph \in done
               PROVE  \A i \in 1 .. j : queued'[Profile[i]] > 0
    BY <1>1 DEF ProfileInOrder, ph
  <2>1. CASE queued[Profile[j]] > 0
    BY <1>6, <1>11, <2>1 DEF SInv, ProfileInOrder, ph
  <2>2. CASE ~(queued[Profile[j]] > 0)
    <3>1. Profile[j] = ph
      BY <1>5, <1>11, <2>2
    <3>2. ph \notin done
      <4>1. ph \in Flagged /\ FlagOf(ph) = ph
        BY <1>1, SessionAssumption DEF Flagged, FlagOf
      <4> QED
        BY <2>2, <3>1, <4>1 DEF SInv, FlagsQueued
    <3>3. \A i \in 1 .. Len(Profile) : queued[Profile[i]] > 0
      BY <1>1, <3>1, <3>2 DEF SInv, ProfileDue
    <3> QED
      BY <2>2, <3>3
  <2> QED
    BY <2>1, <2>2
<1> QED
  BY <1>7, <1>8, <1>9, <1>10, <1>12, <1>13 DEF SInv

LEMMA SInvStep == SInv /\ [Next]_vars => SInv'
<1> SUFFICES ASSUME SInv, [Next]_vars
             PROVE  SInv'
  OBVIOUS
<1>1. ASSUME NEW sent \in BOOLEAN, Promote(sent)
      PROVE  SInv'
  BY <1>1, PromoteKeeps
<1>2. ASSUME NEW sent \in BOOLEAN, Acknowledge(sent)
      PROVE  SInv'
  BY <1>2, AcknowledgeKeeps
<1>3. ASSUME NEW d \in Datagrams, Receive(d)
      PROVE  SInv'
  BY <1>3, ReceiveKeeps
<1>4. CASE Handle
  BY <1>4, HandleKeeps
<1>5. CASE Release \/ (\E sent \in BOOLEAN : Service(sent)) \/ End \/ UNCHANGED vars
  BY <1>5, OtherwiseKeeps
<1>6. ASSUME NEW sent \in BOOLEAN, SamplePhysics(sent)
      PROVE  SInv'
  BY <1>6, SampleKeeps
<1> QED
  BY <1>1, <1>2, <1>3, <1>4, <1>5, <1>6 DEF Next

LEMMA Invariance == Spec => []SInv
<1> QED
  BY SInvInit, SInvStep, PTL DEF Spec

-----------------------------------------------------------------------------
(* Theorems                                                                *)

\* No sequence of datagrams, exceptions and acknowledgements takes the session
\* out of its types, overfills the window or leaves a finished group behind.
THEOREM TypeCorrect == Spec => []TypeOK
<1>1. SInv => TypeOK
  BY DEF SInv
<1> QED
  BY <1>1, Invariance, PTL

\* A flag never stands for a payload that was not queued: the handlers set it
\* after the last of their sends, and are run again until then.
THEOREM FlagsAreHonest == Spec => []FlagMeansQueued
<1>1. ASSUME SInv
      PROVE  FlagMeansQueued
  <2>1. ASSUME NEW x \in Messages \cup ProfileNames, Flag(x) \subseteq done,
               NEW i \in 1 .. Len(Reply(x)), Flag(x) # {}
        PROVE  queued[Reply(x)[i]] > 0
    <3>1. x \in Items
      BY DEF Items
    <3>2. Reply(x)[i] \in Flagged /\ Flag(x) = {FlagOf(Reply(x)[i])}
      BY <2>1, <3>1, FlagFacts
    <3> QED
      BY <1>1, <2>1, <3>2 DEF SInv, FlagsQueued
  <2>2. "connection_request" \in done => queued["connection_request"] > 0
    <3>1. FlagOf("connection_request") = "connection_request"
      BY SessionAssumption DEF FlagOf, Names
    <3> QED
      BY <1>1, <3>1, OnceArePayloads DEF SInv, FlagsQueued
  <2> QED
    BY <2>1, <2>2 DEF FlagMeansQueued
<1> QED
  BY <1>1, Invariance, PTL

\* However often the network repeats a datagram, what is to be sent once is
\* queued at most once more than sends have raised.
THEOREM RepeatsAreExceptions == Spec => []EachRepeatHasAnException
<1>1. ASSUME SInv
      PROVE  EachRepeatHasAnException
  <2>1. \A p \in OncePayloads : queued[p] \in Nat /\ raised \in Nat
    BY <1>1, OnceArePayloads, SessionAssumption DEF SInv, TypeOK, Many
  <2> QED
    BY <1>1, <2>1 DEF SInv, Counts, EachRepeatHasAnException
<1> QED
  BY <1>1, Invariance, PTL

\* Nothing reliable is queued before the session is promoted, and the connection
\* request exactly once.
THEOREM RequestComesFirst == Spec => []ConnectionRequestFirst
<1>1. ASSUME SInv
      PROVE  ConnectionRequestFirst
  <2>1. authenticated \in BOOLEAN
    BY <1>1 DEF SInv, TypeOK
  <2> QED
    BY <1>1, <2>1 DEF SInv, Request, ConnectionRequestFirst
<1> QED
  BY <1>1, Invariance, PTL

\* The profile is sent in its order, whatever exceptions cut it into pieces, a
\* physics payload of the service excepted that follows such an exception.
THEOREM ProfileKeepsItsOrder == Spec => []ProfileInOrder
<1>1. SInv => ProfileInOrder
  BY DEF SInv
<1> QED
  BY <1>1, Invariance, PTL

\* Acknowledging comes last: no whole message of an acknowledged datagram has
\* been left without its handler.
THEOREM AcknowledgementComesLast == Spec => []AcknowledgedIsHandled
<1>1. SInv => AcknowledgedIsHandled
  BY DEF SInv
<1> QED
  BY <1>1, Invariance, PTL

-----------------------------------------------------------------------------
(* What the two refuted claims come to without exceptions                  *)

\* Until a send raises, a handler that has returned has queued all it is to send.
HandledQueued ==
  raised = 0 => \A m \in handled : \A i \in 1 .. Len(Reply(m)) : queued[Reply(m)[i]] > 0

LEMMA HandledQueuedStep == SInv /\ HandledQueued /\ [Next]_vars => HandledQueued'
<1> SUFFICES ASSUME SInv, HandledQueued, [Next]_vars, raised' = 0
             PROVE  \A m \in handled' : \A i \in 1 .. Len(Reply(m)) : queued'[Reply(m)[i]] > 0
  BY DEF HandledQueued
<1>1. /\ queued \in [Payloads -> 0 .. Many] /\ Many \in Nat /\ raised \in Nat
      /\ handled \subseteq Messages /\ Messages \subseteq Items
  BY SessionAssumption DEF SInv, TypeOK, Many, Items
<1>2. \A m \in handled : \A i \in 1 .. Len(Reply(m)) : Reply(m)[i] \in Payloads
  <2>1. ASSUME NEW m \in handled
        PROVE  \A i \in 1 .. Len(Reply(m)) : Reply(m)[i] \in Payloads
    <3>1. Reply(m) \in Seq(Payloads)
      BY <1>1, ReplyType
    <3> QED
      BY <3>1
  <2> QED
    BY <2>1
<1>3. ASSUME raised = 0, handled' = handled,
             \A p \in Payloads : queued[p] > 0 => queued'[p] > 0
      PROVE  \A m \in handled' : \A i \in 1 .. Len(Reply(m)) : queued'[Reply(m)[i]] > 0
  BY <1>2, <1>3 DEF HandledQueued
<1>4. ASSUME queued' = queued, handled' = handled, raised = 0
      PROVE  \A m \in handled' : \A i \in 1 .. Len(Reply(m)) : queued'[Reply(m)[i]] > 0
  BY <1>3, <1>4
<1>5. ASSUME NEW sent \in BOOLEAN, Promote(sent)
      PROVE  \A m \in handled' : \A i \in 1 .. Len(Reply(m)) : queued'[Reply(m)[i]] > 0
  <2>1. \A p \in Payloads : queued'[p] = queued[p] \/ queued'[p] = queued[p] + 1
    BY <1>1, <1>5 DEF Promote, Track
  <2>2. raised = 0 /\ handled' = handled
    BY <1>1, <1>5 DEF Promote
  <2> QED
    BY <1>1, <1>3, <2>1, <2>2
<1>6. CASE Handle
  <2> DEFINE x == Head(inbox)
  <2>1. x \in Items
    BY <1>6 DEF Handle, Busy, SInv, TypeOK, Items
  <2>2. /\ Reply(x) \in Seq(Payloads) /\ Len(Reply(x)) \in Nat
        /\ \A i \in 1 .. Len(Reply(x)) : Reply(x)[i] \in Payloads
    <3>1. Reply(x) \in Seq(Payloads)
      BY <2>1, ReplyType
    <3> HIDE DEF x
    <3> QED
      BY <3>1
  <2> HIDE DEF x
  <2>3. CASE Pass(x)
    <3>1. /\ queued' = queued /\ raised' = raised /\ ~Tries(x)
          /\ handled' = handled \cup ({x} \cap Messages)
      BY <2>3 DEF Pass, Return
    <3>2. \A i \in 1 .. Len(Reply(x)) : queued[Reply(x)[i]] > 0
      <4>1. CASE Reply(x) = <<>>
        BY <4>1
      <4>2. CASE Flag(x) \cap done # {}
        <5>1. ASSUME NEW i \in 1 .. Len(Reply(x))
              PROVE  queued[Reply(x)[i]] > 0
          <6>1. Reply(x)[i] \in Flagged /\ Flag(x) = {FlagOf(Reply(x)[i])}
            BY <2>1, <4>2, FlagFacts
          <6> QED
            BY <4>2, <6>1 DEF SInv, FlagsQueued
        <5> QED
          BY <5>1
      <4> QED
        BY <3>1, <4>1, <4>2 DEF Tries
    <3> QED
      BY <3>1, <3>2 DEF HandledQueued
  <2>4. CASE Raises(x)
    BY <1>4, <2>4 DEF Raises, Escape
  <2>5. CASE Answer(x)
    <3>1. /\ Track(Reply(x), Len(Reply(x))) /\ raised' = raised
          /\ handled' = handled \cup ({x} \cap Messages)
      BY <2>5 DEF Answer, Return
    <3>2. Len(Reply(x)) \in 0 .. Len(Reply(x))
      BY <2>2
    <3>3. /\ \A p \in Payloads : queued'[p] = queued[p] \/ queued'[p] = queued[p] + 1
          /\ \A i \in 1 .. Len(Reply(x)) : queued'[Reply(x)[i]] > 0
      BY <1>1, <2>2, <3>1, <3>2, TrackFacts
    <3>4. \A p \in Payloads : queued[p] > 0 => queued'[p] > 0
      BY <1>1, <3>3
    <3> QED
      BY <1>2, <3>1, <3>3, <3>4 DEF HandledQueued
  <2>6. CASE (\E k \in 1 .. Len(Reply(x)) : SendRaises(x, k)) \/ WindowRefuses(x)
    BY <1>1, <2>6 DEF SendRaises, WindowRefuses
  <2> QED
    BY <1>6, <2>3, <2>4, <2>5, <2>6 DEF Handle, x
<1>7. ASSUME NEW sent \in BOOLEAN, Acknowledge(sent)
      PROVE  \A m \in handled' : \A i \in 1 .. Len(Reply(m)) : queued'[Reply(m)[i]] > 0
  BY <1>4, <1>7 DEF Acknowledge
<1>8. ASSUME NEW d \in Datagrams, Receive(d)
      PROVE  \A m \in handled' : \A i \in 1 .. Len(Reply(m)) : queued'[Reply(m)[i]] > 0
  BY <1>4, <1>8 DEF Receive
<1>9. CASE Release \/ (\E sent \in BOOLEAN : Service(sent)) \/ End \/ UNCHANGED vars
  BY <1>4, <1>9 DEF Release, Service, End, vars
<1>10. ASSUME NEW sent \in BOOLEAN, SamplePhysics(sent)
       PROVE  \A m \in handled' : \A i \in 1 .. Len(Reply(m)) : queued'[Reply(m)[i]] > 0
  <2>1. \A p \in Payloads : queued'[p] = queued[p] \/ queued'[p] = queued[p] + 1
    BY <1>1, <1>10 DEF SamplePhysics, Track
  <2>2. raised = 0 /\ handled' = handled
    BY <1>10 DEF SamplePhysics
  <2> QED
    BY <1>1, <1>3, <2>1, <2>2
<1> QED
  BY <1>5, <1>6, <1>7, <1>8, <1>9, <1>10 DEF Next

\* As long as no send of a reliable payload has raised, every message whose handler
\* has returned has its whole answer in the reliable channel.
THEOREM AnswersAreComplete == Spec => []HandledQueued
<1>1. Init => HandledQueued
  BY DEF Init, HandledQueued
<1> QED
  BY <1>1, HandledQueuedStep, Invariance, PTL DEF Spec

\* The four packets follow an acknowledged dictionary unless a send has raised: the
\* exception that _send_application_bootstrap's caller swallows is the only way to
\* DictionaryAnsweredInFull's failure, however datagrams are lost and repeated.
THEOREM DictionaryFailsByExceptions == Spec => [](raised = 0 => DictionaryAnsweredInFull)
<1>1. SInv /\ HandledQueued => (raised = 0 => DictionaryAnsweredInFull)
  <2> SUFFICES ASSUME SInv, HandledQueued, raised = 0,
                      NEW d \in acked, NEW i \in 1 .. Len(d),
                      KindOf[d[i].message] = "dictionary", PartsOf[d[i].message] = 1,
                      NEW j \in 1 .. Len(Bootstrap)
               PROVE  queued[Bootstrap[j]] > 0
    BY DEF DictionaryAnsweredInFull
  <2> DEFINE m == d[i].message
  <2>1. m \in handled /\ m \in Messages
    BY DEF SInv, AcknowledgedIsHandled, TypeOK
  <2>2. m \notin ProfileNames
    BY <2>1, SessionAssumption
  <2>3. Reply(m) = Bootstrap
    BY <2>1, <2>2 DEF Reply
  <2> QED
    BY <2>1, <2>3 DEF HandledQueued
<1> QED
  BY <1>1, AnswersAreComplete, Invariance, PTL

\* An exception leaves _try_decrypt_established while something is left to do.
Interrupted == current # <<>> /\ inbox # <<>> /\ current' = <<>>

\* The frame is still in the reassembler, or its message is or will be handled.
Kept(f) ==
  \/ f.message \in handled
  \/ f.part \in parts[f.message]
  \/ \E a \in 1 .. Len(inbox) : inbox[a] = f.message

\* No frame of an acknowledged datagram, or of the one at hand, is lost.
FramesKept == \A d \in acked \cup {current} : \A i \in 1 .. Len(d) : Kept(d[i])

\* A frame that has arrived stays with the reassembler or completes its message.
LEMMA ReceiveKeepsFrames ==
  ASSUME SInv, FramesKept, NEW d \in Datagrams, Receive(d)
  PROVE  FramesKept'
<1> DEFINE profile == IF registered' THEN Profile ELSE <<>>
           item(i) == IF Completes(d[i]) THEN d[i].message ELSE "nothing"
           fs == {d[i] : i \in 1 .. Len(d)}
<1>1. /\ current = <<>> /\ inbox = <<>> /\ current' = d
      /\ acked' = acked /\ handled' = handled
      /\ inbox' = Steps(d, profile)
  BY DEF Receive, Idle, SInv, TypeOK
<1>2. /\ d # <<>> /\ Len(d) \in Nat
      /\ \A i \in 1 .. Len(d) :
           d[i].message \in Messages /\ d[i].part \in All(d[i].message)
  BY DatagramFacts
<1>3. \A i \in 1 .. Len(d) :
        i \in 1 .. Len(inbox') /\ (Completes(d[i]) => inbox'[i] = d[i].message)
  <2>1. inbox' = [i \in 1 .. Len(d) |-> item(i)] \o profile
    BY <1>1 DEF Steps
  <2>2. \A i \in 1 .. Len(d) : item(i) \in Items
    BY <1>2 DEF Items
  <2>3. profile \in Seq(Items)
    BY SessionAssumption DEF Items
  <2> HIDE DEF item, profile
  <2>4. \A i \in 1 .. Len(d) : i \in 1 .. Len(inbox') /\ inbox'[i] = item(i)
    BY <1>2, <2>1, <2>2, <2>3
  <2> QED
    BY <2>4 DEF item
<1>4. ASSUME NEW i \in 1 .. Len(d)
      PROVE  parts'[d[i].message] = Collected(d[i].message, d[i].part)
  <2> DEFINE m == d[i].message  f == CHOOSE g \in fs : g.message = m
  <2>1. m \in Messages
    BY <1>2
  <2>2. parts'[m] = Collected(m, f.part)
    BY <2>1 DEF Receive
  <2>3. f \in fs /\ f.message = m
    <3>1. \E g \in fs : g.message = m
      OBVIOUS
    <3> QED
      BY <3>1
  <2>4. f = d[i]
    <3> HIDE DEF f
    <3>1. PICK j \in 1 .. Len(d) : f = d[j]
      BY <2>3
    <3>2. j = i
      BY <2>3, <3>1, SessionAssumption
    <3> QED
      BY <3>1, <3>2
  <2> QED
    BY <2>2, <2>4
<1>5. ASSUME NEW i \in 1 .. Len(d)
      PROVE  Kept(d[i])'
  <2> DEFINE m == d[i].message  p == d[i].part
  <2>1. CASE Completes(d[i])
    BY <1>3, <2>1 DEF Kept
  <2>2. CASE ~Completes(d[i])
    <3>1. parts'[m] = parts[m] \cup {p}
      BY <1>4, <2>2 DEF Collected, Completes
    <3> QED
      BY <3>1 DEF Kept
  <2> QED
    BY <2>1, <2>2
<1>6. ASSUME NEW e \in acked, NEW j \in 1 .. Len(e)
      PROVE  Kept(e[j])'
  <2> DEFINE m == e[j].message  p == e[j].part
  <2>1. e \in Datagrams /\ m \in Messages
    <3>1. e \in Datagrams
      BY DEF SInv, TypeOK
    <3> QED
      BY <3>1, DatagramFacts
  <2>2. m \in handled \/ p \in parts[m]
    <3>1. Kept(e[j])
      BY DEF FramesKept
    <3> QED
      BY <1>1, <3>1 DEF Kept
  <2>3. CASE m \in handled
    BY <1>1, <2>3 DEF Kept
  <2>4. CASE p \in parts[m] /\ \E i \in 1 .. Len(d) : d[i].message = m
    <3>1. PICK i \in 1 .. Len(d) : d[i].message = m
      BY <2>4
    <3>2. CASE Completes(d[i])
      BY <1>3, <3>1, <3>2 DEF Kept
    <3>3. CASE ~Completes(d[i])
      <4>1. parts'[m] = parts[m] \cup {d[i].part}
        BY <1>4, <3>1, <3>3 DEF Collected, Completes
      <4> QED
        BY <2>4, <4>1 DEF Kept
    <3> QED
      BY <3>2, <3>3
  <2>5. CASE p \in parts[m] /\ ~ \E i \in 1 .. Len(d) : d[i].message = m
    <3>1. parts'[m] = parts[m]
      BY <2>1, <2>5 DEF Receive
    <3> QED
      BY <2>5, <3>1 DEF Kept
  <2> QED
    BY <2>2, <2>3, <2>4, <2>5
<1> QED
  BY <1>1, <1>5, <1>6 DEF FramesKept

\* A handler that returns takes its own message from the inbox and no other.
LEMMA ReturnKeepsFrames ==
  ASSUME SInv, FramesKept, inbox # <<>>, Return(Head(inbox)), parts' = parts
  PROVE  FramesKept'
<1> DEFINE x == Head(inbox)
<1>1. /\ inbox \in Seq(Items) /\ x = inbox[1] /\ Len(inbox) \in Nat
      /\ Len(inbox') = Len(inbox) - 1
      /\ \A a \in 1 .. Len(inbox) - 1 : inbox'[a] = inbox[a + 1]
  BY DEF SInv, TypeOK, Items, Return
<1>2. handled' = handled \cup ({x} \cap Messages) /\ current' = current /\ acked' = acked
  BY DEF Return
<1>3. \A d \in acked \cup {current} : \A i \in 1 .. Len(d) : d[i].message \in Messages
  <2>1. ASSUME NEW d \in acked \cup {current}
        PROVE  \A i \in 1 .. Len(d) : d[i].message \in Messages
    <3>1. d \in Datagrams \/ d = <<>>
      BY DEF SInv, TypeOK
    <3> QED
      BY <3>1, DatagramFacts
  <2> QED
    BY <2>1
<1> HIDE DEF x
<1>4. ASSUME NEW d \in acked \cup {current}, NEW i \in 1 .. Len(d)
      PROVE  Kept(d[i])'
  <2>1. Kept(d[i]) /\ d[i].message \in Messages
    BY <1>3 DEF FramesKept
  <2>2. CASE d[i].message \in handled \/ d[i].part \in parts[d[i].message]
    BY <1>2, <2>2 DEF Kept
  <2>3. ASSUME NEW a \in 1 .. Len(inbox), inbox[a] = d[i].message
        PROVE  Kept(d[i])'
    <3>1. CASE a = 1
      BY <1>1, <1>2, <2>1, <2>3, <3>1 DEF Kept
    <3>2. CASE a # 1
      <4>1. a - 1 \in 1 .. Len(inbox) - 1 /\ (a - 1) + 1 = a
        BY <1>1, <3>2
      <4>2. inbox'[a - 1] = d[i].message /\ a - 1 \in 1 .. Len(inbox')
        BY <1>1, <2>3, <4>1
      <4> QED
        BY <4>2 DEF Kept
    <3> QED
      BY <3>1, <3>2
  <2> QED
    BY <2>1, <2>2, <2>3 DEF Kept
<1> QED
  BY <1>2, <1>4 DEF FramesKept

LEMMA FramesKeptStep ==
  SInv /\ FramesKept /\ [Next]_vars /\ [~Interrupted]_vars => FramesKept'
<1> SUFFICES ASSUME SInv, FramesKept, [Next]_vars, [~Interrupted]_vars
             PROVE  FramesKept'
  OBVIOUS
<1>1. ASSUME UNCHANGED <<parts, inbox, handled>>, acked' \subseteq acked \cup {current},
             current' \in {current, <<>>}
      PROVE  FramesKept'
  <2>1. ASSUME NEW d \in acked' \cup {current'}, NEW i \in 1 .. Len(d)
        PROVE  Kept(d[i])'
    <3>1. d \in acked \cup {current} \/ d = <<>>
      BY <1>1
    <3>2. Kept(d[i])
      BY <2>1, <3>1 DEF FramesKept
    <3> QED
      BY <1>1, <3>2 DEF Kept
  <2> QED
    BY <2>1 DEF FramesKept
<1>2. ASSUME NEW d \in Datagrams, Receive(d)
      PROVE  FramesKept'
  BY <1>2, ReceiveKeepsFrames
<1>3. CASE Handle
  <2> DEFINE x == Head(inbox)
  <2>1. current # <<>> /\ inbox # <<>> /\ parts' = parts
    BY <1>3 DEF Handle, Busy
  <2>2. ~Escape
    <3>1. Escape => vars' # vars /\ Interrupted
      BY <2>1 DEF Escape, Interrupted, vars
    <3> QED
      BY <3>1
  <2>3. Return(x)
    BY <1>3, <2>2 DEF Handle, Pass, Raises, Answer, SendRaises, WindowRefuses
  <2> QED
    BY <2>1, <2>3, ReturnKeepsFrames
<1>4. ASSUME NEW sent \in BOOLEAN,
             Promote(sent) \/ Acknowledge(sent) \/ Service(sent) \/ SamplePhysics(sent)
      PROVE  FramesKept'
  BY <1>1, <1>4 DEF Promote, Acknowledge, Service, SamplePhysics
<1>5. CASE Release \/ End \/ UNCHANGED vars
  BY <1>1, <1>5 DEF Release, End, vars
<1> QED
  BY <1>2, <1>3, <1>4, <1>5 DEF Next

\* If no exception cuts a datagram short, what the comment on the acknowledgement
\* says is true of a message in any number of frames, which may arrive in any
\* order, repeated, and mixed with those of other messages: once all its frames
\* are acknowledged, it is handled.
THEOREM ParsedUnlessInterrupted ==
  Spec /\ [][~Interrupted]_vars => []AcknowledgedIsParsed
<1>1. Init => FramesKept
  BY DEF Init, FramesKept
<1>2. SInv /\ FramesKept => AcknowledgedIsParsed
  <2> SUFFICES ASSUME SInv, FramesKept, NEW m \in Messages,
                      \A p \in All(m) : \E d \in acked : \E i \in 1 .. Len(d) :
                         d[i] = [message |-> m, part |-> p],
                      m \notin handled, inbox = <<>>
               PROVE  FALSE
    BY DEF AcknowledgedIsParsed
  <2>1. ASSUME NEW p \in All(m)
        PROVE  p \in parts[m]
    <3>1. PICK d \in acked : \E i \in 1 .. Len(d) : d[i] = [message |-> m, part |-> p]
      OBVIOUS
    <3>2. PICK i \in 1 .. Len(d) : d[i] = [message |-> m, part |-> p]
      BY <3>1
    <3>3. Kept(d[i]) /\ d[i].message = m /\ d[i].part = p
      BY <3>2 DEF FramesKept
    <3> QED
      BY <3>3 DEF Kept
  <2>2. parts[m] \subseteq All(m) /\ parts[m] # All(m)
    BY DEF SInv, TypeOK
  <2> QED
    BY <2>1, <2>2
<1> QED
  BY <1>1, <1>2, FramesKeptStep, Invariance, PTL DEF Spec

=============================================================================
