--------------------------- MODULE MCClientSession ---------------------------
(***************************************************************************)
(* ClientSession with one message of each kind that is answered.  The      *)
(* acceptance shares a datagram with a ping, the dictionary with a marker, *)
(* and the challenge comes in two frames, the second one behind a progress *)
(* token.  One acceptance does not parse.  Two packets stand for the four  *)
(* that answer the dictionary; the profile is the whole one.               *)
(***************************************************************************)
EXTENDS ClientSession

MCKindOf ==
  [accept |-> "accepted", bad |-> "accepted", ping |-> "ping", dict |-> "dictionary",
   mark |-> "marker", token |-> "token", chal |-> "challenge"]

MCMessages == DOMAIN MCKindOf

MCPartsOf == [m \in MCMessages |-> IF m = "chal" THEN 2 ELSE 1]

Frame(m, p) == [message |-> m, part |-> p]

MCDatagrams ==
  {<<Frame("ping", 0), Frame("accept", 0)>>,
   <<Frame("bad", 0)>>,
   <<Frame("dict", 0), Frame("mark", 0)>>,
   <<Frame("chal", 0)>>,
   <<Frame("token", 0), Frame("chal", 1)>>}

MCBootstrap == <<"protocol_sync", "submit_ticket">>

MCProfile == <<"player_ready", "avatar_description", "physics">>

MCMalformed == {"bad"}

=============================================================================
