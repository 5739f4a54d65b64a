---------------------------- MODULE MCReplicator ----------------------------
(***************************************************************************)
(* Replicator on a small instance: one message for each way to set or to   *)
(* withdraw evidence, alone and in pairs, with refusals between.           *)
(***************************************************************************)
EXTENDS Replicator

Plain(id, block) == [id |-> id, block |-> block, holds |-> {}, text |-> "none"]

Service == Plain("data", "NEW_INSTANCE")
Player == [Service EXCEPT !.holds = {"name"}]
Ready == [Plain("data", "PLAYER_READY") EXCEPT !.holds = {"identity"}]
Beat == [Plain("data", "HEARTBEAT") EXCEPT !.text = "figure"]
Torso == [Plain("data", "other") EXCEPT !.text = "part", !.holds = {"name", "observer"}]
Aliased == Plain("data", "AVATAR")
Accepted == Plain("accepted", "other")

MCMessages == {Service, Player, Ready, Beat, Torso, Aliased, Accepted}

MCDatagrams ==
  {<<m>> : m \in MCMessages} \cup {<<Ready, Service>>, <<Beat, Unfit, Service>>, <<Fragment, Torso>>}

MCAlias == [a \in {"character", "avatar", "observer", "heartbeat", "physics"} |->
  CASE a = "heartbeat" -> {"HEARTBEAT"} [] a \in {"character", "physics"} -> {"AVATAR"} [] OTHER -> {}]

=============================================================================
