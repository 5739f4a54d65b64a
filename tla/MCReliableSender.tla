-------------------------- MODULE MCReliableSender --------------------------
(***************************************************************************)
(* ReliableSender on a small instance: payloads of one and of two frames.  *)
(***************************************************************************)
EXTENDS ReliableSender

MCFragmentCounts == {1, 2}

=============================================================================
