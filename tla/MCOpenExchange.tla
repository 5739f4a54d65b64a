--------------------------- MODULE MCOpenExchange ---------------------------
(***************************************************************************)
(* OpenExchange on a small instance: offers below and above the client's   *)
(* MTU, the smallest and the largest that are accepted and one that is     *)
(* refused, the padding of a join, and two key exchanges of the server.    *)
(***************************************************************************)
EXTENDS OpenExchange

CONSTANTS e1, e2

MCReplyMtus == {576, 1200, 1492, 1500}
MCEpochs == {e1, e2}

=============================================================================
