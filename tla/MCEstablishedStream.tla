------------------------- MODULE MCEstablishedStream -------------------------
(***************************************************************************)
(* EstablishedStream with hints of three bits, so that both streams pass   *)
(* the end of the hint's range more than once; one starts at its hint, the *)
(* other above COUNTER_BASE.                                               *)
(***************************************************************************)
EXTENDS EstablishedStream

CONSTANTS e1, e2

MCEpochs == {e1, e2}
MCStart == [e \in MCEpochs |-> IF e = e1 THEN 3 ELSE 37]

=============================================================================
