------------------------- MODULE MCSplitReassembler -------------------------
(***************************************************************************)
(* SplitReassembler with two groups and three keys.  The first key is used *)
(* by a message of two fragments and again by one of three, the second by  *)
(* a message with a piece that exceeds the byte limit, and the third by    *)
(* two messages of the same size.  One fragment announces too many parts.  *)
(***************************************************************************)
EXTENDS SplitReassembler, TLC

Fragment(k, n, i, p) == [key |-> k, count |-> n, index |-> i, piece |-> p]

MCFrames ==
  {Fragment("k1", 2, i, <<"a", i>>) : i \in 0 .. 1}
    \cup {Fragment("k1", 3, i, <<"b", i>>) : i \in 0 .. 2}
    \cup {Fragment("k2", 2, i, <<"c", i>>) : i \in 0 .. 1}
    \cup {Fragment("k2", 1, 0, <<"big", 0>>)}
    \cup {Fragment("k3", 2, i, <<s, i>>) : i \in 0 .. 1, s \in {"d", "e"}}
    \cup {Fragment("k3", 4, 0, <<"f", 0>>)}

MCSize == [p \in {f.piece : f \in MCFrames} |->
             IF p[1] = "big" THEN 4 ELSE IF p = <<"c", 1>> THEN 3 ELSE 1]

=============================================================================
