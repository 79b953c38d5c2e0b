------------------------------ MODULE MCParts ------------------------------
(* An instance of Parts for TLC. *)
EXTENDS Parts

FilesUpTo(n, values) == UNION {[1..k -> values] : k \in 0..n}

(* In Go one Read takes up to six bytes, and a window is a third of them; in
   Rust a piece is two bytes, its window one and the boundary four. *)
SmallCuts == [s \in Styles |-> IF s = "go" THEN 1 ELSE 2]
SmallDivisor == [s \in Styles |-> IF s = "go" THEN 3 ELSE 2]

(* One file of up to three bytes; of four or six, with a window of one or two;
   of five that are as many chunks, whose names do not sort by number; of
   seven, which two Reads take; two files of one name, of which the first may
   leave parts behind. *)
FewHistories ==
    {<<f>> : f \in FilesUpTo(3, 0..2)}
      \cup {<<f>> : f \in [1..4 -> 0..1]}
      \cup {<<f>> : f \in {<<2, 2, 1, 1, 0>>, <<1, 1, 1, 0, 2>>}}
      \cup {<<f>> : f \in {g \in [1..6 -> 0..2] : g[1] = 2 /\ g[2] = 0}}
      \cup {<<f>> : f \in {<<2, 2, 1, 1, 1, 1, 0>>, <<0, 1, 0, 0, 0, 2, 2>>}}
      \cup {<<f, g>> : f \in {<<2, 1, 0>>, <<0, 1, 0>>},
                       g \in FilesUpTo(2, 1..2)}
============================================================================
