--------------------------- MODULE MCOrderedList ---------------------------
(* A small instance of OrderedList for TLC. *)
EXTENDS OrderedList, TLC

CONSTANTS r1, r2, r3, m1, m2

(* Rows and movers are interchangeable. *)
Symmetry == Permutations(Rows) \cup Permutations(Movers)

(* The integers where something changes: both ends of the space, its       *)
(* middle, and both sides of every change of width.                        *)
Edges ==
    {<<-2, 0, 0>>, <<-2, 0, 1>>, <<-2, 3, 3>>, <<-1, 0>>, <<-1, 3>>,
     <<1, 0>>, <<1, 3>>, <<2, 0, 0>>, <<2, 3, 2>>, <<2, 3, 3>>}

(* No fraction, and fractions whose digits are the lowest, its neighbour   *)
(* and the highest.                                                        *)
Fractions == {<<>>, <<1>>, <<3>>, <<0, 1>>, <<0, 3>>, <<1, 1>>, <<3, 1>>, <<3, 3>>}

Starts == {e \o f : e \in Edges, f \in Fractions} \ {smallestInteger}
=============================================================================
