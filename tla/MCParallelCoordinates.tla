------------------------- MODULE MCParallelCoordinates -------------------------
(* ParallelCoordinates for TLC: three dimensions on a plot 22 wide, so     *)
(* that dimensionScale puts them at 1, 11 and 21; drag x's left of the     *)
(* plot (clamped to 0), between the slots and right of it (clamped to 22); *)
(* three rows whose values differ on every dimension; a plot 4 high with   *)
(* one brush selection per axis; transitions of one frame.                 *)
EXTENDS ParallelCoordinates

CONSTANTS NoValue

MCDims == <<"a", "b", "c">>
MCRows == { [a |-> 0, b |-> 2, c |-> 1],
            [a |-> 2, b |-> 0, c |-> 1],
            [a |-> 1, b |-> 1, c |-> 0] }
MCXs == {-3, 6, 16, 25}
MCBrushes == {<<0, 2>>}
====
