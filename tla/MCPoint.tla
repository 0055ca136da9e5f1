------------------------------- MODULE MCPoint -------------------------------
(* viz.point on a 4-pixel-high plot, 4 or 8 wide. Keys and values lie in  *)
(* 0..2 and every dataset spans at least two of each, so each scale has a *)
(* proper domain and maps onto whole pixels. DA, DB and DC differ in their *)
(* extents, and no two points of one dataset coincide. orient(_) may be  *)
(* given each of the four names or an unknown one; keyScale(z) and        *)
(* valueScale(_) a scale over [0, 2] onto [0, 8] and onto [4, 0].         *)
EXTENDS Point

CONSTANTS NoValue

DA == << <<0, 0>>, <<1, 2>> >>
DB == << <<0, 1>>, <<2, 0>>, <<1, 2>> >>
DC == << <<1, 0>>, <<2, 1>>, <<1, 1>> >>

MCDatasets == {DA, DB, DC}
MCWidths == {4, 8}
MCOrients == {1, 2, 3, 4, NoValue}
MCKeyScales == {[d0 |-> 0, d1 |-> 2, r0 |-> 0, r1 |-> 8]}
MCValueScales == {[d0 |-> 0, d1 |-> 2, r0 |-> 4, r1 |-> 0]}

(* A rectangle over the whole plot, and two whose edges fall on points.    *)
MCRects == { [x0 |-> 0, y0 |-> 0, x3 |-> 9, y3 |-> 5],
             [x0 |-> 2, y0 |-> 0, x3 |-> 9, y3 |-> 3],
             [x0 |-> 0, y0 |-> 2, x3 |-> 4, y3 |-> 5] }
====
