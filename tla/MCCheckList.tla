------------------------------ MODULE MCCheckList ------------------------------
(* CheckList for TLC: three values; datasets of distinct values of length *)
(* 2 and 3 that order them differently, so that after a data(_) call an    *)
(* item's datum sits at another index, or is gone; defaultCheck true for   *)
(* every datum or for one only.                                            *)
EXTENDS CheckList

CONSTANTS v1, v2, v3, NoValue

MCValues == {v1, v2, v3}
MCDatasets == {<<v1, v2>>, <<v3, v2, v1>>, <<v2, v3>>}
MCAllTrue == [v \in MCValues |-> TRUE]
MCChecks == {MCAllTrue, [v \in MCValues |-> v = v2]}
====
