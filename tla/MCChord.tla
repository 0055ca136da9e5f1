------------------------------- MODULE MCChord -------------------------------
(* Chord for TLC. Keys 1 and 2; the datasets give each key a different     *)
(* outgoing row, and the row 1 -> 2 differs from 2 -> 1, so a hover layout *)
(* read from the wrong chart or the wrong direction shows a wrong value.   *)
(* Every dataset has the key set {1, 2}.                                   *)
EXTENDS Chord, TLC

CONSTANTS A, B, NoValue

MCOneChart == {A}
MCTwoCharts == {A, B}
MCKeys == {1, 2, 3}
D1 == (<<1, 2>> :> 1) @@ (<<2, 1>> :> 2)
D2 == (<<1, 2>> :> 2) @@ (<<2, 2>> :> 1) @@ (<<2, 1>> :> 1)
D4 == (<<1, 1>> :> 1) @@ (<<1, 2>> :> 1) @@ (<<2, 1>> :> 2)
D5 == (<<2, 1>> :> 1) @@ (<<2, 2>> :> 2)
MCDatasets == {D1, D2, D4, D5}
====
