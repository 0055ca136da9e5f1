----------------------------- MODULE MCBiPartite -----------------------------
(* BiPartite for TLC: three primary and two secondary keys, rows of 0,   *)
(* 1, 4 or 5, every hover; pad 1 and min 30 as in biPartite's defaults, on *)
(* a plot 100 high. With three main bars the cut-off is 30/94 of the       *)
(* total: among keys of 1, 4 and 5 the key of 1 is below it, and the key   *)
(* of 4 is above it but scaled to 28.4 once the key of 1 has taken its     *)
(* minimum. (Rows of 10, 51 and 939 on a plot 600 high meet the same case, *)
(* but their nested exact layouts exceed TLC's integers.)                  *)
EXTENDS BiPartite

CONSTANTS none

MCPrim == {1, 2, 3}
MCSec == {1, 2}
MCVals == {0, 1, 4, 5}
====
