------------------------------- MODULE MCLegend -------------------------------
(* Two legends on one page, each given data of two entries, rows(2) and   *)
(* height(36): what its defaults would be, so that one legend alone lays  *)
(* out the same grid on every draw, and only the page globals can tell    *)
(* the two apart.                                                          *)
EXTENDS Legend

CONSTANTS A, B, NoValue

MCLegends == {A, B}
====
