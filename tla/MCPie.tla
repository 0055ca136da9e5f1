-------------------------------- MODULE MCPie --------------------------------
(* viz.pie with a duration of 5 frames: long enough for a fold, an unfold *)
(* and a second fold to land inside one pending label transition.         *)
EXTENDS Pie

MCDuration == 5
====
