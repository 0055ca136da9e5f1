---------------------------- MODULE MCLiveChart ----------------------------
(* Bounds for checking LiveChart with TLC: a 4-unit window, a 2-unit       *)
(* initial brush, three units of clock past the first frame (so the window *)
(* slides past its whole initial brush) and two pushed ticks (so a redraw  *)
(* both keeps and drops ticks, and enter() adds more than one rect).       *)
EXTENDS LiveChart

MCPastDuration == 4
MCBrushWidth == 2
MCMaxTime == 7
MCMaxPush == 2
=============================================================================
