---------------------------- MODULE MCLiveWidget ----------------------------
(* Two kernel batches, one may arrive before the chart exists and one     *)
(* after it; the view may be rendered twice.                              *)
EXTENDS LiveWidget

CONSTANTS b1, b2

MCBatches == {b1, b2}
MCMaxRenders == 2
=============================================================================
