--------------------------------- MODULE Pie ---------------------------------
(***************************************************************************)
(* Folding and unfolding of viz.pie in                                     *)
(* src/scripts/lib/xpedite/jupyter/data/js/viz.v1.js. pie(sel) draws arcs  *)
(* and labels; fold() and unfold() start d3 transitions of the arcs and    *)
(* change the labels' text, unfold() through a transition delayed by the   *)
(* duration.                                                               *)
(*                                                                         *)
(* Time is counted in frames of the d3 timer; a transition ends or starts  *)
(* a number of frames after it was scheduled. A newer arc transition on a  *)
(* path interrupts the older one when it starts, so the arcs go where the  *)
(* last scheduled transition takes them. A pending transition is its       *)
(* remaining frames. The arc geometry (d3.arc, d3.pie angles) is left out: *)
(* arcs are "open" or "closed" (collapsed onto their start angle).         *)
(***************************************************************************)
EXTENDS Integers, FiniteSets

CONSTANTS Duration   \* pie.duration(), in frames (500 ms by default)


VARIABLES
    hasData,      \* pie.data(x) has been called
    gSet,         \* pie(sel) has run, if only up to its TypeError: g is set
    drawn,        \* .viz-pie holds arcs and labels
    folded,       \* the closure's folded flag
    arcTarget,    \* where the last arc transition takes the paths
    arcLeft,      \* frames until the arcs get there
    labelText,    \* the labels' text: "label" or ""
    labelTimers   \* remaining frames of pending label text transitions

vars == <<hasData, gSet, drawn, folded, arcTarget, arcLeft, labelText, labelTimers>>

Shape(f) == IF f THEN "closed" ELSE "open"

Init ==
    /\ hasData = FALSE /\ gSet = FALSE /\ drawn = FALSE /\ folded = FALSE
    /\ arcTarget = "open" /\ arcLeft = 0
    /\ labelText = "" /\ labelTimers = {}

(* pie.data(x)                                                             *)
SetData ==
    /\ hasData' = TRUE
    /\ UNCHANGED <<gSet, drawn, folded, arcTarget, arcLeft, labelText, labelTimers>>

(* pie.createFolded(): folded = true, whenever it is called; the arcs and  *)
(* labels already drawn are left as they are.                              *)
CreateFolded ==
    /\ folded' = TRUE
    /\ UNCHANGED <<hasData, gSet, drawn, arcTarget, arcLeft, labelText, labelTimers>>

(* pie(sel) before pie.data(x): g = sel and an empty .viz-pie is appended, *)
(* then d3pie()(undefined) throws. No pie was drawn before, as data, once  *)
(* set, stays set.                                                         *)
DrawBeforeData ==
    /\ ~hasData
    /\ gSet' = TRUE
    /\ UNCHANGED <<hasData, drawn, folded, arcTarget, arcLeft, labelText, labelTimers>>

(* pie(sel), with pie.data() set: remove the old .viz-pie, append arcs    *)
(* (collapsed if folded) and labels (empty if folded). Transitions still   *)
(* pending on the removed paths and labels no longer show.                 *)
Draw ==
    /\ hasData
    /\ gSet' = TRUE /\ drawn' = TRUE
    /\ arcTarget' = Shape(folded) /\ arcLeft' = 0
    /\ labelText' = IF folded THEN "" ELSE "label"
    /\ labelTimers' = {}
    /\ UNCHANGED <<hasData, folded>>

(* pie.fold(): if (folded) return; arcs transition to their start angle,   *)
(* labels' text set to "" at once; folded = true. Before pie(sel), g.each *)
(* throws and nothing changes; after a pie(sel) that threw, .viz-pie has   *)
(* no arcs or labels to change.                                            *)
Fold ==
    /\ gSet /\ ~folded
    /\ folded' = TRUE
    /\ \/ drawn /\ arcTarget' = "closed" /\ arcLeft' = Duration /\ labelText' = ""
       \/ ~drawn /\ UNCHANGED <<arcTarget, arcLeft, labelText>>
    /\ UNCHANGED <<hasData, gSet, drawn, labelTimers>>

(* pie.unfold() that rebinds the labels but gives them no text transition.*)
UnfoldNoLabels ==
    /\ gSet /\ hasData /\ folded
    /\ folded' = FALSE
    /\ \/ drawn /\ arcTarget' = "open" /\ arcLeft' = Duration
       \/ ~drawn /\ UNCHANGED <<arcTarget, arcLeft>>
    /\ UNCHANGED <<hasData, gSet, drawn, labelText, labelTimers>>

(* pie.unfold() whose label transition also waits out its own duration. *)
UnfoldDelayedTwice ==
    /\ gSet /\ hasData /\ folded
    /\ folded' = FALSE
    /\ \/ drawn /\ arcTarget' = "open" /\ arcLeft' = Duration
          /\ labelTimers' = labelTimers \cup {2 * Duration}
       \/ ~drawn /\ UNCHANGED <<arcTarget, arcLeft, labelTimers>>
    /\ UNCHANGED <<hasData, gSet, drawn, labelText>>

(* pie.unfold(): if (!folded) return; arcs transition back to their        *)
(* angles; the labels get a transition delayed by the duration that sets   *)
(* their text; folded = false. Before pie(sel) g.each throws, and before   *)
(* pie.data(x) d3pie()(undefined) does, with nothing changed.              *)
Unfold ==
    /\ gSet /\ hasData /\ folded
    /\ folded' = FALSE
    /\ \/ drawn /\ arcTarget' = "open" /\ arcLeft' = Duration
          /\ labelTimers' = labelTimers \cup {Duration}
       \/ ~drawn /\ UNCHANGED <<arcTarget, arcLeft, labelTimers>>
    /\ UNCHANGED <<hasData, gSet, drawn, labelText>>

(* A frame of the d3 timer: running transitions advance, and a label       *)
(* transition whose delay has passed starts and sets the label text.       *)
Frame ==
    /\ arcLeft > 0 \/ labelTimers # {}
    /\ arcLeft' = IF arcLeft > 0 THEN arcLeft - 1 ELSE 0
    /\ labelTimers' = {t - 1 : t \in labelTimers \ {1}}
    /\ labelText' = IF 1 \in labelTimers THEN "label" ELSE labelText
    /\ UNCHANGED <<hasData, gSet, drawn, folded, arcTarget>>

Next ==
    \/ SetData
    \/ CreateFolded
    \/ DrawBeforeData
    \/ Draw
    \/ Fold
    \/ Unfold
    \/ Frame

Spec == Init /\ [][Next]_vars

-----------------------------------------------------------------------------
TypeOK ==
    /\ hasData \in BOOLEAN /\ gSet \in BOOLEAN
    /\ drawn \in BOOLEAN /\ folded \in BOOLEAN
    /\ arcTarget \in {"open", "closed"} /\ arcLeft \in 0..Duration
    /\ labelText \in {"label", ""} /\ labelTimers \subseteq 1..Duration

(* Once the arcs of an unfolded pie have settled, its labels show: a fold  *)
(* and an unfold in quick succession must not leave the labels blank.      *)
LabelsShownWhenOpen ==
    drawn /\ ~folded /\ arcLeft = 0 /\ labelTimers = {} => labelText = "label"
====
