---------------------------- MODULE CheckSelection ----------------------------
(***************************************************************************)
(* What the check list of src/scripts/lib/xpedite/jupyter/data/js/viz.v1.js*)
(* (viz.form.checkList) promises about its selection, without the          *)
(* selectedIndices array, the list items or their checkboxes: the          *)
(* selection is a set of the data's values, and                            *)
(*   - drawing the list selects the values defaultCheck() accepts;         *)
(*   - a click on a value's item adds or removes that value, and no other; *)
(*   - All selects every value of the data and None clears the selection;  *)
(*   - a new data array keeps nothing but some values of its own.          *)
(* CheckList implements this specification                                 *)
(* (CheckList!ImplementsCheckSelection) while the data has no repeats.     *)
(***************************************************************************)
EXTENDS FiniteSets, SequencesExt

CONSTANTS Values, Datasets, Checks, AllTrue, None

VARIABLES
    data,          \* checkList.data()
    defaultCheck,  \* checkList.defaultCheck()
    drawn,         \* checkList(s) has run
    chosen,        \* the selected values
    clicked        \* the value of the item last clicked, or None

avars == <<data, defaultCheck, drawn, chosen, clicked>>

ValuesOf(D) == IF D = None THEN {} ELSE ToSet(D)

Init ==
    /\ data = None /\ defaultCheck = AllTrue /\ drawn = FALSE /\ chosen = {}
    /\ clicked = None

(* A new data array: before the first draw nothing is selected; after it, *)
(* some of the new values are.                                             *)
Load(D) ==
    /\ data' = D
    /\ chosen' \in SUBSET ToSet(D)
    /\ drawn \/ chosen' = {}
    /\ UNCHANGED <<defaultCheck, drawn, clicked>>

SetCheck(f) ==
    /\ defaultCheck' = f
    /\ UNCHANGED <<data, drawn, chosen, clicked>>

Draw ==
    /\ ~drawn /\ data # None
    /\ drawn' = TRUE
    /\ chosen' = {v \in ToSet(data) : defaultCheck[v]}
    /\ UNCHANGED <<data, defaultCheck, clicked>>

(* A click on the item of value v toggles v if it is still in the data.   *)
Toggle(v) ==
    /\ drawn
    /\ chosen' = IF v \in ValuesOf(data) THEN (chosen \ {v}) \cup ({v} \ chosen)
                 ELSE chosen
    /\ clicked' = v
    /\ UNCHANGED <<data, defaultCheck, drawn>>

SelectAll(all) ==
    /\ drawn
    /\ chosen' = IF all THEN ValuesOf(data) ELSE {}
    /\ UNCHANGED <<data, defaultCheck, drawn, clicked>>

Next ==
    \/ \E D \in Datasets : Load(D)
    \/ \E f \in Checks : SetCheck(f)
    \/ Draw
    \/ \E v \in Values : Toggle(v)
    \/ \E all \in BOOLEAN : SelectAll(all)

Spec == Init /\ [][Next]_avars
====
