------------------------------- MODULE CheckList -------------------------------
(***************************************************************************)
(* viz.form.checkList of src/scripts/lib/xpedite/jupyter/data/js/viz.v1.js:*)
(* a dropdown of checkboxes, one per datum, with "All" and "None" buttons. *)
(* The selection is the closure's selectedIndices array; each list item is *)
(* bound to its datum when checkList(s) draws it, and its checkbox is set  *)
(* by the click handlers.                                                  *)
(*                                                                         *)
(* A JavaScript array is a function from 1..MaxLen to its entries, None    *)
(* for a hole or an entry past its end (undefined). _onClick indexes the   *)
(* array by data().indexOf(d), which is -1 for a datum no longer in the   *)
(* data: selectedIndices[-1] is a property outside the array, kept in neg.*)
(* A checkbox given undefined is unchecked, and !undefined is true.        *)
(***************************************************************************)
EXTENDS Integers, Sequences, SequencesExt

CONSTANTS
    Values,     \* the data values
    Datasets,   \* the arrays checkList.data(_) may be given
    Checks,     \* the defaultCheck functions, Values -> BOOLEAN
    AllTrue,    \* defaultCheck's default, function(d){ return true }
    MaxLen,     \* bound on a dataset's length
    None        \* undefined

ASSUME /\ AllTrue \in Checks /\ \A f \in Checks : f \in [Values -> BOOLEAN]
       /\ \A D \in Datasets : D \in Seq(Values) /\ Len(D) <= MaxLen

VARIABLES
    data,          \* checkList.data()
    defaultCheck,  \* checkList.defaultCheck()
    allNoneButton, \* checkList.allNoneButton()
    drawn,         \* checkList(s) has run
    items,         \* the data bound to the list items, in DOM order
    checked,       \* each item's checkbox
    selected,      \* selectedIndices
    neg,           \* selectedIndices[-1]
    relaid,        \* history: data(_) was called after checkList(s)
    clicked        \* history: the datum of the item last clicked, or None

vars == <<data, defaultCheck, allNoneButton, drawn, items, checked, selected,
          neg, relaid, clicked>>

Entry == BOOLEAN \cup {None}

Truthy(x) == x = TRUE

(* data().indexOf(d), 1-based; 0 for -1.                                   *)
IndexOf(D, d) == IF d \in ToSet(D) THEN SelectInSeq(D, LAMBDA e : e = d) ELSE 0

(* An array of the given entries for the indices of D, holes beyond.       *)
ArrayOver(D, g) == [k \in 1..MaxLen |-> IF k <= Len(D) THEN g[k] ELSE None]

(* checkList.selectionList(): data().map((_, i) => selectedIndices[i]).    *)
SelectionList == [k \in 1..Len(data) |-> selected[k]]

-----------------------------------------------------------------------------
Init ==
    /\ data = None
    /\ defaultCheck = AllTrue
    /\ allNoneButton = TRUE
    /\ drawn = FALSE
    /\ items = << >> /\ checked = << >>
    /\ selected = [k \in 1..MaxLen |-> None] /\ neg = None
    /\ relaid = FALSE /\ clicked = None

(* checkList.data(_)                                                       *)
SetData(D) ==
    /\ data' = D
    /\ relaid' = drawn
    /\ UNCHANGED <<defaultCheck, allNoneButton, drawn, items, checked, selected, neg,
                   clicked>>

(* checkList.defaultCheck(_)                                               *)
SetDefaultCheck(f) ==
    /\ defaultCheck' = f
    /\ UNCHANGED <<data, allNoneButton, drawn, items, checked, selected, neg, relaid,
                   clicked>>

(* checkList.allNoneButton(_)                                              *)
SetAllNoneButton(b) ==
    /\ ~drawn
    /\ allNoneButton' = b
    /\ UNCHANGED <<data, defaultCheck, drawn, items, checked, selected, neg, relaid,
                   clicked>>

(* checkList(s): selectedIndices = data().map(defaultCheck()); the button, *)
(* the All/None buttons if allNoneButton(), and one item per datum whose   *)
(* checkbox is checked by defaultCheck() of the item's datum.              *)
Draw ==
    /\ ~drawn /\ data # None
    /\ selected' = ArrayOver(data, [k \in DOMAIN data |-> defaultCheck[data[k]]])
    /\ neg' = None
    /\ items' = data
    /\ checked' = [i \in 1..Len(data) |-> defaultCheck[data[i]]]
    /\ drawn' = TRUE
    /\ UNCHANGED <<data, defaultCheck, allNoneButton, relaid, clicked>>

(* _onClick that checks the box with the entry from before the toggle.    *)
ClickBeforeToggle(i) ==
    LET idx == IndexOf(data, items[i])
        old == IF idx = 0 THEN neg ELSE selected[idx]
    IN  /\ drawn /\ i \in DOMAIN items
        /\ selected' = IF idx = 0 THEN selected ELSE [selected EXCEPT ![idx] = ~Truthy(old)]
        /\ neg' = IF idx = 0 THEN ~Truthy(old) ELSE neg
        /\ checked' = [checked EXCEPT ![i] = Truthy(old)]
        /\ clicked' = items[i]
        /\ UNCHANGED <<data, defaultCheck, allNoneButton, drawn, items, relaid>>

(* _onClick that toggles the entry at the item's DOM position.            *)
ClickByPosition(i) ==
    LET new == ~Truthy(selected[i])
    IN  /\ drawn /\ i \in DOMAIN items
        /\ selected' = [selected EXCEPT ![i] = new]
        /\ checked' = [checked EXCEPT ![i] = new]
        /\ clicked' = items[i]
        /\ UNCHANGED <<data, defaultCheck, allNoneButton, drawn, items, neg, relaid>>

(* _onClick(d, i) on item i: idx = data().indexOf(d); the checkbox is set  *)
(* to (selectedIndices[idx] = !selectedIndices[idx]); then onClick()(d, i),*)
(* a caller's callback that changes nothing here.                          *)
Click(i) ==
    LET idx == IndexOf(data, items[i])
        new == ~Truthy(IF idx = 0 THEN neg ELSE selected[idx])
    IN  /\ drawn /\ i \in DOMAIN items
        /\ selected' = IF idx = 0 THEN selected ELSE [selected EXCEPT ![idx] = new]
        /\ neg' = IF idx = 0 THEN new ELSE neg
        /\ checked' = [checked EXCEPT ![i] = new]
        /\ clicked' = items[i]
        /\ UNCHANGED <<data, defaultCheck, allNoneButton, drawn, items, relaid>>

(* allNoneClicked that sets selectedIndices and leaves the checkboxes.     *)
AllNoneNoBoxes(v) ==
    /\ drawn /\ allNoneButton
    /\ selected' = ArrayOver(data, [k \in DOMAIN data |-> v])
    /\ neg' = None
    /\ UNCHANGED <<data, defaultCheck, allNoneButton, drawn, items, checked, relaid,
                   clicked>>

(* allNoneClicked that sets one checkbox per datum of the current data.   *)
AllNoneOverData(v) ==
    LET sel == ArrayOver(data, [k \in DOMAIN data |-> v])
    IN  /\ drawn /\ allNoneButton
        /\ selected' = sel
        /\ neg' = None
        /\ checked' = [i \in 1..Len(data) |-> Truthy(sel[i])]
        /\ UNCHANGED <<data, defaultCheck, allNoneButton, drawn, items, relaid, clicked>>

(* allNoneClicked(d): selectedIndices = data().map(() => d == "All"); each *)
(* item's checkbox is set to selectedIndices[i], by DOM position.          *)
AllNone(v) ==
    LET sel == ArrayOver(data, [k \in DOMAIN data |-> v])
    IN  /\ drawn /\ allNoneButton
        /\ selected' = sel
        /\ neg' = None
        /\ checked' = [i \in DOMAIN items |-> Truthy(sel[i])]
        /\ UNCHANGED <<data, defaultCheck, allNoneButton, drawn, items, relaid, clicked>>

Next ==
    \/ \E D \in Datasets : SetData(D)
    \/ \E f \in Checks : SetDefaultCheck(f)
    \/ \E b \in BOOLEAN : SetAllNoneButton(b)
    \/ Draw
    \/ \E i \in 1..MaxLen : Click(i)
    \/ \E v \in BOOLEAN : AllNone(v)

Spec == Init /\ [][Next]_vars

-----------------------------------------------------------------------------
TypeOK ==
    /\ data \in Datasets \cup {None}
    /\ defaultCheck \in Checks /\ allNoneButton \in BOOLEAN /\ drawn \in BOOLEAN
    /\ items \in Seq(Values) /\ checked \in Seq(BOOLEAN)
    /\ DOMAIN checked = DOMAIN items
    /\ selected \in [1..MaxLen -> Entry] /\ neg \in Entry
    /\ relaid \in BOOLEAN /\ clicked \in Values \cup {None}

(* While the data stays what was drawn, every checkbox shows whether its   *)
(* datum is in checkList.selectionList(), through any sequence of clicks   *)
(* on items (toggled by data().indexOf) and All/None (set by position).   *)
CheckedMatchesSelection ==
    drawn /\ ~relaid =>
        \A i \in DOMAIN items : checked[i] = Truthy(SelectionList[i])

(* The values whose entry of checkList.selectionList() is true.            *)
Chosen ==
    IF data = None THEN {}
    ELSE {data[k] : k \in {k \in 1..Len(data) : Truthy(selected[k])}}

Selection == INSTANCE CheckSelection WITH chosen <- Chosen

(* The check list does what CheckSelection promises: a click toggles the   *)
(* clicked item's value, found by data().indexOf even after data(_) has    *)
(* changed the data, All/None fill or clear the selection, and the draw    *)
(* selects what defaultCheck() accepts.                                    *)
ImplementsCheckSelection == Selection!Spec
====
