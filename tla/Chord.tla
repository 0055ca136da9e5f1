-------------------------------- MODULE Chord --------------------------------
(***************************************************************************)
(* viz.chord of src/scripts/lib/xpedite/jupyter/data/js/viz.v1.js: chord   *)
(* diagrams, each a closure, and the state they share without declaring    *)
(* it. relayout() assigns keys, subgrp, chordExist and reComputeLayout     *)
(* with no var in any enclosing scope, so in the non-strict IIFE they are  *)
(* properties of window, one set for every chord diagram on the page.      *)
(*                                                                         *)
(* A dataset is a function from <<source, target>> to the summed value of  *)
(* its rows (subgrp of that data); keys are integers sorted ascending. A   *)
(* group path's bound datum is its group record; the angles that           *)
(* viz_circularPartition and viz_getbars compute from the values are left  *)
(* out, as are chords and labels, which are joined like the groups.        *)
(***************************************************************************)
EXTENDS Integers, Sequences, FiniteSets, SequencesExt

CONSTANTS
    Charts,     \* the chord diagrams on the page
    Keys,       \* source and target keys
    Datasets,   \* the data arrays the caller may pass, as subgrp functions
    None        \* no dataset yet; no hovered source

ASSUME /\ Keys \subseteq Int
       /\ \A D \in Datasets : DOMAIN D \subseteq Keys \X Keys /\ DOMAIN D # {}

VARIABLES
    relaid,     \* the data of the last relayout() of any chart: window.keys
                \* and window.subgrp / chordExist were computed from it
    reCompute,  \* window.reComputeLayout
    data,       \* data, per chart
    laidOut,    \* the data groups and chords were last computed from
    drawn,      \* chord(sel) has run: sel is set
    display,    \* the data bound to the group paths, by index
    pointer,    \* the mouse is over one of the chart's paths
    hovered,    \* history: the source of the hover layout shown, or None
    refreshed   \* history: the last transition showed groups (transition(0))

vars == <<relaid, reCompute, data, laidOut, drawn, display, pointer, hovered,
          refreshed>>

Entry(src, type, val) == [source |-> src, type |-> type, value |-> val]

-----------------------------------------------------------------------------
(* keys: every source and target, without repeats, sorted by d3.ascending *)
KeyList(D) == SetToSortSeq({p[1] : p \in DOMAIN D} \cup {p[2] : p \in DOMAIN D}, <)

(* subgrp[s][t], 0 where no row s -> t exists                              *)
Cell(D, s, t) == IF <<s, t>> \in DOMAIN D THEN D[<<s, t>>] ELSE 0

RowSum(D, k) == SumFunctionOnSet([t \in ToSet(KeyList(D)) |-> Cell(D, k, t)],
                                 ToSet(KeyList(D)))

(* relayout()'s groups: per key, a "gs" group (to itself, value 0) and a   *)
(* "g" group with the key's outgoing total.                                *)
Groups(D) ==
    LET kl == KeyList(D) IN
    [i \in 1..2 * Len(kl) |->
        IF i % 2 = 1 THEN Entry(kl[(i + 1) \div 2], "gs", 0)
        ELSE Entry(kl[i \div 2], "g", RowSum(D, kl[i \div 2]))]

(* relayouts(f)'s newgroups, built over window.keys from window.subgrp;    *)
(* only f's own "g" group, fg, comes from the chart's groups.              *)
HoverGroupsTransposed(gD, ownD, f) ==
    LET kl == KeyList(gD) IN
    [i \in 1..2 * Len(kl) |->
        LET k == kl[(i + 1) \div 2] IN
        IF i % 2 = 1 THEN Entry(k, "gs", IF k = f THEN Cell(gD, k, k) ELSE 0)
        ELSE Entry(k, "g", IF k = f THEN RowSum(ownD, f) ELSE Cell(gD, k, f))]

HoverGroups(gD, ownD, f) ==
    LET kl == KeyList(gD) IN
    [i \in 1..2 * Len(kl) |->
        LET k == kl[(i + 1) \div 2] IN
        IF i % 2 = 1 THEN Entry(k, "gs", IF k = f THEN Cell(gD, k, k) ELSE 0)
        ELSE Entry(k, "g", IF k = f THEN RowSum(ownD, f) ELSE Cell(gD, f, k))]

(* relayouts(f) throws a TypeError when fg is undefined (f is no source of *)
(* the chart's own groups), when subgrp[f] is undefined (f is not among    *)
(* window.keys), or when the chart has more groups than newgroups, so that *)
(* groups.forEach reads newgroups[i] past its end.                         *)
HoverThrows(gD, ownD, f) ==
    \/ f \notin ToSet(KeyList(ownD))
    \/ f \notin ToSet(KeyList(gD))
    \/ Len(Groups(ownD)) > Len(Groups(gD))

(* transition(f): selectAll(".group").data(tempgroups) joins by index and  *)
(* only the update selection is transitioned: paths past the end of        *)
(* tempgroups keep their datum, and no path is entered for surplus groups. *)
Join(old, new) == [i \in DOMAIN old |-> IF i <= Len(new) THEN new[i] ELSE old[i]]

(* chord.groups(): if (reComputeLayout) relayout(); return groups.         *)
ChordGroupsCached(c) == laidOut[c]

ChordGroups(c) == IF reCompute THEN data[c] ELSE laidOut[c]

-----------------------------------------------------------------------------
Init ==
    /\ relaid = None
    /\ reCompute = FALSE
    /\ data = [c \in Charts |-> None]
    /\ laidOut = [c \in Charts |-> None]
    /\ drawn = [c \in Charts |-> FALSE]
    /\ display = [c \in Charts |-> << >>]
    /\ pointer = [c \in Charts |-> FALSE]
    /\ hovered = [c \in Charts |-> None]
    /\ refreshed = [c \in Charts |-> FALSE]

(* chord.data(_): data = _, reComputeLayout = true.                        *)
SetData(c, D) ==
    /\ data' = [data EXCEPT ![c] = D]
    /\ reCompute' = TRUE
    /\ refreshed' = [refreshed EXCEPT ![c] = FALSE]
    /\ UNCHANGED <<relaid, laidOut, drawn, display, pointer, hovered>>

(* chord(sel): relayout() of the chart's data, then a fresh set of paths,  *)
(* one per group. relayout() iterates data, so data() must have been set.  *)
Draw(c) ==
    /\ ~drawn[c] /\ data[c] # None
    /\ relaid' = data[c] /\ reCompute' = FALSE
    /\ laidOut' = [laidOut EXCEPT ![c] = data[c]]
    /\ drawn' = [drawn EXCEPT ![c] = TRUE]
    /\ display' = [display EXCEPT ![c] = Groups(data[c])]
    /\ refreshed' = [refreshed EXCEPT ![c] = TRUE]
    /\ UNCHANGED <<data, pointer, hovered>>

(* chord.update(_data): data = _data; relayout(); transition(0). Before    *)
(* chord(sel) has run, transition throws at sel.select after relayout has *)
(* already replaced the shared state.                                      *)
Update(c, D) ==
    /\ data' = [data EXCEPT ![c] = D]
    /\ relaid' = D /\ reCompute' = FALSE
    /\ laidOut' = [laidOut EXCEPT ![c] = D]
    /\ IF drawn[c]
       THEN /\ display' = [display EXCEPT ![c] = Join(display[c], Groups(D))]
            /\ hovered' = [hovered EXCEPT ![c] = None]
            /\ refreshed' = [refreshed EXCEPT ![c] = TRUE]
       ELSE UNCHANGED <<display, hovered, refreshed>>
    /\ UNCHANGED <<drawn, pointer>>

(* chord.mouseover(d) on the i-th group path: relayouts(d.source), then    *)
(* transition(1) with newgroups, unless relayouts throws.                  *)
Mouseover(c, i) ==
    /\ drawn[c] /\ ~pointer[c] /\ i \in DOMAIN display[c]
    /\ pointer' = [pointer EXCEPT ![c] = TRUE]
    /\ LET f == display[c][i].source IN
       IF HoverThrows(relaid, laidOut[c], f)
       THEN UNCHANGED <<display, hovered, refreshed>>
       ELSE /\ display' = [display EXCEPT ![c] =
                  Join(display[c], HoverGroups(relaid, laidOut[c], f))]
            /\ hovered' = [hovered EXCEPT ![c] = f]
            /\ refreshed' = [refreshed EXCEPT ![c] = FALSE]
    /\ UNCHANGED <<relaid, reCompute, data, laidOut, drawn>>

(* chord.mouseout: transition(0), whose chord.groups() relayouts first if  *)
(* window.reComputeLayout is set.                                          *)
Mouseout(c) ==
    /\ pointer[c]
    /\ pointer' = [pointer EXCEPT ![c] = FALSE]
    /\ LET g == ChordGroups(c) IN
       /\ laidOut' = [laidOut EXCEPT ![c] = g]
       /\ relaid' = IF reCompute THEN g ELSE relaid
       /\ reCompute' = FALSE
       /\ display' = [display EXCEPT ![c] = Join(display[c], Groups(g))]
    /\ hovered' = [hovered EXCEPT ![c] = None]
    /\ refreshed' = [refreshed EXCEPT ![c] = TRUE]
    /\ UNCHANGED <<data, drawn>>

Next ==
    \E c \in Charts :
        \/ \E D \in Datasets : SetData(c, D) \/ Update(c, D)
        \/ Draw(c)
        \/ \E i \in 1..2 * Cardinality(Keys) : Mouseover(c, i)
        \/ Mouseout(c)

Spec == Init /\ [][Next]_vars

-----------------------------------------------------------------------------
TypeOK ==
    /\ relaid \in Datasets \cup {None} /\ reCompute \in BOOLEAN
    /\ data \in [Charts -> Datasets \cup {None}]
    /\ laidOut \in [Charts -> Datasets \cup {None}]
    /\ drawn \in [Charts -> BOOLEAN] /\ pointer \in [Charts -> BOOLEAN]
    /\ \A c \in Charts : display[c] \in Seq([source : Keys, type : {"gs", "g"},
                                             value : Int])
    /\ hovered \in [Charts -> Keys \cup {None}]
    /\ refreshed \in [Charts -> BOOLEAN]

(* While the mouse rests on source f of a chart, every other "g" group of  *)
(* that chart shows what f sends to it in the chart's own data: relayouts  *)
(* builds newgroups from the shared keys and subgrp of whichever chart     *)
(* relaid out last.                                                        *)
HoverShowsOwnRow ==
    \A c \in Charts : hovered[c] # None =>
        \A i \in DOMAIN display[c] :
            display[c][i].type = "g" /\ display[c][i].source # hovered[c] =>
                display[c][i].value = Cell(laidOut[c], hovered[c], display[c][i].source)

(* After mouseout or update, the groups shown are those of the chart's     *)
(* current data, even when data() was set in between: chord.groups() must  *)
(* see this chart's reComputeLayout, which any chart's relayout resets.    *)
RefreshedShowsData ==
    \A c \in Charts : refreshed[c] => display[c] = Groups(data[c])

====
