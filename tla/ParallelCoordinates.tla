------------------------- MODULE ParallelCoordinates -------------------------
(***************************************************************************)
(* viz.pc of src/scripts/lib/xpedite/jupyter/data/js/viz.v1.js after       *)
(* pc(sel) has drawn it: dragging a dimension's axis to reorder the axes   *)
(* (dragstart, drag, dragend), brushing an axis to filter the foreground   *)
(* (brushend), and the d3 transitions dragend starts.                      *)
(*                                                                         *)
(* A row is a function from dimensions to values. The x of a dimension is  *)
(* dimensionScale(d), a point scale with outer padding 0.1 over [0,width]; *)
(* the y of a value is valueScale[d], linear from the data's extent onto   *)
(* [height, 0]. Every foreground path passes through the same x's, so the *)
(* foreground is one path: the sequence of <<dimension, x>> it visits.     *)
(* A transition is its target and the frames it has left; the d3 timer     *)
(* applies its tween on every frame, over any attribute set directly in   *)
(* between, and leaves the target when it ends.                            *)
(***************************************************************************)
EXTENDS Integers, Sequences, FiniteSets, SequencesExt

CONSTANTS
    Dims,       \* pc.dimensions(), in the order the caller gives them
    Rows,       \* pc.data()
    Width,      \* pc.width()
    Height,     \* pc.height()
    Xs,         \* the pointer x's a drag event may carry
    Brushes,    \* the brush selections [y0, y1] brushend may see
    Duration,   \* the 500 ms of dragend's transitions, in frames
    None        \* null / undefined

ASSUME /\ Dims \in Seq(STRING) /\ Len(Dims) > 1
       /\ Width \in Nat /\ Height \in Nat \ {0} /\ Duration \in Nat \ {0}
       /\ Xs \subseteq Int /\ Brushes \subseteq (0..Height) \X (0..Height)

DimSet == ToSet(Dims)

VARIABLES
    dims,       \* the dimensions array, which drag sorts in place
    domain,     \* dimensionScale.domain(): a copy of dims
    dragging,   \* the dragged dimension and its x, or None
    axisAt,     \* each .dimension group's translate x
    axisTr,     \* each group's pending transform transition, or None
    fg,         \* the foreground path
    fgTr,       \* the foreground's pending path transition, or None
    bgVisible,  \* the background is not hidden
    bgTr,       \* frames until the background's delayed visibility
                \* transition, 0 if none is pending
    brushSel,   \* brushSelections, per dimension
    shown       \* the rows whose foreground path is displayed

vars == <<dims, domain, dragging, axisAt, axisTr, fg, fgTr, bgVisible, bgTr,
          brushSel, shown>>

-----------------------------------------------------------------------------
IndexIn(s, d) == SelectInSeq(s, LAMBDA e : e = d)

(* dimensionScale(d): step = width / (n - 1 + 2 * 0.1), first point at 0.1 *)
(* step.                                                                   *)
Slot(dom, d) == (Width * (1 + 10 * (IndexIn(dom, d) - 1))) \div (10 * (Len(dom) - 1) + 2)

(* position(d): the drag x of a dragged dimension, else dimensionScale(d). *)
Position(dom, dr, d) == IF dr # None /\ dr.dim = d THEN dr.x ELSE Slot(dom, d)

(* _path: the dimensions in array order at their positions.                *)
Path(s, dom, dr) == [i \in 1..Len(s) |-> <<s[i], Position(dom, dr, s[i])>>]

(* dimensions.sort(position(a) - position(b)): a stable sort.              *)
SortByPosition(s, dom, dr) ==
    LET P(d) == Position(dom, dr, d)
        Before(e, d) == P(e) < P(d) \/ (P(e) = P(d) /\ IndexIn(s, e) < IndexIn(s, d))
        Rank(d) == Cardinality({e \in ToSet(s) : Before(e, d)}) + 1
    IN  [i \in 1..Len(s) |-> CHOOSE d \in ToSet(s) : Rank(d) = i]

Clamp(x) == IF x < 0 THEN 0 ELSE IF x > Width THEN Width ELSE x

(* brushend's test of row r on brushed dimension p: the selection [y0, y1] *)
(* inverted through valueScale[p] is [hi, lo], and lo <= r[p] <= hi.       *)
(* Multiplied through by height, so that it is exact.                      *)
Lo(p) == CHOOSE v \in {r[p] : r \in Rows} : \A r \in Rows : v <= r[p]
Hi(p) == CHOOSE v \in {r[p] : r \in Rows} : \A r \in Rows : v >= r[p]
InvertH(p, y) == Lo(p) * Height + (Height - y) * (Hi(p) - Lo(p))

InBrush(r, p, sel) == InvertH(p, sel[2]) <= r[p] * Height /\ r[p] * Height <= InvertH(p, sel[1])

Filtered(sels) ==
    {r \in Rows : \A p \in DimSet : sels[p] # None => InBrush(r, p, sels[p])}

AxisTr == [to : Int, left : 1..Duration] \cup {None}
FgTr == [to : Seq(DimSet \X Int), left : 1..Duration] \cup {None}

-----------------------------------------------------------------------------
(* pc(sel) after updateVars(): dimensionScale's domain is the dimensions  *)
(* array, every brush selection null, background and foreground paths and *)
(* the .dimension groups at dimensionScale(d), all rows displayed.         *)
Init ==
    /\ dims = Dims /\ domain = Dims
    /\ dragging = None
    /\ axisAt = [d \in DimSet |-> Slot(Dims, d)]
    /\ axisTr = [d \in DimSet |-> None]
    /\ fg = Path(Dims, Dims, None) /\ fgTr = None
    /\ bgVisible = TRUE /\ bgTr = {}
    /\ brushSel = [d \in DimSet |-> None]
    /\ shown = Rows

(* dragstart(d): dragging[d] = dimensionScale(d); background hidden. One   *)
(* pointer drags one axis at a time.                                       *)
DragStart(d) ==
    /\ dragging = None
    /\ dragging' = [dim |-> d, x |-> Slot(domain, d)]
    /\ bgVisible' = FALSE
    /\ UNCHANGED <<dims, domain, axisAt, axisTr, fg, fgTr, bgTr, brushSel, shown>>

(* drag(d) that keeps the pointer's x unclamped.                           *)
DragNoClamp(x) ==
    LET dr == [dragging EXCEPT !.x = x]
        sorted == SortByPosition(dims, domain, dr)
    IN  /\ dragging # None
        /\ dragging' = dr
        /\ fg' = Path(dims, domain, dr)
        /\ dims' = sorted /\ domain' = sorted
        /\ axisAt' = [d \in DimSet |-> Position(sorted, dr, d)]
        /\ UNCHANGED <<axisTr, fgTr, bgVisible, bgTr, brushSel, shown>>

(* drag(d) that sorts the dimensions but leaves dimensionScale's domain.  *)
DragNoDomain(x) ==
    LET dr == [dragging EXCEPT !.x = Clamp(x)]
        sorted == SortByPosition(dims, domain, dr)
    IN  /\ dragging # None
        /\ dragging' = dr
        /\ fg' = Path(dims, domain, dr)
        /\ dims' = sorted
        /\ axisAt' = [d \in DimSet |-> Position(domain, dr, d)]
        /\ UNCHANGED <<domain, axisTr, fgTr, bgVisible, bgTr, brushSel, shown>>

(* drag(d): dragging[d] = clamped event x; the foreground paths are set to *)
(* _path in the array's order before the sort; the array is sorted by      *)
(* position and copied into dimensionScale's domain; every .dimension     *)
(* group is set to its position under the new domain. The sets are direct:*)
(* a pending transition still overrides them when its frames run.          *)
Drag(x) ==
    LET dr == [dragging EXCEPT !.x = Clamp(x)]
        sorted == SortByPosition(dims, domain, dr)
    IN  /\ dragging # None
        /\ dragging' = dr
        /\ fg' = Path(dims, domain, dr)
        /\ dims' = sorted /\ domain' = sorted
        /\ axisAt' = [d \in DimSet |-> Position(sorted, dr, d)]
        /\ UNCHANGED <<axisTr, fgTr, bgVisible, bgTr, brushSel, shown>>

(* dragend that never brings the background back.                          *)
DragEndNoBackground ==
    LET d == dragging.dim
    IN  /\ dragging # None
        /\ dragging' = None
        /\ axisTr' = [axisTr EXCEPT ![d] = [to |-> Slot(domain, d), left |-> Duration]]
        /\ fgTr' = [to |-> Path(dims, domain, None), left |-> Duration]
        /\ UNCHANGED <<dims, domain, axisAt, fg, bgVisible, bgTr, brushSel, shown>>

(* dragend(d): delete dragging[d]; this group's transform transitions to   *)
(* dimensionScale(d) and the foreground to _path over 500 ms, each        *)
(* replacing the transition pending on its element; the background paths  *)
(* are set to _path and get a transition that shows them after a 500 ms   *)
(* delay. Other groups' pending transitions run on.                        *)
DragEnd ==
    LET d == dragging.dim
    IN  /\ dragging # None
        /\ dragging' = None
        /\ axisTr' = [axisTr EXCEPT ![d] = [to |-> Slot(domain, d), left |-> Duration]]
        /\ fgTr' = [to |-> Path(dims, domain, None), left |-> Duration]
        /\ bgTr' = bgTr \cup {Duration}
        /\ UNCHANGED <<dims, domain, axisAt, fg, bgVisible, brushSel, shown>>

(* brushend on dimension p's brush: record the selection (null when the    *)
(* brush is cleared), then display exactly the rows inside every active    *)
(* brush. A pointer on a brush starts no axis drag.                        *)
Brushend(p, sel) ==
    LET sels == [brushSel EXCEPT ![p] = sel]
    IN  /\ dragging = None
        /\ brushSel' = sels
        /\ shown' = Filtered(sels)
        /\ UNCHANGED <<dims, domain, dragging, axisAt, axisTr, fg, fgTr, bgVisible, bgTr>>

Tick(tr) == IF tr = None \/ tr.left = 1 THEN None ELSE [tr EXCEPT !.left = @ - 1]
Ends(tr) == tr # None /\ tr.left = 1

(* A frame of the d3 timer: pending transitions advance; one that ends     *)
(* leaves its target on its element, and a background transition whose   *)
(* delay has passed makes the background visible.                         *)
Frame ==
    /\ (\E d \in DimSet : axisTr[d] # None) \/ fgTr # None \/ bgTr # {}
    /\ axisAt' = [d \in DimSet |-> IF Ends(axisTr[d]) THEN axisTr[d].to ELSE axisAt[d]]
    /\ axisTr' = [d \in DimSet |-> Tick(axisTr[d])]
    /\ fg' = IF Ends(fgTr) THEN fgTr.to ELSE fg
    /\ fgTr' = Tick(fgTr)
    /\ bgVisible' = (bgVisible \/ 1 \in bgTr)
    /\ bgTr' = {t - 1 : t \in bgTr \ {1}}
    /\ UNCHANGED <<dims, domain, dragging, brushSel, shown>>

Next ==
    \/ \E d \in DimSet : DragStart(d)
    \/ \E x \in Xs : Drag(x)
    \/ DragEnd
    \/ \E p \in DimSet, sel \in Brushes \cup {None} : Brushend(p, sel)
    \/ Frame

(* The d3 timer keeps running frames while a transition is pending.        *)
Spec == Init /\ [][Next]_vars /\ WF_vars(Frame)

-----------------------------------------------------------------------------
Settled == dragging = None /\ fgTr = None /\ \A d \in DimSet : axisTr[d] = None

TypeOK ==
    /\ dims \in Seq(DimSet) /\ domain \in Seq(DimSet)
    /\ dragging \in [dim : DimSet, x : 0..Width] \cup {None}
    /\ axisAt \in [DimSet -> 0..Width] /\ axisTr \in [DimSet -> AxisTr]
    /\ fgTr \in FgTr
    /\ bgVisible \in BOOLEAN /\ bgTr \subseteq 1..Duration
    /\ brushSel \in [DimSet -> Brushes \cup {None}]
    /\ shown \subseteq Rows

(* When no drag or foreground transition is under way, every foreground   *)
(* path visits the axes from left to right, in the order of dimensionScale *)
(* (drag sorts the array, copies it into the domain, and dragend's        *)
(* transition leaves the paths at the new positions).                     *)
ForegroundInAxisOrder ==
    dragging = None /\ fgTr = None =>
        /\ [i \in 1..Len(fg) |-> fg[i][1]] = domain
        /\ \A i \in 1..Len(fg) - 1 : fg[i][2] < fg[i + 1][2]

(* After a drag ends, the hidden background comes back, unless another     *)
(* drag has started.                                                       *)
BackgroundReturns == (dragging = None) ~> (bgVisible \/ dragging # None)

(* Once nothing moves, every axis stands at its dimensionScale position:   *)
(* dragend moves the dragged axis there, and drag sets all the others.     *)
AxesInOrder == Settled => \A d \in DimSet : axisAt[d] = Slot(domain, d)
====
