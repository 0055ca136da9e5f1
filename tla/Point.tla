-------------------------------- MODULE Point --------------------------------
(***************************************************************************)
(* viz.point, the scatter plot of                                          *)
(* src/scripts/lib/xpedite/jupyter/data/js/viz.v1.js: its refresh flag and *)
(* cached scales, updateLocals, drawing and transition, and filterRect's   *)
(* walk of the d3 quadtree of the points.                                  *)
(*                                                                         *)
(* A datum is a <<key, value>> pair; the accessors key(), value() and      *)
(* defined() keep their defaults. The orientation is orients[_], 1 to 4    *)
(* for bottom, top, left and right, or undefined for any other name. A     *)
(* scale is the record of its domain and range; a point is its <<x, y>>    *)
(* position. The inputs are chosen so that scaled positions are integers.  *)
(*                                                                         *)
(* The quadtree is d3.quadtree's: addAll(points) covers the points' bounds *)
(* (a square of side 1 at the floor of the first corner, doubled towards   *)
(* the other) and splits a node at its midpoints until each leaf holds one *)
(* position; points at one position share a leaf, the last one added at   *)
(* its head (node.data), the others on node.next. Quadtree coordinates are *)
(* multiplied by QS, so that every midpoint the split reaches is integral. *)
(***************************************************************************)
EXTENDS Integers, Sequences, FiniteSets, FiniteSetsExt

CONSTANTS
    Datasets,      \* the data arrays the caller may pass
    Widths,        \* the widths point.width(_) may be given
    DefaultWidth,  \* point.width() before it is set (880)
    Height,        \* point.height()
    Rects,         \* the rectangles filterRect(r) may be given
    OrientsIn,     \* orients[_] for the names point.orient(_) may be given
    KeyScales,     \* the scales point.keyScale(z) may be given
    ValueScales,   \* the scales point.valueScale(_) may be given
    None           \* undefined

ASSUME /\ DefaultWidth \in Widths /\ Height \in Nat
       /\ \A D \in Datasets : \A i \in DOMAIN D : D[i] \in Int \X Int
       /\ OrientsIn \subseteq 1..4 \cup {None}

QS == 4

VARIABLES
    data,        \* point.data()
    width,       \* point.width()
    orient,      \* the orient variable: 1..4, or None while undefined
    keyScale,    \* the cached keyScale, or None
    valueScale,  \* the cached valueScale, or None
    refresh,     \* the refresh flag
    points,      \* the positions updateLocals last computed, or None
    tree,        \* the root square of the quadtree updateLocals last built
    selected,    \* the indices of the points whose selected flag is set
    shown,       \* the positions of the .point groups in the DOM, by index
    drawn,       \* point(sel) has run: sel is set
    rect         \* history: the rectangle of the last filterRect since the
                 \* points were computed, or None

vars == <<data, width, orient, keyScale, valueScale, refresh, points, tree,
          selected, shown, drawn, rect>>

-----------------------------------------------------------------------------
(* d3.scaleLinear().domain(d3.extent(...)).range([r0, r1])                 *)
ScaleOf(S, r0, r1) == [d0 |-> Min(S), d1 |-> Max(S), r0 |-> r0, r1 |-> r1]

Scale(s, u) == s.r0 + ((u - s.d0) * (s.r1 - s.r0)) \div (s.d1 - s.d0)

(* keyScale() and valueScale(): the cached scale, else one over the        *)
(* extent of the data, onto the range the orientation o picks.             *)
KeyRange(o, w) == IF o \in {1, 2} THEN <<0, w>> ELSE <<0, Height>>

ValueRange(o, w) ==
    CASE o = 1 -> <<Height, 0>> [] o = 2 -> <<0, Height>>
      [] o = 3 -> <<0, w>>      [] o = 4 -> <<w, 0>>

KeyScale(D, ks, o, w) ==
    IF ks # None THEN ks
    ELSE ScaleOf({D[i][1] : i \in DOMAIN D}, KeyRange(o, w)[1], KeyRange(o, w)[2])

ValueScale(D, vs, o, w) ==
    IF vs # None THEN vs
    ELSE ScaleOf({D[i][2] : i \in DOMAIN D}, ValueRange(o, w)[1], ValueRange(o, w)[2])

(* updateLocals' points: x = keyScale(key), y = valueScale(value).         *)
Layout(D, ks, vs) == [i \in DOMAIN D |-> <<Scale(ks, D[i][1]), Scale(vs, D[i][2])>>]

-----------------------------------------------------------------------------
(* d3.quadtree: cover, the split into quadrants and the leaves.            *)
Contains(b, x, y) == b.x0 <= x /\ x <= b.x1 /\ b.y0 <= y /\ y <= b.y1

(* cover(x, y) outside the square doubles it away from the quadrant the   *)
(* point lies towards, until it contains the point.                        *)
RECURSIVE Grow(_, _, _, _, _)
Grow(b, x, y, top, left) ==
    LET z  == 2 * (b.x1 - b.x0)
        nb == [x0 |-> IF left THEN b.x1 - z ELSE b.x0,
               x1 |-> IF left THEN b.x1 ELSE b.x0 + z,
               y0 |-> IF top THEN b.y1 - z ELSE b.y0,
               y1 |-> IF top THEN b.y1 ELSE b.y0 + z]
    IN  IF Contains(nb, x, y) THEN nb ELSE Grow(nb, x, y, top, left)

Cover(b, x, y) ==
    IF b = None THEN [x0 |-> x, y0 |-> y, x1 |-> x + QS, y1 |-> y + QS]
    ELSE IF Contains(b, x, y) THEN b
    ELSE Grow(b, x, y, 2 * y < b.y0 + b.y1, 2 * x < b.x0 + b.x1)

(* The root square: addAll covers the bounds of the scaled positions P,    *)
(* then .extent([[ks.r0, vs.r0], [ks.r1 + 1, vs.r1 + 1]]) covers the two    *)
(* corners of the scales' ranges.                                          *)
RootOf(P, ks, vs) ==
    LET xs == {p[1] : p \in P}
        ys == {p[2] : p \in P}
        added == Cover(Cover(None, Min(xs), Min(ys)), Max(xs), Max(ys))
    IN  Cover(Cover(added, QS * ks.r0, QS * vs.r0), QS * (ks.r1 + 1), QS * (vs.r1 + 1))

(* A child takes the points at or right of / below its parent's midpoint.  *)
Child(b, right, bottom) ==
    LET xm == (b.x0 + b.x1) \div 2
        ym == (b.y0 + b.y1) \div 2
    IN  [x0 |-> IF right THEN xm ELSE b.x0, x1 |-> IF right THEN b.x1 ELSE xm,
         y0 |-> IF bottom THEN ym ELSE b.y0, y1 |-> IF bottom THEN b.y1 ELSE ym]

InChild(p, b, right, bottom) ==
    /\ (2 * p[1] >= b.x0 + b.x1) = right
    /\ (2 * p[2] >= b.y0 + b.y1) = bottom

(* The leaves under internal node b, each with the square of its parent.   *)
RECURSIVE LeafParents(_, _)
LeafParents(P, b) ==
    UNION {LET Q == {p \in P : InChild(p, b, rt, bt)} IN
               IF Q = {} THEN {}
               ELSE IF Cardinality(Q) = 1 THEN {<<CHOOSE p \in Q : TRUE, b>>}
               ELSE LeafParents(Q, Child(b, rt, bt))
           : rt \in BOOLEAN, bt \in BOOLEAN}

-----------------------------------------------------------------------------
(* filterRect's visit callback: prune a node that lies right of, below,    *)
(* left of or above r.                                                     *)
Prune(b, r) ==
    b.x0 >= QS * r.x3 \/ b.y0 >= QS * r.y3 \/ b.x1 < QS * r.x0 \/ b.y1 < QS * r.y0

InRect(p, r) == p[1] >= r.x0 /\ p[1] < r.x3 /\ p[2] >= r.y0 /\ p[2] < r.y3

(* A position in quadtree coordinates.                                     *)
Sc(p) == <<QS * p[1], QS * p[2]>>

(* The root square of the quadtree of the points ps under scales ks, vs.   *)
TreeOf(ps, ks, vs) == RootOf({Sc(ps[i]) : i \in DOMAIN ps}, ks, vs)

(* The positions whose leaf the visit of the tree with root square b       *)
(* reaches: a root leaf always, else a leaf whose parent is not pruned (a  *)
(* pruned ancestor means a pruned parent, as the prune test is monotone in *)
(* the square).                                                            *)
Visited(P, b, r) ==
    IF Cardinality(P) = 1 THEN P
    ELSE {lp[1] : lp \in {lp \in LeafParents(P, b) : ~Prune(lp[2], r)}}

(* The point at the head of the leaf of position p: the last one added.    *)
LastAt(ps, p) == Max({i \in DOMAIN ps : ps[i] = p})

(* filterRect(r) without the reset of every selected flag.                 *)
FilterRectNoReset(ps, sel, r, b) ==
    IF r = None THEN sel
    ELSE LET V == Visited({Sc(ps[i]) : i \in DOMAIN ps}, b, r)
             H == {LastAt(ps, ps[i]) : i \in DOMAIN ps}
         IN  {i \in H : Sc(ps[i]) \in V /\ InRect(ps[i], r)}
             \cup {i \in sel : i \notin H \/ Sc(ps[i]) \notin V}

(* filterRect(r): every selected flag is reset; with r, the head of each   *)
(* visited leaf is selected if it lies in r.                               *)
FilterRect(ps, sel, r, b) ==
    IF r = None THEN {}
    ELSE LET V == Visited({Sc(ps[i]) : i \in DOMAIN ps}, b, r)
         IN  {i \in DOMAIN ps : i = LastAt(ps, ps[i]) /\ Sc(ps[i]) \in V
                                /\ InRect(ps[i], r)}

(* selection.data(points) joined by index; only the update selection is    *)
(* transitioned, so extra points get no element and extra elements stay.   *)
Join(old, new) == [i \in DOMAIN old |-> IF i <= Len(new) THEN new[i] ELSE old[i]]

-----------------------------------------------------------------------------
Init ==
    /\ data = None /\ width = DefaultWidth /\ orient = None
    /\ keyScale = None /\ valueScale = None /\ refresh = TRUE
    /\ points = None /\ tree = None /\ selected = {} /\ shown = << >> /\ drawn = FALSE
    /\ rect = None

(* point.data(_) that does not set refresh.                                *)
SetDataNoRefresh(D) ==
    /\ data' = D
    /\ UNCHANGED <<width, orient, keyScale, valueScale, refresh, points, tree,
                   selected, shown, drawn, rect>>

(* point.data(_): data = _, refresh = true.                                *)
SetData(D) ==
    /\ data' = D /\ refresh' = TRUE
    /\ UNCHANGED <<width, orient, keyScale, valueScale, points, tree, selected,
                   shown, drawn, rect>>

(* point.width(_): width = _, refresh = true.                              *)
SetWidth(w) ==
    /\ width' = w /\ refresh' = TRUE
    /\ UNCHANGED <<data, orient, keyScale, valueScale, points, tree, selected,
                   shown, drawn, rect>>

(* point.orient(_): orient = orients[_]; refresh is left as it is.         *)
SetOrient(o) ==
    /\ orient' = o
    /\ UNCHANGED <<data, width, keyScale, valueScale, refresh, points, tree,
                   selected, shown, drawn, rect>>

(* point.keyScale(z): keyScale = z, refresh = true.                        *)
SetKeyScale(ks) ==
    /\ keyScale' = ks /\ refresh' = TRUE
    /\ UNCHANGED <<data, width, orient, valueScale, points, tree, selected,
                   shown, drawn, rect>>

(* point.valueScale(_): valueScale = _, refresh = true.                    *)
SetValueScale(vs) ==
    /\ valueScale' = vs /\ refresh' = TRUE
    /\ UNCHANGED <<data, width, orient, keyScale, points, tree, selected,
                   shown, drawn, rect>>

(* updateLocals() that leaves the selected flags of the old points set.    *)
UpdateLocalsKeepsSelection ==
    IF refresh
    THEN LET o  == IF orient = None THEN 1 ELSE orient
             ks == KeyScale(data, keyScale, o, width)
             vs == ValueScale(data, valueScale, o, width)
         IN  /\ orient' = o /\ keyScale' = ks /\ valueScale' = vs
             /\ points' = Layout(data, ks, vs)
             /\ tree' = TreeOf(Layout(data, ks, vs), ks, vs)
             /\ refresh' = FALSE
             /\ UNCHANGED <<selected, rect>>
    ELSE UNCHANGED <<orient, keyScale, valueScale, points, tree, selected, rect,
                     refresh>>

(* updateLocals(): if (!refresh) return; the getters latch keyScale and    *)
(* valueScale (orient() first sets an undefined orientation to 1); points  *)
(* (each unselected) and the quadtree are rebuilt;                         *)
(* refresh = false. point.data() must be set, or data.map throws.          *)
UpdateLocals ==
    IF refresh
    THEN LET o  == IF orient = None THEN 1 ELSE orient
             ks == KeyScale(data, keyScale, o, width)
             vs == ValueScale(data, valueScale, o, width)
         IN  /\ orient' = o /\ keyScale' = ks /\ valueScale' = vs
             /\ points' = Layout(data, ks, vs)
             /\ tree' = TreeOf(Layout(data, ks, vs), ks, vs)
             /\ selected' = {} /\ rect' = None
             /\ refresh' = FALSE
    ELSE UNCHANGED <<orient, keyScale, valueScale, points, tree, selected, rect,
                     refresh>>

(* point.points() or point.tree(): updateLocals().                         *)
GetPoints ==
    /\ data # None /\ refresh
    /\ UpdateLocals
    /\ UNCHANGED <<data, width, shown, drawn>>

(* point(sel): the old .viz-point is removed and a group per point of      *)
(* point.points() appended at its position.                                *)
Draw ==
    /\ data # None
    /\ UpdateLocals
    /\ shown' = points'
    /\ drawn' = TRUE
    /\ UNCHANGED <<data, width>>

(* point.transition(): the .point groups of sel, joined with               *)
(* point.points(), move to their new positions.                            *)
Transition ==
    /\ drawn /\ data # None
    /\ UpdateLocals
    /\ shown' = Join(shown, points')
    /\ UNCHANGED <<data, width, drawn>>

(* point.filterRect(r), r a rectangle or undefined; points.forEach throws  *)
(* before the points are first computed.                                   *)
Filter(r) ==
    /\ points # None
    /\ selected' = FilterRect(points, selected, r, tree)
    /\ rect' = r
    /\ UNCHANGED <<data, width, orient, keyScale, valueScale, refresh, points, tree,
                   shown, drawn>>

Next ==
    \/ \E D \in Datasets : SetData(D)
    \/ \E w \in Widths : SetWidth(w)
    \/ \E o \in OrientsIn : SetOrient(o)
    \/ \E ks \in KeyScales : SetKeyScale(ks)
    \/ \E vs \in ValueScales : SetValueScale(vs)
    \/ GetPoints
    \/ Draw
    \/ Transition
    \/ \E r \in Rects \cup {None} : Filter(r)

Spec == Init /\ [][Next]_vars

-----------------------------------------------------------------------------
Position == Int \X Int

TypeOK ==
    /\ data \in Datasets \cup {None} /\ width \in Widths /\ refresh \in BOOLEAN
    /\ orient \in 1..4 \cup {None}
    /\ points \in Seq(Position) \cup {None} /\ shown \in Seq(Position)
    /\ selected \subseteq (IF points = None THEN {} ELSE DOMAIN points)
    /\ drawn \in BOOLEAN /\ rect \in Rects \cup {None}

(* While refresh is clear the cached points are those of the current data  *)
(* and scales: every setter that changes what the points depend on must   *)
(* set refresh, or points() returns a stale layout.                        *)
RefreshConsistent ==
    ~refresh => points = Layout(data, keyScale, valueScale)

(* After filterRect(r) exactly the points inside r are selected, and none  *)
(* without a rectangle: the quadtree visit must reach every point in r.    *)
FilterSelectsRect ==
    points # None =>
        selected = {i \in DOMAIN points : rect # None /\ InRect(points[i], rect)}
====
