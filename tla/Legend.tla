------------------------------- MODULE Legend -------------------------------
(***************************************************************************)
(* viz.legend of src/scripts/lib/xpedite/jupyter/data/js/viz.v1.js: a grid *)
(* of legend items, one per datum, in rows and columns of two d3 band      *)
(* scales that updateLocals() latches on the first draw.                   *)
(*                                                                         *)
(* Every call of viz.legend() makes a new legend object with its own       *)
(* closure, but two of the names it assigns are not declared in it and are *)
(* page globals: legend_cols, the function computing the column count,     *)
(* which each call of viz.legend() replaces by one over its own closure,   *)
(* and height, which the first legend.height() call latches for the page.  *)
(*                                                                         *)
(* The layout reads a legend's data only through data.length, so the data  *)
(* is its length. A band scale is its domain size and the length of its    *)
(* range; the column scale's range is the default width, 100. An item's    *)
(* position is the pair of its column and row, or None when a scale maps   *)
(* its index to undefined (an index outside the domain, or NaN); a row     *)
(* scale over an empty range puts every row at 0. A TypeError (a read of   *)
(* undefined.length) ends the handler, keeping what it already assigned.   *)
(***************************************************************************)
EXTENDS Integers, Sequences, FiniteSets

CONSTANTS
    Legends,   \* the legend objects viz.legend() may return
    Lengths,   \* the lengths of the data arrays legend.data(z) may be given
    RowsIn,    \* the values legend.rows(_) may be given
    Heights,   \* the values legend.height(_) may be given
    None       \* undefined

ASSUME /\ Lengths \subseteq Nat /\ RowsIn \subseteq Nat /\ Heights \subseteq Nat

VARIABLES
    created,   \* the legends viz.legend() has returned
    owner,     \* the legend whose closure the global legend_cols reads
    data,      \* each legend's data, by length
    rows,      \* each legend's rows
    cols,      \* each legend's cols
    pad,       \* each legend's paddingInner, in halves: 0 or 1
    rowScale,  \* each legend's latched rowScale: [dom, h], or None
    colScale,  \* each legend's latched colScale: its domain size, or None
    height,    \* the page-global height
    items      \* the positions of each legend's .legend-item groups

vars == <<created, owner, data, rows, cols, pad, rowScale, colScale, height, items>>

Min2(a, b) == IF a < b THEN a ELSE b

(* legend.rows(): min(rows, data.length), or rows = data.length at first. *)
RowsGet(r, n) == IF r = None THEN n ELSE Min2(r, n)
RowsLatch(r, n) == IF r = None THEN n ELSE r

(* legend_cols(): cols = ceil(data.length / (rows() > 0 ? rows : 1)).     *)
ColsOf(r, n) ==
    LET d == IF RowsGet(r, n) > 0 THEN RowsLatch(r, n) ELSE 1
    IN  (n + d - 1) \div d

(* legend.height(): height = 12*n + 12*(n>0 ? n-1 : 0), n = rows().        *)
HeightOf(m) == IF m > 0 THEN 24 * m - 12 ELSE 0

(* The item for datum k: x = k % cols, y = (k - x) / cols, placed by       *)
(* colScale(x) and rowScale(y).                                            *)
Position(k, c, cs, rs) ==
    IF c = None THEN None
    ELSE LET x == k % c
             y == (k - x) \div c
         IN  IF x < cs /\ y < rs.dom THEN <<x, IF rs.h > 0 THEN y ELSE 0>> ELSE None

-----------------------------------------------------------------------------
Init ==
    /\ created = {} /\ owner = None
    /\ data = [l \in Legends |-> None]
    /\ rows = [l \in Legends |-> None]
    /\ cols = [l \in Legends |-> None]
    /\ pad = [l \in Legends |-> None]
    /\ rowScale = [l \in Legends |-> None]
    /\ colScale = [l \in Legends |-> None]
    /\ height = None
    /\ items = [l \in Legends |-> << >>]

(* viz.legend(): a new closure; legend_cols = function over it.           *)
Create(l) ==
    /\ l \notin created
    /\ created' = created \cup {l}
    /\ owner' = l
    /\ UNCHANGED <<data, rows, cols, pad, rowScale, colScale, height, items>>

(* legend.data(z)                                                          *)
SetData(l, n) ==
    /\ l \in created
    /\ data' = [data EXCEPT ![l] = n]
    /\ UNCHANGED <<created, owner, rows, cols, pad, rowScale, colScale, height, items>>

(* legend.rows(_)                                                          *)
SetRows(l, r) ==
    /\ l \in created
    /\ rows' = [rows EXCEPT ![l] = r]
    /\ UNCHANGED <<created, owner, data, cols, pad, rowScale, colScale, height, items>>

(* legend.height(_): var n = legend.rows() runs first, and throws while    *)
(* data is undefined; then the global height = _.                          *)
SetHeight(l, h) ==
    /\ l \in created
    /\ IF data[l] = None
       THEN UNCHANGED vars
       ELSE /\ rows' = [rows EXCEPT ![l] = RowsLatch(rows[l], data[l])]
            /\ height' = h
            /\ UNCHANGED <<created, owner, data, cols, pad, rowScale, colScale, items>>

-----------------------------------------------------------------------------
(* legend(sel): the old .viz-legend is removed; updateLocals() calls       *)
(* rows(), legend_cols() (over the owner's closure, which may latch the    *)
(* owner's rows), height(), paddingInner(), rowScale() and colScale()      *)
(* (which calls legend_cols() again); then one item per datum.             *)
Draw(l) ==
    LET n   == data[l]
        o   == owner
        r1  == [rows EXCEPT ![l] = RowsLatch(rows[l], n)]
        r2  == [r1 EXCEPT ![o] = RowsLatch(r1[o], data[o])]
        c2  == [cols EXCEPT ![o] = ColsOf(r1[o], data[o])]
        m   == RowsGet(r2[l], n)
        h2  == IF height = None THEN HeightOf(m) ELSE height
        p2  == IF pad[l] = None THEN IF r2[l] > 1 THEN 1 ELSE 0 ELSE pad[l]
        rs  == IF rowScale[l] = None THEN [dom |-> m, h |-> h2] ELSE rowScale[l]
        cs  == IF colScale[l] = None THEN c2[o] ELSE colScale[l]
    IN
    /\ l \in created
    /\ CASE n = None ->
              /\ items' = [items EXCEPT ![l] = << >>]
              /\ UNCHANGED <<created, owner, data, rows, cols, pad, rowScale,
                             colScale, height>>
         [] data[o] = None ->
              /\ items' = [items EXCEPT ![l] = << >>]
              /\ rows' = r1
              /\ UNCHANGED <<created, owner, data, cols, pad, rowScale,
                             colScale, height>>
         [] OTHER ->
              /\ rows' = r2 /\ cols' = c2 /\ height' = h2
              /\ pad' = [pad EXCEPT ![l] = p2]
              /\ rowScale' = [rowScale EXCEPT ![l] = rs]
              /\ colScale' = [colScale EXCEPT ![l] = cs]
              /\ items' = [items EXCEPT ![l] =
                             [k \in 1..n |-> Position(k - 1, c2[l], cs, rs)]]
              /\ UNCHANGED <<created, owner, data>>

Next ==
    \/ \E l \in Legends :
        \/ Create(l)
        \/ \E n \in Lengths : SetData(l, n)
        \/ \E r \in RowsIn : SetRows(l, r)
        \/ \E h \in Heights : SetHeight(l, h)
        \/ Draw(l)

Spec == Init /\ [][Next]_vars

-----------------------------------------------------------------------------
Opt(S) == S \cup {None}

TypeOK ==
    /\ created \subseteq Legends /\ owner \in Opt(created)
    /\ data \in [Legends -> Opt(Lengths)]
    /\ rows \in [Legends -> Opt(Nat)] /\ cols \in [Legends -> Opt(Nat)]
    /\ pad \in [Legends -> Opt({0, 1})]
    /\ height \in Opt(Nat)
    /\ items \in [Legends -> Seq(Opt(Nat \X Nat))]

(* Every item of a drawn legend sits in a cell of its own: its column and  *)
(* row are inside the domains of the band scales, and no two items share a *)
(* cell. legend(sel) lays out its items with the closure's cols, which    *)
(* only the global legend_cols writes.                                     *)
ItemsInOwnCells ==
    \A l \in Legends : \A i, j \in DOMAIN items[l] :
        /\ items[l][i] # None
        /\ i # j => items[l][i] # items[l][j]
====
