------------------------------ MODULE BiPartite ------------------------------
(***************************************************************************)
(* The layout of viz.biPartite in                                          *)
(* src/scripts/lib/xpedite/jupyter/data/js/viz.v1.js: biPartite.bars(mb),  *)
(* which draw, update, mouseover (mb = the hovered main bar) and mouseout  *)
(* all call, in the vertical orientation (horizontal swaps x and y).       *)
(*                                                                         *)
(* bpmap(a, p, m, s, e) lays bars for the values a into [s, e] with a pad  *)
(* p around each bar and a minimum size m. Its only divisions are by 2 and *)
(* by den = t - lp, so every coordinate is kept exactly, as an integer     *)
(* multiple of 1 / (4 * den): a layout carries its scale K = 4 * den.      *)
(* The algorithm is homogeneous in p, m, s and e, so a layout into an      *)
(* already scaled interval is scaled by the product of the two scales.     *)
(* A data row is a <<primary, secondary>> key pair with its value.         *)
(***************************************************************************)
EXTENDS Integers, Sequences, FiniteSets, SequencesExt

CONSTANTS
    Prim, Sec,  \* the primary and secondary keys (d3.ascending order)
    Vals,       \* the values a row may have
    Height,     \* biPartite.height(): the span of the main bars
    Pad,        \* biPartite.pad()
    MinBar,     \* biPartite.min()
    NoHover     \* mb undefined: bars() outside a mouseover

ASSUME Prim \subseteq Int /\ Sec \subseteq Int /\ Vals \subseteq Nat
       /\ Height \in Nat /\ Pad \in Nat /\ MinBar \in Nat
       /\ Height - 2 * (Cardinality(Prim) + Cardinality(Sec)) * Pad > 0

Parts == {"primary", "secondary"}

VARIABLES
    data,   \* biPartite.data()
    mb,     \* the argument of bars(): NoHover, or the hovered main bar
    result  \* what bars(mb) returns, or NoHover before the call

vars == <<data, mb, result>>

SeqSum(s) == FoldSeq(+, 0, s)

-----------------------------------------------------------------------------
(* r = m / (e-s-2np) is the cut-off ratio: a value below r * t gets the    *)
(* minimum size, and the others share what is left, scaled by o = num/den.*)
(* With m = 0 no value is below the cut-off (nor is one when r is NaN).    *)
(* den = 0 (every value below the cut-off) makes o infinite or NaN: the    *)
(* layout is not finite.                                                   *)
BPMap(a, p, m, s, e) ==
    LET n   == Len(a)
        L   == e - s - 2 * n * p
        t   == SeqSum(a)
        small(x) == x * L < m * t
        ln  == Cardinality({i \in 1..n : small(a[i])})
        lp  == SeqSum([i \in 1..n |-> IF small(a[i]) THEN a[i] ELSE 0])
        num == IF t = 0 THEN 0 ELSE L - ln * m
        den == IF t = 0 THEN 1 ELSE t - lp
        K   == 4 * den
        v(i) == 4 * a[i] * num
        size(i) == IF v(i) < m * K THEN m * K ELSE v(i)
        b(i) == s * K + SeqSum([j \in 1..(i - 1) |-> 2 * p * K + size(j)])
    IN  [scale |-> K, finite |-> den # 0,
         bars |-> [i \in 1..n |->
            [s |-> b(i) + p * K + (IF v(i) < m * K THEN (m * K - v(i)) \div 2 ELSE 0),
             e |-> b(i) + p * K + (IF v(i) < m * K THEN (m * K + v(i)) \div 2 ELSE v(i))]]]

KeyOf(q, part) == IF part = "primary" THEN q[1] ELSE q[2]

Other(part) == IF part = "primary" THEN "secondary" ELSE "primary"

(* d3.nest().key(key of part).sortKeys(d3.ascending): the part's keys.     *)
KeysOf(D, part) == SetToSortSeq({KeyOf(q, part) : q \in DOMAIN D}, <)

(* isSelKey(d, part) and v(d): a row counts in full for the hovered part,  *)
(* and for the other part only if it belongs to the hovered key.           *)
IsSelKey(q, part, h) == h = NoHover \/ h.part = part \/ KeyOf(q, h.part) = h.key

Val(D, q, part, h) == IF IsSelKey(q, part, h) THEN D[q] ELSE 0

(* calculateMainBars: the rollup per key, laid into [0, height].           *)
MainValues(D, part, h) ==
    LET ks == KeysOf(D, part) IN
    [i \in 1..Len(ks) |->
        MapThenSumSet(LAMBDA q : Val(D, q, part, h),
                      {q \in DOMAIN D : KeyOf(q, part) = ks[i]})]

MainBars(D, part, h) == BPMap(MainValues(D, part, h), Pad, MinBar, 0, Height)

(* floorMainBars: a main bar's half height is at least min / 2, about its  *)
(* centre y = (s + e) / 2.                                                 *)
Floor(bar, K) ==
    IF bar.e - bar.s >= MinBar * K THEN bar
    ELSE [s |-> (bar.s + bar.e - MinBar * K) \div 2, e |-> (bar.s + bar.e + MinBar * K) \div 2]

(* calculateSubBars: under main bar k, the rollup per key of the other     *)
(* part, laid with no pad and no minimum into [g.y-g.height, g.y+g.height].*)
SubValues(D, part, h, k) ==
    LET rows == {q \in DOMAIN D : KeyOf(q, part) = k}
        ks   == SetToSortSeq({KeyOf(q, Other(part)) : q \in rows}, <)
    IN  [i \in 1..Len(ks) |->
            Val(D, CHOOSE q \in rows : KeyOf(q, Other(part)) = ks[i], part, h)]

SubBars(D, part, h, i, g) ==
    BPMap(SubValues(D, part, h, KeysOf(D, part)[i]), 0, 0, g.s, g.e)

(* bars(mb): main bars of both parts, then the sub bars of each, laid     *)
(* into the main bars as bpmap returned them, then the main bars floored.  *)
Bars(D, h) ==
    [part \in Parts |->
        LET mbs == MainBars(D, part, h)
        IN  [main |-> mbs,
             subs |-> [i \in DOMAIN mbs.bars |-> SubBars(D, part, h, i, mbs.bars[i])],
             floored |-> [i \in DOMAIN mbs.bars |-> Floor(mbs.bars[i], mbs.scale)]]]
-----------------------------------------------------------------------------
(* Every data array of rows with distinct key pairs, and every main bar a  *)
(* mouseover can pass.                                                     *)
Datasets == UNION {[dom -> Vals] : dom \in SUBSET (Prim \X Sec) \ {{}}}

Hovers(D) == {NoHover} \cup
             UNION {{[part |-> p, key |-> k] : k \in ToSet(KeysOf(D, p))} : p \in Parts}

Init ==
    /\ data \in Datasets
    /\ mb \in Hovers(data)
    /\ result = NoHover

(* biPartite(sel), update(data), mouseover(d) or mouseout: bars(mb).       *)
Call ==
    /\ result = NoHover
    /\ result' = Bars(data, mb)
    /\ UNCHANGED <<data, mb>>

Next == Call

Spec == Init /\ [][Next]_vars

-----------------------------------------------------------------------------
(* The main bars of each side, as floorMainBars leaves them to be drawn,  *)
(* lie in [0, height], in key order, without overlapping: bpmap gives the  *)
(* values below the cut-off the minimum size and shares what is left among *)
(* the others, which must still fit.                                       *)
MainBarsFit ==
    result # NoHover =>
        \A part \in Parts :
            LET K   == result[part].main.scale
                fl  == result[part].floored
                n   == Len(fl)
            IN  /\ result[part].main.finite
                /\ \A i \in 1..n : 0 <= fl[i].s /\ fl[i].s <= fl[i].e /\ fl[i].e <= Height * K
                /\ \A i \in 1..(n - 1) : fl[i].e <= fl[i + 1].s
====
