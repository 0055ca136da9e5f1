------------------------------ MODULE LiveChart ------------------------------
(***************************************************************************)
(* The live latency chart of src/scripts/jupyter/js/livechart.js, from the *)
(* moment chart(selection) has drawn it (createLiveChart calls it at once).*)
(*                                                                         *)
(* One event loop runs four kinds of handlers on the chart's closure:      *)
(*   - the setInterval timer (every 200 ms), which slides the 5-minute     *)
(*     window to the current time, carries the brush along and redraws;    *)
(*   - the d3 brush "brush" event, fired while the user drags or clears    *)
(*     the brush, which re-targets the ticker viewport and redraws;        *)
(*   - chart.push, which appends a tick without redrawing;                 *)
(*   - chart.halt, from the halt checkbox, which stops the timer handler.  *)
(* Time is abstracted to whole units; the window is PastDuration units and *)
(* the brush's initial width BrushWidth units (300 s and 62 s in the code).*)
(* A tick is its identity and its timestamp; value and colour only affect  *)
(* the drawing. An SVG rect is its DOM id; d3 joins rects to data by index.*)
(***************************************************************************)
EXTENDS Integers, Sequences, FiniteSets, SequencesExt

CONSTANTS
    PastDuration,   \* pastDuration: width of the sliding window
    BrushWidth,     \* width / areaPerSecond: initial width of the brush
    MaxTime,        \* bound on the browser clock
    MaxPush,        \* bound on the number of chart.push calls
    PushLag         \* a pushed tick is at least PushLag units old

ASSUME /\ 0 < BrushWidth /\ BrushWidth <= PastDuration
       /\ PastDuration < MaxTime
       /\ MaxPush \in Nat /\ PushLag \in Nat

VARIABLES
    now,          \* what new Date() returns
    startTime,    \* window start, also xBrush.domain()[0]
    endTime,      \* window end, also xBrush.domain()[1]
    brushExtent,  \* filterPane.extent(); the brush is empty iff both ends agree
    xDomain,      \* xScale.domain(): the ticker's viewport
    halted,
    data,         \* the chart's data array
    tickRects,    \* ids of the .tick rects in the ticking area, by index
    brushRects,   \* ids of the .tick rects in the brushing area, by index
    tickId,       \* the shared counter that names new rects
    pushed        \* history: every tick ever pushed

vars == <<now, startTime, endTime, brushExtent, xDomain, halted, data,
          tickRects, brushRects, tickId, pushed>>

Spike == [id : 1..MaxPush, time : Int]

-----------------------------------------------------------------------------
(* refresh(): keep the ticks strictly inside the window, then re-join both *)
(* areas by index: exit() removes surplus rects, enter() appends one rect  *)
(* per new datum named "tick-" + tickId++.                                 *)
InWindowOpenEnd(t, s, e) == s < t

InWindow(t, s, e) == s < t /\ t < e

Entered(rects, n) == IF n > Len(rects) THEN n - Len(rects) ELSE 0

RefreshAreaSameId(rects, n, firstId) ==
    IF n <= Len(rects) THEN SubSeq(rects, 1, n)
    ELSE rects \o [i \in 1..(n - Len(rects)) |-> firstId]

RefreshAreaOffByOne(rects, n, firstId) ==
    IF n <= Len(rects) THEN SubSeq(rects, 1, n)
    ELSE rects \o [i \in 1..(n - Len(rects)) |-> firstId + i - 2]

RefreshArea(rects, n, firstId) ==
    IF n <= Len(rects) THEN SubSeq(rects, 1, n)
    ELSE rects \o [i \in 1..(n - Len(rects)) |-> firstId + i - 1]

Refresh(s, e) ==
    LET kept == SelectSeq(data, LAMBDA d : InWindow(d.time, s, e))
        n    == Len(kept)
        mid  == tickId + Entered(tickRects, n)
    IN  /\ data' = kept
        /\ tickRects' = RefreshArea(tickRects, n, tickId)
        /\ brushRects' = RefreshArea(brushRects, n, mid)
        /\ tickId' = mid + Entered(brushRects, n)

ViewportNoEmptyCheck(ext) == ext

(* filterPane.empty() ? xBrush.domain() : filterPane.extent()              *)
Viewport(ext) ==
    IF ext[1] = ext[2] THEN <<startTime, endTime>> ELSE ext

(* updateBrushExtent(interval, offset)(start, end): the interval and the   *)
(* offset are read from the window before updateXAxes moves it.            *)
SlidBrushExtentLate(ext, newStart) ==
    LET interval == ext[2] - ext[1]
        offset   == ext[1] - newStart
    IN  <<newStart + offset, newStart + offset + interval>>

SlidBrushExtent(ext, newStart) ==
    LET interval == ext[2] - ext[1]
        offset   == ext[1] - startTime
    IN  <<newStart + offset, newStart + offset + interval>>

InitBrushExtent(end) == <<end - BrushWidth, end>>

(* updateXAxes: endTime = new Date(); startTime = endTime - pastDuration.  *)
UpdateXAxes(t) == <<t - PastDuration, t>>

-----------------------------------------------------------------------------
(* chart(selection): updateXAxes(initBrushExtent), then refresh() of the   *)
(* empty data array.                                                       *)
Init ==
    /\ now = PastDuration
    /\ startTime = UpdateXAxes(now)[1]
    /\ endTime = UpdateXAxes(now)[2]
    /\ brushExtent = InitBrushExtent(now)
    /\ xDomain = InitBrushExtent(now)
    /\ halted = FALSE
    /\ data = << >>
    /\ tickRects = << >>
    /\ brushRects = << >>
    /\ tickId = 0
    /\ pushed = {}

(* Time passes between handlers.                                           *)
Advance ==
    /\ now < MaxTime
    /\ now' = now + 1
    /\ UNCHANGED <<startTime, endTime, brushExtent, xDomain, halted, data,
                   tickRects, brushRects, tickId, pushed>>

(* chart.push(val): data.push(val), no redraw.                             *)
Push(t) ==
    /\ Cardinality(pushed) < MaxPush
    /\ LET d == [id |-> Cardinality(pushed) + 1, time |-> t]
       IN  /\ data' = Append(data, d)
           /\ pushed' = pushed \cup {d}
    /\ UNCHANGED <<now, startTime, endTime, brushExtent, xDomain, halted,
                   tickRects, brushRects, tickId>>

(* chart.halt(val), from the halt checkbox's change handler.               *)
Halt(val) ==
    /\ halted' = val
    /\ UNCHANGED <<now, startTime, endTime, brushExtent, xDomain, data,
                   tickRects, brushRects, tickId, pushed>>

(* The user drags the brush to [e0, e1] (e0 = e1 clears it); d3 keeps the  *)
(* extent inside xBrush's domain and fires "brush": the handler sets the   *)
(* viewport and calls refresh() with the window of the last timer tick.   *)
(* "brushend" calls brushCallback, which createLiveChart never passes.     *)
Brush(e0, e1) ==
    /\ startTime <= e0 /\ e0 <= e1 /\ e1 <= endTime
    /\ brushExtent' = <<e0, e1>>
    /\ xDomain' = Viewport(<<e0, e1>>)
    /\ Refresh(startTime, endTime)
    /\ UNCHANGED <<now, startTime, endTime, halted, pushed>>

RunningAlways == TRUE

(* if (halted) return;                                                     *)
Running == ~halted

(* The setInterval handler.                                                *)
TimerTick ==
    /\ Running
    /\ LET window == UpdateXAxes(now)
           newExt == SlidBrushExtent(Viewport(brushExtent), window[1])
       IN  /\ startTime' = window[1]
           /\ endTime' = window[2]
           /\ brushExtent' = newExt
           /\ xDomain' = newExt
           /\ Refresh(window[1], window[2])
    /\ UNCHANGED <<now, halted, pushed>>

PushTime == (now - PastDuration - 1)..(now - PushLag)

Next ==
    \/ Advance
    \/ \E t \in PushTime : Push(t)
    \/ \E v \in BOOLEAN : Halt(v)
    \/ \E e0, e1 \in startTime..endTime : Brush(e0, e1)
    \/ TimerTick

(* The timer fires every 200 ms for as long as the page lives: it is never *)
(* cleared, so its handler is weakly fair. The user and the kernel owe     *)
(* nothing.                                                                *)
Spec == Init /\ [][Next]_vars /\ WF_vars(TimerTick)

-----------------------------------------------------------------------------
TypeOK ==
    /\ now \in PastDuration..MaxTime
    /\ startTime \in Int /\ endTime \in Int
    /\ brushExtent \in Int \X Int /\ xDomain \in Int \X Int
    /\ halted \in BOOLEAN
    /\ data \in Seq(Spike)
    /\ tickRects \in Seq(Nat) /\ brushRects \in Seq(Nat)
    /\ tickId \in Nat
    /\ pushed \subseteq Spike

(* The ticker always shows what the brush selects: the brush's extent, or  *)
(* the whole 5-minute window when the brush is empty. The brush handler    *)
(* and the timer handler each set xScale's domain on their own.           *)
ViewportMatchesBrush ==
    xDomain = IF brushExtent[1] = brushExtent[2]
              THEN <<startTime, endTime>>
              ELSE brushExtent

(* However often the timer slides the window, and whatever the user did to *)
(* the brush in between, the brush stays inside the 5-minute window.       *)
ViewportWithinWindow ==
    startTime <= brushExtent[1] /\ brushExtent[1] <= brushExtent[2]
    /\ brushExtent[2] <= endTime

(* Every drawn rect shows a tick strictly inside the current window: the   *)
(* rects are the first Len(tickRects) data (d3 joins by index), and ticks  *)
(* pushed since the last redraw are not drawn yet.                         *)
RenderedInWindow ==
    /\ Len(tickRects) = Len(brushRects)
    /\ Len(tickRects) <= Len(data)
    /\ \A i \in 1..Len(tickRects) :
          startTime < data[i].time /\ data[i].time < endTime

(* The DOM ids "tick-<n>" given to rects by refreshArea are unique across  *)
(* both areas, which share one counter.                                    *)
UniqueTickIds ==
    Cardinality(ToSet(tickRects) \cup ToSet(brushRects))
        = Len(tickRects) + Len(brushRects)

(* The chart does what LiveWindow promises: the window is the last        *)
(* PastDuration units before the last timer tick and catches up with the   *)
(* clock unless halted; the viewport is the window or a non-empty part of  *)
(* it, and the timer slides it with the window, keeping its offset. The    *)
(* window is <<startTime, endTime>> and the viewport xScale's domain.      *)
Window == INSTANCE LiveWindow WITH win <- <<startTime, endTime>>, view <- xDomain

ImplementsLiveWindow == Window!Spec

(* The chart keeps every pushed tick whose timestamp still lies in the     *)
(* 5-minute window of the current time ("Live Txns - 5 min").              *)
Retained ==
    \A p \in pushed : p.time > now - PastDuration => p \in ToSet(data)

=============================================================================
