# TLA+ models of the Xpedite notebook front end

This directory holds TLA+ models of the JavaScript that Xpedite ships into its
Jupyter notebooks. That code lives in `src/scripts/jupyter/js` (the live latency
chart and its widget bridge) and in `src/scripts/lib/xpedite/jupyter/data/js`
(the `viz` chart library, the flot helper and the report page helpers). All of
it runs in one browser event loop. Its concurrency is the interleaving of event
handlers: interval timers, d3 brush and mouse events, Backbone change events,
require.js callbacks and d3 transition callbacks. Each handler runs to
completion. Each model therefore turns each handler into one atomic action and
lets TLC try every order of them.

## System inventory

| Part | Source | State | Operations (actions) | Interacts with |
|------|--------|-------|----------------------|----------------|
| Live chart | `livechart.js` | window `startTime/endTime`, brush extent, ticker viewport `xScale.domain()`, `halted`, `data`, rects of two areas, `tickId` | interval timer, brush handler, `chart.push`, `chart.halt` (halt checkbox) | fed by the widget bridge |
| Widget bridge | `live-widget.js` | subscriptions (one per render), charts created, `liveChart` closure variable, pending require callbacks | `render`, render's require callback, `change:txn_ticks` → `txnTicksChanged` → `ticksChanged`, its require callback | kernel model (Backbone), live chart |
| Bipartite graph | `viz.v1.js` `viz.biPartite` | data, hovered main bar, computed bars | `biPartite(sel)`, `update`, `mouseover`, `mouseout`: all `bars(mb)` → `bpmap` | d3 |
| Chord diagram | `viz.v1.js` `viz.chord` | per chart `data`, groups, bound data; page-wide `keys`, `subgrp`, `chordExist`, `reComputeLayout` | `data()`, `chord(sel)`, `update`, `mouseover`, `mouseout` | other chord diagrams, through window globals |
| Pie | `viz.v1.js` `viz.pie` | `folded`, arcs, label text, pending transitions | `createFolded`, `pie(sel)`, `fold`, `unfold`, d3 timer frames | d3 transitions |
| Scatter plot | `viz.v1.js` `viz.point` | data, width, orientation, `refresh`, cached scales, points, quadtree, selection | `data()`, `width()`, `orient()`, `keyScale(z)`, `valueScale(_)`, `points()`/`tree()`, `point(sel)`, `transition()`, `filterRect(r)` | d3 quadtree |
| Parallel coordinates | `viz.v1.js` `viz.pc` | `dimensions` order, `dimensionScale` domain, `dragging`, axis transforms, foreground and background paths, `brushSelections`, displayed rows | `pc(sel)`, `dragstart`, `drag`, `dragend`, `brushend`, d3 timer frames | d3 drag, brush and transitions |
| Check list | `viz.v1.js` `viz.form.checkList` | `data`, `defaultCheck`, `allNoneButton`, `selectedIndices`, the items' bound data and checkboxes | setters, `checkList(s)`, item click `_onClick`, `allNoneClicked` | caller's `onClick` callback |
| Legend | `viz.v1.js` `viz.legend` | per legend `data`, `rows`, `cols`, `paddingInner`, latched `rowScale`/`colScale`, items; page globals `legend_cols` and `height` | `viz.legend()`, `data(z)`, `rows(_)`, `height(_)`, `legend(sel)` with `updateLocals` | other legends, through the page globals |
| Other viz charts (gg, uscs, calendar, area, line, bar, pie3d, table, ...) | `viz.v1.js` | closure state, DOM | setters and draw | d3 |
| flot bar chart, report helpers, config | `d3flot.js`, `xpedite.js`, `custom.js` | DOM only | draw once, show and hide | none |

These behaviours are the hard part:
- The live chart's timer and brush handlers both redraw from the same closure
  variables. The timer must read the brush offset before it slides the window.
  Both drawing areas take their rect ids from one counter.
- The widget's change events can arrive before the chart exists.
- `bpmap` gives small bars a minimum size and shares the rest, which must
  still fit.
- Chord diagrams share undeclared globals, so one chart's relayout changes
  what another shows on hover. Legends do too: each `viz.legend()` call
  re-points the global `legend_cols` at its own closure.
- d3 transitions outlive the handler that started them. A delayed transition
  fires after later handlers have run. A newer transition on an element
  replaces the older one, but a direct attribute set does not.
- The scatter plot caches its scales and points behind a `refresh` flag. Its
  rectangle filter walks a quadtree and prunes subtrees.

## Modules

Every module turns one handler into one action, with the whole handler in it:
early returns become guards, and a trailing redraw or recomputation is part of
the same step. Every module has an `MC*.tla` that gives the constants values.
Each run has its own `.cfg`.

- `LiveChart.tla` models `liveChart` and `createLiveChart`.
  - Variables: `now` is the clock. `startTime` and `endTime` are the window,
    which is also `xBrush.domain()`. `brushExtent` is `filterPane.extent()`, and
    `xDomain` is `xScale.domain()`. `halted` and `data` are as in the code.
    `tickRects` and `brushRects` are the DOM ids of the `.tick` rects of each
    area, by index, and `tickId` is the id counter. `pushed` is history.
  - `Init` is the state that `chart(selection)` leaves.
  - Actions: `TimerTick` is the whole `setInterval` handler. `Brush(e0,e1)` is
    a drag or clear of the brush with its handler. `Push(t)` is `chart.push`
    and `Halt(v)` is `chart.halt`. `Advance` lets time pass.
  - Time is in whole units, with a window of 4 and a brush of 2. A tick is an
    id and a time, and a rect is its id.
- `LiveWidget.tla` models `LiveChartView`. It has one action per handler and
  per require callback. A JavaScript property lookup is membership of the name
  in the object's set of members. `render` may run again (up to `MaxRenders`):
  each run binds the change handler once more and queues another require
  callback, which creates another chart.
- `Legend.tla` models `viz.legend` over a set of legend objects.
  - Variables: per legend `data` (its length: the layout reads nothing
    else), `rows`, `cols`, `pad` (`paddingInner` in halves), the latched
    `rowScale` (domain size and range length) and `colScale` (domain size),
    and `items`, each item's `<<column, row>>` or `None` when a scale maps it
    to undefined. `owner` is the legend whose closure the global
    `legend_cols` reads, and `height` is the global `height`.
  - Actions: `Create(l)` (`viz.legend()`, which re-points `legend_cols`),
    `SetData`, `SetRows`, `SetHeight` (which calls `rows()` first and throws
    while data is undefined) and `Draw(l)`: `legend(sel)` with every getter
    `updateLocals` calls, in order, and the TypeError when this legend's or the
    owner's data is undefined.
- `BiPartite.tla` models `biPartite.bars(mb)` with `bpmap`, `calculateMainBars`,
  `floorMainBars` and `calculateSubBars` as operators; the code's sums are
  `FoldSeq` folds.
  - Coordinates are exact rationals: each layout carries a common denominator.
  - One action, `Call`, computes the bars for a dataset and a hovered bar.
    Every handler of the chart does exactly this.
- `Chord.tla` models chord diagrams as closures in a set `Charts`, plus the
  window globals they share.
  - Variables: `relaid` and `reCompute` are the globals. `data`, `laidOut`,
    `drawn` and `display` are per chart. `pointer`, `hovered` and `refreshed`
    are history.
  - Actions: `SetData`, `Draw`, `Update`, `Mouseover` and `Mouseout` run
    `relayout` and `relayouts` inside them. A d3 join by index is `Join`.
  - Angles are left out. A group is its source, type and value.
- `Pie.tla` models `pie.data`, `pie.fold`, `pie.unfold`, `pie.createFolded`
  and `pie(sel)`, including the `pie(sel)` before `pie.data(x)` that sets `g`
  and appends an empty `.viz-pie` before it throws (`DrawBeforeData`). After
  it, `fold` and `unfold` only flip `folded`.
  - The d3 timer is the action `Frame`. Pending transitions are countdowns in
    frames.
  - Arcs are "open" or "closed", and a label's text is "label" or "".
- `Point.tla` models `viz.point`. The actions are `SetData`, `SetWidth`,
  `SetOrient`, `SetKeyScale`, `SetValueScale`, `GetPoints`, `Draw`,
  `Transition` and `Filter`. `UpdateLocals` is part of each of the drawing
  actions.
  - `orient(_)` sets the orientation without setting `refresh`. The ranges
    it picks (`KeyRange`, `ValueRange`) are read only when a scale is
    latched, so after the first draw a new orientation takes effect only
    through a new scale. An unknown name leaves the orientation undefined,
    and `updateLocals` then sets it to bottom.
  - `tree` is the root square of the quadtree that `updateLocals` built.
    `filterRect` walks that tree even after a setter has replaced a scale,
    as the code does.
  - Scales are records of domain and range, with integer arithmetic. The
    inputs are chosen so that positions come out whole.
  - The d3 quadtree is built as d3 builds it: `addAll` covers the points'
    bounds, `.extent(...)` then covers the corners of the scales' ranges, and
    the square splits until each leaf holds one position, with coincident
    points chained. `Visited` is the
    set of leaves that `visit` reaches under the code's pruning test.
- `ParallelCoordinates.tla` models `viz.pc` after `pc(sel)`.
  - Variables: `dims` is the `dimensions` array and `domain` is
    `dimensionScale.domain()`. `dragging` is the one dragged dimension and its x.
    `axisAt` is each `.dimension` group's translate x, and `fg` is the
    foreground path as the axis positions it visits. `axisTr`, `fgTr` and
    `bgTr` are pending transitions. `bgVisible`, `brushSel` and `shown` are the
    background's visibility, `brushSelections` and the displayed rows.
  - Actions: `DragStart(d)`, `Drag(x)`, `DragEnd`, `Brushend(p, sel)` and
    `Frame`.
  - `Slot` is `d3.scalePoint` with padding 0.1. `SortByPosition` is the stable
    `dimensions.sort`.
  - `Brushend`'s test inverts the brush through `valueScale`, multiplied
    through by the height so that it is exact.
  - Direct sets in `Drag` change `axisAt` and `fg`. A pending transition still
    puts its own target there when it ends.

- `LiveWindow.tla` is the abstract specification of the live chart's time
  axes: the window is the last `PastDuration` units before a moment of the
  clock and catches up while the chart runs (`Slide`, weakly fair); the
  viewport is the window or a part of it the user chose (`Select`) and slides
  with the window. `LiveChart` implements it with the refinement mapping
  `win <- <<startTime, endTime>>`, `view <- xDomain`; the run checks
  `ImplementsLiveWindow == Window!Spec`.
- `CheckList.tla` models `viz.form.checkList`.
  - Variables: `data`, `defaultCheck`, `allNoneButton` are the setters'
    closure variables; `selected` is `selectedIndices`, an array as a function
    over `1..MaxLen` with `None` for undefined, and `neg` is
    `selectedIndices[-1]`, where `_onClick` writes when `indexOf` misses.
    `items` are the data bound to the list items, `checked` their checkboxes.
    `relaid` is history: `data(_)` was called after the draw. `clicked` is
    history: the datum of the item last clicked.
  - Actions: `SetData`, `SetDefaultCheck`, `SetAllNoneButton`, `Draw`
    (`checkList(s)`), `Click(i)` (`_onClick` on item i, toggling by
    `data().indexOf(d)`) and `AllNone(v)` (`allNoneClicked`, setting the boxes
    by DOM position).
- `CheckSelection.tla` is the abstract specification of the check list's
  selection: a set of values. Drawing selects what `defaultCheck()` accepts.
  `Toggle(v)` adds or removes the clicked value v, and only v, if v is still
  in the data. `SelectAll` fills or clears the set. A new data array keeps
  some of its own values. `CheckList` implements it with the mapping
  `chosen <- Chosen`, the values whose `selectionList()` entry is true. The
  checklist run checks `ImplementsCheckSelection == Selection!Spec`.

## Runs

| Run | Expect | What it shows |
|-----|--------|---------------|
| `livechart` | pass | Timer, brush, push and halt in every order keep viewport, brush, rects and ids consistent; the chart implements `LiveWindow` (`ImplementsLiveWindow`). |
| `livechart_retained` | violation | The brush handler filters with the stale window of the last tick and drops a tick still inside the 5 minutes. |
| `legend` | violation | Two legends on a page: drawing the first after the second was created puts every item of the first at an undefined position (`ItemsInOwnCells`), because the global `legend_cols` computes the second legend's columns. |
| `livewidget` | violation | A `txn_ticks` batch heard by the view never reaches the chart: `this.tickChanged` does not exist. |
| `chord` | pass | With one diagram, a hover shows the hovered source's own row (`HoverShowsOwnRow`), and every refresh shows the current data (`RefreshedShowsData`). |
| `chord_shared` | violation | With two diagrams, hovering one after the other relaid out shows the other's values. |
| `bipartite` | violation | `bars()` lays the main bars past the end of the plot (`MainBarsFit`): a value just above `bpmap`'s cut-off is scaled below the minimum and takes a minimum nobody set aside. |
| `pie` | pass | A settled unfolded pie is labelled (`LabelsShownWhenOpen`). |
| `point` | pass | Over data with distinct points, under all four orientations and user-set scales, the cached points follow the refresh flag (`RefreshConsistent`), and `filterRect`'s pruned quadtree walk selects exactly the points in the rectangle (`FilterSelectsRect`). |
| `pc` | pass | A settled foreground visits the axes left to right in `dimensionScale`'s order (`ForegroundInAxisOrder`). The background comes back after a drag (`BackgroundReturns`). |
| `checklist` | pass | Over distinct data, in every order of setters, draw, item clicks and All/None, each checkbox shows its datum's entry of `selectionList()` while the data is the drawn data (`CheckedMatchesSelection`). The list implements `CheckSelection`: a click toggles exactly the clicked value, even after `data(_)` has reordered or dropped values (`ImplementsCheckSelection`). |
| `pc_axes` | violation | A drag that reorders the axes while an earlier `dragend`'s axis transition is still running is undone by that transition. The axis settles on its old slot, on top of another axis. |

Every property of a passing run has a mutant in `PROJECT.json`. The mutant is
a plausible bug in the code it names, and TLC finds that property violated
when the mutant replaces the code.

**`livechart`** runs timer ticks, brush drags and clears, pushes and halts in
every order, up to time 7. It shows:
- The viewport always equals what the brush selects (`ViewportMatchesBrush`).
- The brush stays inside the window (`ViewportWithinWindow`).
- Both areas draw the same data, and all of it lies inside the window
  (`RenderedInWindow`).
- No DOM id is ever reused (`UniqueTickIds`).
- Every step is a step of `LiveWindow` under the mapping, and the window
  slides when the abstract spec says it must (`ImplementsLiveWindow`). This
  includes that the window keeps up with the clock unless the chart is
  halted.

The pie's fold does not interrupt the label transition that `unfold` delays
by the duration (`viz.v1.js` 2472, 2508-2512). A fold within the duration of
an unfold ends with a folded pie showing its labels. TLC found this with the
property "a folded pie shows no labels"; that run is not kept (see the hazard
in `PROJECT.json`).

**`bipartite`** finds this trace, with min 30, pad 1 and a plot 100 high:
1. The data has primary keys of 0, 4 and 5. Three bars leave 94 for the
   values, and the cut-off is 30/94 of the total 9, about 2.9.
2. 0 is below the cut-off and takes 30. 4 and 5 share the remaining 64 at
   64/9 each: 4 scales to 28.4, below 30, so it takes 30 as well.
3. 5 scales to 35.6, and the last bar ends at 100.56, past the plot. With
   the default height of 600, values 10, 51 and 939 overflow the same way;
   the model's exact arithmetic on them exceeds TLC's integers.

`BiPartite` lays the sub bars into the main bars as `bpmap` returned them,
then floors the main bars (`viz.v1.js` 113-115). A main bar below the cut-off
is drawn `min` wide, while its sub bars and edges cover only its unfloored
middle (hazard at line 115).

**`pc_axes`** finds this trace:
1. Axis b is clicked (`dragstart`, `dragend`). Its transition to x = 11
   starts.
2. Before a frame runs, a is dragged to x = 16, past b. `drag` re-sorts the
   axes and sets b to its new slot, x = 1.
3. `dragend` of a starts a's own transition.
4. The frames run. b's transition ends at 11, the slot it no longer has.

**`legend`** finds this trace:
1. `viz.legend()` returns A, then B. The global `legend_cols` now reads B's
   closure.
2. Both get data of two entries.
3. `A(sel)`: `updateLocals` latches A's rows (2), then calls `legend_cols()`,
   which sets B's `cols` to 1; A's `colScale` gets B's column count.
4. A's items are laid out with A's own `cols`, still undefined: `k % cols` is
   NaN, and both items land at `colScale(NaN)`, undefined.

### Bounds and fairness

LiveChart:
- The clock starts at 4 and runs to 7, so the window slides 3 times.
- Ticks can carry times from one before the window start up to now. They can
  land before, at, inside and at the end of the window.
- Two pushes are enough for the id and ordering properties to meet exits and
  enters in both areas.

Legend: two legends, data of two entries, `rows(2)` and `height(36)`, which
are what the defaults would give. One legend alone then lays out the same grid
on every draw, so what the run finds comes from the page globals.

BiPartite:
- 3 primary and 2 secondary keys, with row values 0, 1, 4 and 5, over every
  non-empty dataset and every hover.
- Pad 1 is the default, min 30, and the plot is 100 high. Sums of these rows
  fall below the cut-off, just above it, and well above it, so the case
  where a value above the cut-off still scales below the minimum occurs.

Chord: keys 1 and 2, four datasets whose rows differ in both directions, so a
value read from the wrong row or chart differs.

CheckList: values v1..v3 and three datasets of up to 3 distinct values in
different orders, so `indexOf` differs from the DOM position; both
`defaultCheck`s of the model, and both settings of `allNoneButton`.

Pie: transitions of 5 frames, so folds and unfolds can overlap pending arc and
label transitions.

Point:
- 3 datasets with different extents and widths 4 and 8, on a plot 4 high.
- All four orientations and an unknown name, and one scale each for
  `keyScale(z)` and `valueScale(_)`. Under the orientations the quadtree's
  extent corners fall on either side of the points, including the reversed
  value range of bottom and right.
- 3 rectangles: one over the whole plot and two with edges on points, so
  both the half-open bounds and the pruning test matter.

ParallelCoordinates:
- 3 dimensions on a plot 22 wide, at slots 1, 11 and 21.
- Drag x's of -3, 6, 16 and 25. These land between slots and past the last
  slot, and past both edges, so the drag is clamped to 0 and to 22.
- 3 rows, and one brush selection per axis plus clearing it.
- Transitions of one frame: any number of handlers can still run before that
  frame, so every ordering of handlers and transition ends occurs.

Fairness:
- `TimerTick` (LiveChart) is weakly fair: `setInterval` is never cleared.
- `Frame` (ParallelCoordinates) is weakly fair: d3's timer runs a frame
  whenever a transition is scheduled. Pie checks only safety, so its spec
  has no fairness.
- The user and the kernel are assumed to do nothing in particular.

## Not modelled

- `viz.gg` (the gauge): it uses the d3 v3 API that the library's d3 v4 does
  not have.
- `boxWhisker`: a private function of the viz closure that nothing calls, so
  no behaviour of the program depends on it.
- `viz.legend`'s width, padding, size, fill, draw and mouse-handler setters,
  and its `rowScale()`/`colScale()` getters called before the first draw.
- `viz.form.checkList`'s label, value, `onClick` and `onHidden` setters,
  which change only text and callbacks, and data with repeated values, for
  which `indexOf` toggles the first copy.
- Calling `pc(sel)` or `chord(sel)` a second time on the same selection, and
  the setters of the charts that only take effect on the next draw.
- Draws before data in the other charts. `checkList(s)` and `point(sel)`
  throw after setting `sel`. `point(sel)` also removes the old plot (there
  is none before data) and latches the default orientation, which a later
  `orient(_)` still overrides. Neither changes anything the models track.
  `chord(sel)` before `data(_)` sets `sel` and empties the shared
  `window.keys` before it throws. That would make another diagram's hover
  throw, and a later `update()` would transition an empty selection. This
  misuse of the API is left out.
- Path and label formatting: `pc.bezier`, `calculateEdges` and arc geometry.
- `d3flot.js`, `xpedite.js` and `custom.js`: pure DOM or configuration.
- The layout-only viz charts: `uscs`, `calendar`, `area`, `line`, `bar`,
  `pie3d`, `table`, `form.select` and `navTabs`.

## Plan

1. Compose `LiveWidget` with `LiveChart`. This only becomes worth checking
   once a batch can reach the chart: today the bridge's misspelt method
   name stops every batch (the `livewidget` run).
2. Check lists over repeated data, where `indexOf` toggles the first copy,
   and legends redrawn with more data than their first draw.
3. Scatter-plot brushing over repeated points, which `filterRect` misses.
4. The parallel-coordinates background, which the delayed transition of an
   earlier drag can show during a later one.
