----------------------------- MODULE LiveWidget -----------------------------
(***************************************************************************)
(* The notebook widget bridge of src/scripts/jupyter/js/live-widget.js:    *)
(* LiveChartView forwards the kernel's txn_ticks batches to the live chart.*)
(*                                                                         *)
(* render() subscribes txnTicksChanged to the model's change:txn_ticks     *)
(* event and asks require.js for d3 and livechart; the chart is created    *)
(* later, in require's callback. A change event runs txnTicksChanged at    *)
(* once, which looks up the view method it forwards to and calls it;       *)
(* ticksChanged would read the batch and queue another require callback   *)
(* that hands every spike to the chart. A JavaScript property lookup is    *)
(* modelled by membership of the name in the object's set of members; a   *)
(* call of a missing member throws a TypeError that ends the handler.      *)
(***************************************************************************)
EXTENDS Integers, Sequences

CONSTANTS
    Batches,    \* the txn_ticks values the kernel sets, as model values
    MaxRenders  \* bound on the renders of the view

(* The members of a LiveChartView, and of the object createLiveChart       *)
(* returns (chart(selection) adds push and halt to it).                    *)
ViewMembers == {"render", "ticksChanged", "txnTicksChanged", "model"}
ChartMembers == {"push", "halt"}

VARIABLES
    listeners,    \* how many times change:txn_ticks is bound to txnTicksChanged
    loadPending,  \* render's require callbacks that have not run yet
    charts,       \* the live charts createLiveChart has made
    liveChart,    \* the closure's liveChart: "undefined" or "chart"
    callbacks,    \* ticksChanged's require callbacks, in FIFO order, each
                  \* with the chart argument it was called with
    sent,         \* history: batches the kernel has set
    heard,        \* history: batches whose change event reached the view
    delivered     \* history: batches handed to the chart

vars == <<listeners, loadPending, charts, liveChart, callbacks, sent, heard,
          delivered>>

Init ==
    /\ listeners = 0
    /\ loadPending = 0
    /\ charts = 0
    /\ liveChart = "undefined"
    /\ callbacks = << >>
    /\ sent = {}
    /\ heard = {}
    /\ delivered = {}

(* render(): this.model.on(...), then require([...], callback). Nothing   *)
(* stops a second render of the view from binding the handler again.      *)
Render ==
    /\ listeners < MaxRenders
    /\ listeners' = listeners + 1
    /\ loadPending' = loadPending + 1
    /\ UNCHANGED <<charts, liveChart, callbacks, sent, heard, delivered>>

(* render's require callback: liveChart = createLiveChart(widget, ...),   *)
(* a new chart with its own interval timer.                                *)
ChartLoaded ==
    /\ loadPending > 0
    /\ loadPending' = loadPending - 1
    /\ charts' = charts + 1
    /\ liveChart' = "chart"
    /\ UNCHANGED <<listeners, callbacks, sent, heard, delivered>>

(* txnTicksChanged, once per binding: callback = this.tickChanged;        *)
(* callback(this, ...). The call throws unless the looked-up member        *)
(* exists, and the exception also skips the later bindings; ticksChanged   *)
(* reads the batch and queues its require callback.                        *)
TxnTicksChanged(b) ==
    /\ heard' = heard \cup {b}
    /\ callbacks' = IF "tickChanged" \in ViewMembers
                    THEN callbacks \o [i \in 1..listeners |->
                                        [batch |-> b, chart |-> liveChart]]
                    ELSE callbacks

(* The kernel sets txn_ticks; Backbone triggers change:txn_ticks, which    *)
(* runs the bound handler, if any, synchronously.                          *)
ModelChange(b) ==
    /\ b \notin sent
    /\ sent' = sent \cup {b}
    /\ IF listeners > 0 THEN TxnTicksChanged(b)
                        ELSE UNCHANGED <<heard, callbacks>>
    /\ UNCHANGED <<listeners, loadPending, charts, liveChart, delivered>>

(* ticksChanged's require callback: chart.datum(spike) for every spike;    *)
(* chart is the liveChart that txnTicksChanged passed, perhaps undefined. *)
TicksCallback ==
    /\ callbacks # << >>
    /\ callbacks' = Tail(callbacks)
    /\ delivered' = IF Head(callbacks).chart = "chart" /\ "datum" \in ChartMembers
                    THEN delivered \cup {Head(callbacks).batch}
                    ELSE delivered
    /\ UNCHANGED <<listeners, loadPending, charts, liveChart, sent, heard>>

Next ==
    \/ Render
    \/ ChartLoaded
    \/ \E b \in Batches : ModelChange(b)
    \/ TicksCallback

Spec == Init /\ [][Next]_vars

-----------------------------------------------------------------------------
TypeOK ==
    /\ listeners \in 0..MaxRenders /\ loadPending \in 0..MaxRenders
    /\ charts \in 0..MaxRenders
    /\ liveChart \in {"undefined", "chart"}
    /\ callbacks \in Seq([batch : Batches, chart : {"undefined", "chart"}])
    /\ sent \subseteq Batches /\ heard \subseteq sent
    /\ delivered \subseteq heard

(* The view is the live chart's only data source: every batch whose       *)
(* change event reached the view has been handed to the chart or is still *)
(* waiting in a require callback.                                          *)
TicksForwarded ==
    \A b \in heard :
        b \in delivered \/ \E i \in 1..Len(callbacks) : callbacks[i].batch = b

=============================================================================
