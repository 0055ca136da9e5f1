------------------------------ MODULE LiveWindow ------------------------------
(***************************************************************************)
(* What the live latency chart of src/scripts/jupyter/js/livechart.js      *)
(* promises about its time axes, without its data, rects or brush widget:  *)
(*   - the window is the last PastDuration units before a moment of the    *)
(*     clock, and while the chart runs it catches up with the clock;       *)
(*   - the ticker's viewport is the whole window or a non-empty part of    *)
(*     it the user chose;                                                  *)
(*   - when the window slides, the viewport slides with it, keeping its    *)
(*     width and its distance from the window's start;                     *)
(*   - a halted chart does not slide.                                      *)
(* LiveChart implements this specification (LiveChart!ImplementsLiveWindow).*)
(***************************************************************************)
EXTENDS Integers

CONSTANTS PastDuration, BrushWidth, MaxTime

VARIABLES
    now,     \* the clock
    win,     \* the window <<start, end>>
    view,    \* the ticker's viewport <<from, to>>
    halted

avars == <<now, win, view, halted>>

Shift(iv, d) == <<iv[1] + d, iv[2] + d>>

(* The viewports a user may choose: the window, or a non-empty interval    *)
(* inside it.                                                              *)
Choices(w) == {w} \cup {<<a, b>> \in (w[1]..w[2]) \X (w[1]..w[2]) : a < b}

Init ==
    /\ now = PastDuration
    /\ win = <<0, PastDuration>>
    /\ view = <<PastDuration - BrushWidth, PastDuration>>
    /\ halted = FALSE

Tick ==
    /\ now < MaxTime
    /\ now' = now + 1
    /\ UNCHANGED <<win, view, halted>>

Slide ==
    /\ ~halted
    /\ win' = <<now - PastDuration, now>>
    /\ view' = Shift(view, now - win[2])
    /\ UNCHANGED <<now, halted>>

Select ==
    /\ view' \in Choices(win)
    /\ UNCHANGED <<now, win, halted>>

Halt(v) ==
    /\ halted' = v
    /\ UNCHANGED <<now, win, view>>

Next == Tick \/ Slide \/ Select \/ \E v \in BOOLEAN : Halt(v)

Spec == Init /\ [][Next]_avars /\ WF_avars(Slide)
====
