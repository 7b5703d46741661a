------------------------------- MODULE Charts -------------------------------
(***************************************************************************)
(* The charts of the Mini App: daily bars of traffic (BarChart.tsx in      *)
(* UsageSheet and TrafficSheet) and lines of server metrics (Chart.tsx in  *)
(* ServerStatsSheet), with what they share (chartkit.tsx).                 *)
(*                                                                         *)
(* Lengths are whole pixels.  Where the code divides by the number of      *)
(* points n or by the plot's width, both sides here are multiplied by it.  *)
(* Tops of axes are in tenths, so that 1.1 times a value is whole.         *)
(***************************************************************************)
EXTENDS Integers, Sequences, FiniteSetsExt

CONSTANTS
    Amounts,    \* values of a day or a sample
    MaxPoints,  \* bound: points in the data
    Powers,     \* powers of ten, up to one beyond the amounts
    Widths,     \* widths of the chart
    Fingers     \* where a finger may be, from the chart's left edge

ASSUME ChartConstants ==
    /\ Amounts \subseteq Nat /\ MaxPoints \in Nat \ {0}
    /\ Powers \subseteq Nat \ {0} /\ 1 \in Powers
    /\ \A p \in Powers \ {1} : \E q \in Powers : p = 10 * q
    /\ \A a \in Amounts : \E p \in Powers : a <= p
    /\ Widths \subseteq Nat \ {0} /\ Fingers \subseteq Int

PadL == 46      \* CHART_PAD
PadR == 10
MaxSlot == 64

VARIABLES
    drawing,    \* "bars" or "lines"
    series,     \* what is drawn; << >> = nothing loaded
    width,      \* measured by the ResizeObserver
    scrub,      \* the picked bar, the fractional index, or NoScrub
    press       \* pointer type of what is down, or "none"

chartVars == <<drawing, series, width, scrub, press>>

NoScrub == -1
N == Len(series)

\* At least one, however narrow the chart.
Inner == Max({1, width - PadL - PadR})

Clamp(x, lo, hi) == Max({lo, Min({x, hi})})

\* "Start the chart at the first day with traffic"; none: all of them.
Trimmed(days) ==
    LET used == {i \in 1 .. Len(days) : days[i] > 0}
    IN  IF used = {} THEN days ELSE SubSeq(days, Min(used), Len(days))

-----------------------------------------------------------------------------
(* Axes.                                                                    *)

\* Mutation: no step between 2.5 and 10.
CoarseCeil(tenths) ==
    Min({c \in {s * p : s \in {10, 20, 25}, p \in Powers} : c >= tenths})

\* The next of 1, 2, 2.5 and 5 times a power of ten.
NiceCeil(tenths) ==
    Min({c \in {s * p : s \in {10, 20, 25, 50}, p \in Powers} : c >= tenths})

Tallest == Max({1} \cup {series[i] : i \in 1 .. N})

\* yMax, in tenths.
Top10 == NiceCeil(11 * Tallest)

-----------------------------------------------------------------------------
(* Bars.  A slot is Slot / N wide.                                          *)

\* As many as fit, but no wider than the cap: few days stay at the left.
Slot == Min({Inner, MaxSlot * N})

\* Twice N times the centre of bar i, counted from 0.
Centre2(i) == 2 * N * PadL + Slot * (2 * i + 1)

\* Mutation: bars are looked for over the whole width.
PickUncapped(x) == Clamp(((x - PadL) * N) \div Inner, 0, N - 1)

\* pickFromX
Pick(x) == Clamp(((x - PadL) * N) \div Slot, 0, N - 1)

(* Lines.  The fractional index times Inner.                                *)

\* onMove
Index(x) == Clamp((x - PadL) * (N - 1), 0, (N - 1) * Inner)

\* (N - 1) times xAt of the picked index.
Crosshair == (N - 1) * PadL + scrub

-----------------------------------------------------------------------------
\* The first answer, and every later one: the finger may be down meanwhile.
Load ==
    /\ \E n \in 1 .. MaxPoints : \E days \in [1 .. n -> Amounts] :
         series' = IF drawing = "bars" THEN Trimmed(days) ELSE days
    /\ UNCHANGED <<drawing, width, scrub, press>>

Resize ==
    /\ width' \in Widths
    /\ UNCHANGED <<drawing, series, scrub, press>>

Scrub(x) == scrub' = IF drawing = "bars" THEN Pick(x) ELSE Index(x)

PointerDown(x) ==
    /\ N > 0 /\ press = "none"
    /\ press' \in {"touch", "mouse"}
    /\ Scrub(x)
    /\ UNCHANGED <<drawing, series, width>>

\* A mouse scrubs lines without a button.
PointerMove(x) ==
    /\ N > 0
    /\ press # "none" \/ drawing = "lines"
    /\ Scrub(x)
    /\ UNCHANGED <<drawing, series, width, press>>

\* A mouse that lets go leaves its mark until it leaves the chart.
PointerUp ==
    /\ press # "none" /\ press' = "none"
    /\ scrub' = IF press = "mouse" THEN scrub ELSE NoScrub
    /\ UNCHANGED <<drawing, series, width>>

PointerLeave ==
    /\ press = "none" /\ scrub # NoScrub /\ scrub' = NoScrub
    /\ UNCHANGED <<drawing, series, width, press>>

PointerCancel ==
    /\ press # "none" /\ press' = "none" /\ scrub' = NoScrub
    /\ UNCHANGED <<drawing, series, width>>

ChartInit ==
    /\ drawing \in {"bars", "lines"}
    /\ series = << >> /\ width \in Widths
    /\ scrub = NoScrub /\ press = "none"

ChartNext ==
    \/ Load \/ Resize \/ PointerUp \/ PointerLeave \/ PointerCancel
    \/ \E x \in Fingers : PointerDown(x) \/ PointerMove(x)

ChartSpec == ChartInit /\ [][ChartNext]_chartVars

-----------------------------------------------------------------------------
ChartTypeOK ==
    /\ drawing \in {"bars", "lines"} /\ width \in Widths
    /\ series \in Seq(Amounts) /\ N <= MaxPoints
    /\ scrub \in Int /\ press \in {"none", "touch", "mouse"}

(* No bar leaves the chart, and the tallest fills a good part of it: the     *)
(* rounded top is at least what is drawn and never much more (chartkit.tsx:  *)
(* 12-17, BarChart.tsx:48).                                                  *)
BarsFillTheAxis ==
    (\E i \in 1 .. N : series[i] > 0) =>
        10 * Tallest <= Top10 /\ 100 * 10 * Tallest >= 45 * Top10

(* A scrub picks what is under the finger, at any width and with any number  *)
(* of days: the bar whose centre is nearest, or the point of the line at the *)
(* finger's x, kept within the plot (BarChart.tsx:71, Chart.tsx:84).         *)
ScrubUnderFinger ==
    [][\A x \in Fingers : (PointerDown(x) \/ PointerMove(x)) =>
         LET away(i) == Max({Centre2(i) - 2 * N * x, 2 * N * x - Centre2(i)})
             inside  == Clamp(x, PadL, PadL + Inner)
         IN  IF drawing = "bars" THEN \A i \in 0 .. N - 1 : away(scrub') <= away(i)
             ELSE N > 1 => Crosshair' = (N - 1) * inside]_chartVars
=============================================================================
