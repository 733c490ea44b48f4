----------------------------- MODULE ColorMap -----------------------------
(***************************************************************************)
(* The colour mapping of bin/otawa-stat.py.  A ratio is always a quotient *)
(* val / max of two non-negative integers (max > 0), so it is kept as the *)
(* pair (val, max).  Python's round() rounds half to even; for the small  *)
(* integers of the model the float quotient is never closer to a half    *)
(* than the exact rational, so the exact computation below gives the     *)
(* same index as the double arithmetic of the code.                       *)
(***************************************************************************)
EXTENDS Integers

\* COLORS: 9 shades ordered light to dark; COLOR_TH: the contrast threshold.
PaletteSize == 9
COLOR_TH == 4

\* Python 3 round(n / d) for n >= 0, d > 0: round half to even.
PyRoundDiv(n, d) ==
    LET q == n \div d
        r == n % d
    IN  IF 2 * r < d THEN q
        ELSE IF 2 * r > d THEN q + 1
        ELSE IF q % 2 = 0 THEN q ELSE q + 1

\* background() written with truncation instead of round (mutant).
BackgroundTrunc(val, max) == (val * (PaletteSize - 1)) \div max

\* background(ratio): index of COLORS[round(ratio * (len(COLORS) - 1))].
Background(val, max) == PyRoundDiv(val * (PaletteSize - 1), max)

\* foreground(ratio): BLACK when ratio * (len(COLORS) - 1) < COLOR_TH,
\* compared before rounding.
Foreground(val, max) ==
    IF val * (PaletteSize - 1) < COLOR_TH * max THEN "black" ELSE "white"

\* The per-line entry of the recolouring arrays of output_sources:
\* 0 for no data, else round(v * (len(COLORS) - 1) / maxv) + 1; the page's
\* foregrounds array is black for the entries 0 .. COLOR_TH.
SourceIndex(v, maxv) ==
    IF v = 0 THEN 0 ELSE PyRoundDiv(v * (PaletteSize - 1), maxv) + 1

SourceForeground(c) == IF c <= COLOR_TH THEN "black" ELSE "white"
=============================================================================
