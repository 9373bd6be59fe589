---------------------------- MODULE RrdGraphCalc ----------------------------
(* What rrd_graph.c and rrd_xport.c compute from fetched data: reduction,    *)
(* expressions, summaries, pixels, the range of the y axis, exported rows.   *)
(* A series is a record [start, end, step, rows, ds]: row k covers the time  *)
(* after start + (k-1)*step up to start + k*step, and ds is its column.      *)
EXTENDS RrdFetch, Rpn

Column(g) == [k \in 1 .. Len(g.rows) |-> g.rows[k][g.ds]]
Finite(x) == Known(x) /\ ~Infinite(x)
Indices(s) == [k \in 1 .. Len(s) |-> k]

(* lcd, the greatest common divisor of the steps.                            *)
RECURSIVE Euclid(_, _)
Euclid(a, b) == IF b = 0 THEN a ELSE Euclid(b, a % b)
lcd(steps) == FoldLeft(Euclid, 0, steps)

(* reduce_data: factor source rows become one.  The first and the last row   *)
(* are unknown when the fetched rows do not cover them.  A count below zero  *)
(* is a huge one, which the sanity check rejects unless factor divides it.   *)
Blend(cf, acc, x) ==
    IF ~Known(x) THEN acc ELSE IF ~Known(acc) THEN x
    ELSE CASE cf = "MIN" -> DMin(acc, x)
           [] cf \in {"MAX", "FAILURES"} -> DMax(acc, x)
           [] cf = "LAST" -> x
           [] OTHER -> DAdd(acc, x)
ReducedEvenly(cf, values) ==            \* a mutant: unknown rows count as zero
    DOver(FoldLeft(LAMBDA acc, x : Blend(cf, acc, x), NaN, values), Len(values))
Reduced(cf, values) ==
    LET all == FoldLeft(LAMBDA acc, x : Blend(cf, acc, x), NaN, values)
    IN  IF cf \in {"MIN", "MAX", "FAILURES", "LAST"} THEN all
        ELSE DOver(all, Len(SelectSeq(values, Known)))
ReducedRow(cf, rows) ==
    [d \in DOMAIN rows[1] |-> Reduced(cf, [i \in DOMAIN rows |-> rows[i][d]])]

DividesAWord(factor) == \E k \in 0 .. 20 : 2 ^ k = factor
Skipped(f, factor) ==
    IF f.start % (f.step * factor) = 0 THEN 0
    ELSE factor - (f.start % (f.step * factor)) \div f.step
Left(f, factor, skip) ==
    (f.end - f.start) \div f.step - skip - (f.end % (f.step * factor)) \div f.step
ReducedSeries(f, factor, step, skip, left, cf) ==
    LET none == [d \in DOMAIN f.rows[1] |-> NaN]
        lead == IF f.start % step = 0 THEN <<>> ELSE <<none>>
        last == IF f.end % step = 0 THEN <<>> ELSE <<none>>
        rows == [k \in 1 .. (IF left > 0 THEN left \div factor ELSE 0) |->
                    ReducedRow(cf, SubSeq(f.rows, skip + (k - 1) * factor + 1,
                                          skip + k * factor))]
        start == f.start - (f.start % step)
        end == f.end + ((-f.end) % step)
    IN  [ok |-> left % factor = 0 /\ (left >= 0 \/ DividesAWord(factor)),
         start |-> start, end |-> end, step |-> step,
         rows |-> SubSeq(lead \o rows \o last, 1, (end - start) \div step)]
ReducedBy(f, factor, skip, cf) ==
    ReducedSeries(f, factor, f.step * factor, skip, Left(f, factor, skip), cf)
ReduceBy(f, factor, cf) == ReducedBy(f, factor, Skipped(f, factor), cf)
reduce_data(f, step, cf) == ReduceBy(f, CeilDiv(step, f.step), cf)

(* GF_CDEF in data_calc.  gdes are the elements parsed before the expression. *)
IsVariable(tok) == tok.op \in VariableOps
Bind(gdes, tok) ==
    IF ~IsVariable(tok) THEN tok
    ELSE IF gdes[tok.ptr].gf = "VDEF" THEN [op |-> "NUMBER", val |-> gdes[tok.ptr].val]
    ELSE [op |-> tok.op, ptr |-> tok.ptr, data |-> Column(gdes[tok.ptr]), pos |-> 0,
          step |-> gdes[tok.ptr].step]
LatestStart(series) == FoldLeft(LAMBDA acc, g : IF acc < g.start THEN g.start ELSE acc,
                                0, series)
EarliestEnd(series) == FoldLeft(LAMBDA acc, g : IF acc = 0 \/ acc > g.end THEN g.end ELSE acc,
                                0, series)
UnmovedTo(gdes, toks, start) == toks    \* a mutant: every variable begins at its first row
MovedTo(gdes, toks, start) ==
    [i \in DOMAIN toks |->
        IF IsVariable(toks[i]) /\ start > gdes[toks[i].ptr].start
        THEN [toks[i] EXCEPT !.pos = (start - gdes[toks[i].ptr].start) \div toks[i].step]
        ELSE toks[i]]
NextRow(acc, result) ==
    IF ~acc.ok THEN acc
    ELSE [ok |-> result.ok, toks |-> result.toks, out |-> Append(acc.out, result.val)]
EnvAt(out, time, now) ==
    [idx |-> Len(out), out |-> out, time |-> time, now |-> now, tzoffset |-> 0]
Rows(toks, times, now) ==
    FoldLeft(LAMBDA acc, t : NextRow(acc, rpn_calc(acc.toks, EnvAt(acc.out, t, now))),
             [ok |-> TRUE, toks |-> toks, out |-> <<>>], times)
Times(start, end, step) == [k \in 1 .. (end - start) \div step |-> start + k * step]
Series(ok, start, end, step, out) ==
    [ok |-> ok, start |-> start, end |-> end, step |-> step,
     rows |-> [k \in DOMAIN out |-> <<out[k]>>]]
Evaluated(gdes, toks, start, end, step, now) ==
    IF end < start THEN Series(FALSE, start, end, step, <<>>)     \* no memory for that
    ELSE LET r == Rows(MovedTo(gdes, toks, start), Times(start, end, step), now)
         IN  Series(r.ok, start, end, step, r.out)
Expression(gdes, toks, series, now) ==
    IF series = <<>> THEN Series(FALSE, 0, 0, 1, <<>>)
    ELSE Evaluated(gdes, toks, LatestStart(series), EarliestEnd(series),
                   lcd([i \in DOMAIN series |-> series[i].step]), now)
ExpressionOf(gdes, toks, now) ==
    LET used == SelectSeq(toks, IsVariable)
    IN  Expression(gdes, toks, [i \in DOMAIN used |-> gdes[used[i].ptr]], now)
cdef_calc(gdes, toks, now) ==
    ExpressionOf(gdes, [i \in DOMAIN toks |-> Bind(gdes, toks[i])], now)

(* GF_SHIFT: the shift is cut to whole steps and replaces an earlier one.    *)
Truncated(x, step) == IF x >= 0 THEN x - (x % step) ELSE -((-x) - ((-x) % step))
ShiftedBy(g, shift) ==
    [g EXCEPT !.start = @ - g.shift + shift, !.end = @ - g.shift + shift, !.shift = shift]

(* vdef_calc: [val, when].  when is a time of the series, or 0.  Of an empty *)
(* array PERCENTNAN takes whatever lies there: stray.                        *)
Sum(values) == FoldLeft(DAdd, 0, values)
Better(op, x, y) == IF op = "MAXIMUM" THEN x > y ELSE x < y
Extreme(op, acc, k, x) ==
    IF ~Known(acc.val) THEN (IF Known(x) THEN [val |-> x, row |-> k] ELSE acc)
    ELSE IF Finite(x) /\ Better(op, x, acc.val) THEN [val |-> x, row |-> k] ELSE acc
ExtremeOf(op, col) ==
    FoldLeft(LAMBDA acc, k : Extreme(op, acc, k, col[k]), [val |-> NaN, row |-> 0],
             Indices(col))
KnownRows(col) == SelectSeq(Indices(col), LAMBDA k : Known(col[k]))
Beneath(x, y) == IF ~Known(x) THEN Known(y) ELSE DLess(x, y)     \* vdef_percent_compar
Ranked(values, percent) ==
    SortSeq(values, Beneath)[(2 * percent * (Len(values) - 1) + 100) \div 200 + 1]
Deviation(values) ==
    LET mean == DOver(Sum(values), Len(values))
        off(x) == DAdd(x, DNeg(mean))
    IN  LibM("SQRT", DOver(Sum([i \in DOMAIN values |-> DMul(off(values[i]), off(values[i]))]),
                           Len(values)))
(* The least squares line over the rows, numbered from 0; x are the row      *)
(* numbers and y the values.                                                 *)
Slope(n, sx, sxx, sxy, sy) == DOver(sx * sy - n * sxy, sx * sx - n * sxx)
Line(op, n, sx, sxx, sxy, sy, syy) ==
    CASE op = "LSLSLOPE" -> Slope(n, sx, sxx, sxy, sy)
      [] op = "LSLINT" -> DOver(DAdd(sy, DNeg(DScale(Slope(n, sx, sxx, sxy, sy), sx))), n)
      [] op = "LSLCORREL" ->
             DDiv(sxy - (sx * sy) \div n,
                  LibM("SQRT", (sxx - (sx * sx) \div n) * (syy - DMul(sy, sy) \div n)))
LineThrough(op, col, rows) ==
    LET sum(f(_)) == Sum([i \in DOMAIN rows |-> f(rows[i])])
    IN  Line(op, Len(rows), sum(LAMBDA k : k - 1), sum(LAMBDA k : (k - 1) * (k - 1)),
             sum(LAMBDA k : (k - 1) * col[k]), sum(LAMBDA k : col[k]),
             sum(LAMBDA k : DMul(col[k], col[k])))

WhenBegins(src, row) == IF row = 0 THEN 0 ELSE src.start + (row - 1) * src.step
WhenEnds(src, row) == IF row = 0 THEN 0 ELSE src.start + row * src.step
Timeless(val) == [val |-> val, when |-> 0]
AtRow(col, row, when) == [val |-> IF row = 0 THEN NaN ELSE col[row], when |-> when]
Ordinal(src, col, op, rows) ==
    IF op = "FIRST"
    THEN AtRow(col, IF rows = <<>> THEN 0 ELSE rows[1],
               WhenBegins(src, IF rows = <<>> THEN 0 ELSE rows[1]))
    ELSE AtRow(col, IF rows = <<>> THEN 0 ELSE Last(rows),
               WhenEnds(src, IF rows = <<>> THEN 0 ELSE Last(rows)))
Moment(op, src, finite) ==
    IF finite = <<>> THEN NaN
    ELSE CASE op = "TOTAL" -> DScale(Sum(finite), src.step)
           [] op = "AVERAGE" -> DOver(Sum(finite), Len(finite))
           [] op = "STDEV" -> Deviation(finite)
Peak(src, extreme) == [val |-> extreme.val, when |-> WhenEnds(src, extreme.row)]
vdef_calc(src, col, op, param, stray) ==
    CASE op \in {"MAXIMUM", "MINIMUM"} -> Peak(src, ExtremeOf(op, col))
      [] op \in {"FIRST", "LAST"} -> Ordinal(src, col, op, KnownRows(col))
      [] op \in {"TOTAL", "AVERAGE", "STDEV"} ->
             Timeless(Moment(op, src, SelectSeq(col, Finite)))
      [] op = "PERCENT" -> Timeless(Ranked(col, param))
      [] op = "PERCENTNAN" ->
             Timeless(IF KnownRows(col) = <<>> THEN stray
                      ELSE Ranked(SelectSeq(col, Known), param))
      [] OTHER ->
             Timeless(IF SelectSeq(col, Finite) = <<>> THEN NaN
                      ELSE LineThrough(op, col, SelectSeq(Indices(col),
                                                          LAMBDA k : Finite(col[k]))))

(* print_calc: what a PRINT with a consolidation function shows.             *)
PrintedUncounted(cf, finite) ==         \* a mutant: an average is the sum
    IF finite = <<>> THEN NaN ELSE IF cf = "AVERAGE" THEN Sum(finite) ELSE Last(finite)
Printed(cf, finite) ==
    IF finite = <<>> THEN NaN
    ELSE CASE cf = "MIN" -> FoldLeft(DMin, finite[1], finite)
           [] cf \in {"MAX", "FAILURES"} -> FoldLeft(DMax, finite[1], finite)
           [] cf = "LAST" -> Last(finite)
           [] OTHER -> DOver(Sum(finite), Len(finite))

(* data_proc: a value for every pixel.  t is the time at its left edge.      *)
PixelTime(im, i) == im.start + ((im.end - im.start) * i) \div im.xsize
ValueAt(g, t) ==
    IF t >= g.start /\ t < g.end THEN g.rows[(t - g.start) \div g.step + 1][g.ds] ELSE NaN
Shown(gdes, e, t) ==
    IF Known(e.yrule) /\ e.gf /= "TICK" THEN e.yrule
    ELSE IF gdes[e.vidx].gf = "VDEF" THEN gdes[e.vidx].val
    ELSE ValueAt(gdes[e.vidx], t)
(* The pixels of one time.  base is what a stacked element is painted on; lo *)
(* and hi are the extremes of the painted values, a tick's apart.            *)
Paints(e) == e.gf \in {"LINE", "AREA", "TICK"}
OnTop(acc, e, k, top, counts) ==
    [base |-> top, pixels |-> [acc.pixels EXCEPT ![k] = top],
     lo |-> IF counts /\ (~Known(acc.lo) \/ top < acc.lo) THEN top ELSE acc.lo,
     hi |-> IF counts /\ (~Known(acc.hi) \/ top > acc.hi) THEN top ELSE acc.hi]
Stacked(acc, e, k, top) == OnTop(acc, e, k, top, Finite(top) /\ e.gf /= "TICK")
Painted(acc, e, k, base, value) ==
    IF Known(value) THEN Stacked(acc, e, k, DAdd(base, value)) ELSE [acc EXCEPT !.base = base]
BaseKept(acc, e) == acc.base            \* a mutant: what is not stacked is painted on top too
Base(acc, e) == IF e.stack THEN acc.base ELSE 0
PixelsAt(gdes, t) ==
    FoldLeft(LAMBDA acc, k :
                 IF Paints(gdes[k])
                 THEN Painted(acc, gdes[k], k, Base(acc, gdes[k]), Shown(gdes, gdes[k], t))
                 ELSE acc,
             [base |-> 0, pixels |-> [k \in DOMAIN gdes |-> NaN], lo |-> NaN, hi |-> NaN],
             Indices(gdes))
Canvas(im, gdes) == [i \in 1 .. im.xsize |-> PixelsAt(gdes, PixelTime(im, i - 1))]

(* The range of the axis: what the data needs, the limits given, a minimum   *)
(* below the maximum, and unless --rigid sensible values around both.        *)
Lowest(canvas) == FoldLeft(LAMBDA acc, p : IF Known(acc) THEN DMin(acc, p.lo) ELSE p.lo,
                           NaN, canvas)
Highest(canvas) == FoldLeft(LAMBDA acc, p : IF Known(acc) THEN DMax(acc, p.hi) ELSE p.hi,
                            NaN, canvas)
Limits(min, max) == [min |-> min, max |-> max]
OfData(lo, hi) == IF Known(lo) /\ Known(hi) THEN Limits(lo, hi) ELSE Limits(0, Unit)
WithLimits(im, data) ==
    Limits(IF ~im.rigid /\ im.lower > data.min THEN data.min ELSE im.lower,
           IF ~Known(im.upper) \/ (~im.rigid /\ im.upper < data.max) THEN data.max ELSE im.upper)
Upright(r) ==
    IF r.min <= r.max THEN r
    ELSE [r EXCEPT !.min = (IF r.min > 0 THEN 99 * r.max ELSE 101 * r.max) \div 100]
Apart(r) ==
    IF r.min /= r.max THEN r
    ELSE IF r.max = 0 THEN [r EXCEPT !.max = Unit]
    ELSE [r EXCEPT !.max = IF @ > 0 THEN CeilDiv(101 * @, 100) ELSE CeilDiv(99 * @, 100)]
DataRange(im, canvas) ==
    Apart(Upright(WithLimits(im, OfData(Lowest(canvas), Highest(canvas)))))

(* expand_range: the sensible values, in tenths; the magnitude is 1.  An end *)
(* of the range moves to the value beyond it.                                *)
SensibleTenths ==
    <<10000, 9000, 8000, 7500, 7000, 6000, 5000, 4000, 3000, 2500, 2000, 1250, 1000, 900,
      800, 750, 700, 600, 500, 400, 300, 250, 200, 100, 90, 80, 70, 60, 50, 40, 35, 30, 25,
      20, 18, 15, 12, 10, 8, 7, 6, 5, 4, 3, 2, 1>>
Sensible == [i \in DOMAIN SensibleTenths |-> (SensibleTenths[i] * Unit) \div 10]
Between(x, i) == Sensible[i - 1] >= x /\ Sensible[i] <= x
MovedShort(r, x, i) == IF Between(x, i) THEN Sensible[i] ELSE r     \* a mutant
MovedUp(r, x, i) ==
    IF Between(x, i) THEN Sensible[i - 1] ELSE IF Between(-x, i) THEN -Sensible[i] ELSE r
MovedDown(r, x, i) ==
    IF Between(x, i) THEN Sensible[i] ELSE IF Between(-x, i) THEN -Sensible[i - 1] ELSE r
Rungs == [i \in 1 .. Len(SensibleTenths) - 1 |-> i + 1]
Fraction(im, r) == DOver(r.max - r.min, 10)
AltFact(x) == CASE x < 10 * Unit  -> Unit \div 50      \* 2% of the power of ten below x
                [] x < 100 * Unit -> Unit \div 5
                [] OTHER          -> 2 * Unit
Margin(im, r, fact) ==
    IF r.max - r.min < fact THEN ((fact - (r.max - r.min)) * 55) \div 100 ELSE Fraction(im, r)
AltMargin(im, r) == Margin(im, r, AltFact(DMax(DAbs(r.min), DAbs(r.max))))
expand_range(im, r) ==
    CASE im.grid > 0 -> Limits((r.min \div im.grid) * im.grid, CeilDiv(r.max, im.grid) * im.grid)
      [] im.grid = 0 /\ im.scale = "alt" ->
             Limits(r.min - AltMargin(im, r), r.max + AltMargin(im, r))
      [] im.grid = 0 /\ im.scale = "min" -> [r EXCEPT !.min = @ - Fraction(im, r)]
      [] im.grid = 0 /\ im.scale = "max" -> [r EXCEPT !.max = @ + Fraction(im, r)]
      [] im.grid = 0 /\ im.scale = "auto" ->
             Limits(FoldLeft(LAMBDA acc, i : MovedDown(acc, r.min, i), r.min, Rungs),
                    FoldLeft(LAMBDA acc, i : MovedUp(acc, r.max, i), r.max, Rungs))
AxisRange(im, canvas) ==
    IF im.rigid THEN DataRange(im, canvas) ELSE expand_range(im, DataRange(im, canvas))

(* rrd_xport_fn: the rows of the common step around the interval; a row that *)
(* lies outside of a series reads what does not belong to it.                *)
RowOrStray(g, k, stray) ==
    IF k \in 0 .. Len(g.rows) - 1 THEN g.rows[k + 1][g.ds] ELSE stray
ExportedAt(columns, t, stray) ==
    [c \in DOMAIN columns |->
        RowOrStray(columns[c], (t - columns[c].start) \div columns[c].step, stray)]
ExportedAtEnd(columns, t, step, stray) ==     \* a mutant: a row read at the time it is shown at
    ExportedAt(columns, t + step, stray)
ExportedRow(columns, t, step, stray) == ExportedAt(columns, t, stray)
Export(im, columns, step, stray) ==
    LET start == im.start - (im.start % step)
        end == im.end - (im.end % step) + step
    IN  [start |-> start, end |-> end, step |-> step,
         rows |-> [r \in 1 .. (end - start) \div step |->
                      ExportedRow(columns, start + (r - 1) * step, step, stray)]]
rrd_xport_fn(im, columns, stray) ==
    Export(im, columns, lcd([c \in DOMAIN columns |-> columns[c].step]), stray)
===============================================================================
