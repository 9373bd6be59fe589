------------------------- MODULE RrdGraphProperties -------------------------
(* What rrdtool graph and rrdtool xport promise.  The definitions say it by  *)
(* time and by sets, where the code counts rows and moves pointers.          *)
EXTENDS RrdGraph

IsData(e) == e.gf = "DEF" /\ e.from > 0

(* ColumnsMatchArchives: what a DEF holds for a time is what the archive     *)
(* chosen for its interval and step held for that time when it was read, or  *)
(* the consolidation of the archive's rows of that time, unknown when they   *)
(* were not all fetched; and the series covers the interval asked for.       *)
ArchiveRow(rrd, i, t) ==
    LET n == rrd.rra[i].rowCnt
        back == (LastRowTime(rrd, i) - t) \div RowStep(rrd, i)
    IN  IF back \in 0 .. n - 1 THEN rrd.data[i][(rrd.cur[i] - back) % n] ELSE AllNaN(rrd)
Least(S) == CHOOSE x \in S : \A y \in S : x <= y
Greatest(S) == CHOOSE x \in S : \A y \in S : y <= x
OfKnown(cf, times, at) ==
    IF times = {} THEN NaN
    ELSE CASE cf = "MIN" -> Least({at[t] : t \in times})
           [] cf = "MAX" -> Greatest({at[t] : t \in times})
           [] cf = "LAST" -> at[Greatest(times)]
           [] OTHER -> FoldFunctionOnSet(DAdd, 0, at, times) \div Cardinality(times)
Consolidated(cf, at) == OfKnown(cf, {t \in DOMAIN at : Known(at[t])}, at)
InArchive(e, rrd, i, t, step) ==
    LET times == {t - e.step + j * step : j \in 1 .. e.step \div step}
        from == e.startOrig - (e.startOrig % step)
        to == e.endOrig + step - (e.endOrig % step)
    IN  IF e.step = step THEN ArchiveRow(rrd, i, t)[e.ds]
        ELSE IF ~(times \subseteq from + 1 .. to) THEN NaN
        ELSE Consolidated(e.reduce, [u \in times |-> ArchiveRow(rrd, i, u)[e.ds]])
MatchesArchive(e, rrd, i) ==
    /\ rrd.ds[e.ds].nam = e.dsnam
    /\ e.start - e.shift <= e.startOrig /\ e.end - e.shift >= e.endOrig
    /\ \A k \in DOMAIN e.rows :
         e.rows[k][e.ds] = InArchive(e, rrd, i, e.start - e.shift + k * e.step, RowStep(rrd, i))
ColumnsMatchArchives ==
    pc \in {"calc", "done"} =>
    \A k \in DOMAIN gdes : IsData(gdes[k]) =>
        \E rrd \in {Versions[gdes[k].rrd][gdes[k].from].rrd} :
            MatchesArchive(gdes[k], rrd,
                ChosenRra(rrd, gdes[k].cf, gdes[k].startOrig, gdes[k].endOrig, gdes[k].stepOrig))

(* EqualDataFromOneReading: two DEFs that ask for the same come from one     *)
(* reading of the file, whatever was written to it between them; and with a  *)
(* daemon every DEF has what the daemon had accepted when it was read first. *)
AsksFor(e) == <<e.rrd, e.cf, e.reduce, e.startOrig, e.endOrig, e.stepOrig>>
EqualDataFromOneReading ==
    \A j, k \in DOMAIN gdes : IsData(gdes[j]) /\ IsData(gdes[k]) =>
        /\ AsksFor(gdes[j]) = AsksFor(gdes[k]) => gdes[j].from = gdes[k].from
        /\ req.daemon = "up" /\ gdes[j].rrd = gdes[k].rrd => gdes[j].from = gdes[k].from

(* ExpressionsFollowTime: a row of an expression is the expression of what   *)
(* its variables are at the time of the row, however their steps, starts and *)
(* shifts differ; PREV(x) is x one of its own steps earlier.                 *)
AtTime(g, t) ==
    IF t > g.start /\ t <= g.end THEN g.rows[CeilDiv(t - g.start, g.step)][g.ds] ELSE NaN
Windows == {"TREND", "TRENDNAN", "PREDICT", "PREDICTSIGMA"}
TokenAt(tok, t, k) ==
    IF ~IsVariable(tok) THEN tok
    ELSE [op |-> "NUMBER",
          val |-> IF gdes[tok.ptr].gf = "VDEF" THEN gdes[tok.ptr].val
                  ELSE IF tok.op = "VARIABLE" THEN AtTime(gdes[tok.ptr], t)
                  ELSE IF k = 1 THEN NaN ELSE AtTime(gdes[tok.ptr], t - gdes[tok.ptr].step)]
FollowsTime(e) ==
    \A k \in DOMAIN e.rows :
        e.rows[k][1] =
            rpn_calc([i \in DOMAIN e.toks |-> TokenAt(e.toks[i], e.start + k * e.step, k)],
                     EnvAt([j \in 1 .. k - 1 |-> e.rows[j][1]], e.start + k * e.step, req.now)).val
Windowed(e) == \E i \in DOMAIN e.toks : e.toks[i].op \in Windows
ExpressionsFollowTime ==
    [][Calculates("CDEF") /\ gdes' /= gdes /\ ~Windowed(gdes[cursor])
           => FollowsTime(gdes'[cursor])]_vars

(* SummariesAgree: a VDEF is the summary its name says, with the time at     *)
(* which that value was: the earliest of equal extremes.  A correlation is    *)
(* exact up to the rounding of fixed point arithmetic.                       *)
AllFinite(col) == \A k \in DOMAIN col : ~Infinite(col[k])
Peaks(op, col, k) ==
    Known(col[k]) /\ \A j \in DOMAIN col : Known(col[j]) =>
        IF op = "MAXIMUM" THEN col[j] <= col[k] ELSE col[j] >= col[k]
AtRank(col, v, rank) ==
    /\ Cardinality({k \in DOMAIN col : Beneath(col[k], v)}) <= rank
    /\ Cardinality({k \in DOMAIN col : ~Beneath(v, col[k])}) > rank
Rank(percent, n) == (2 * percent * (n - 1) + 100) \div 200
OnALine(col, a, b) == \A k \in DOMAIN col : Known(col[k]) => col[k] = a + b * (k - 1)
SummaryOf(v, src, col, known) ==
    CASE v.op \in {"MAXIMUM", "MINIMUM"} ->
             \E k \in known : /\ v.val = col[k] /\ v.when = src.start + k * src.step
                              /\ Peaks(v.op, col, k) /\ \A j \in 1 .. k - 1 : ~Peaks(v.op, col, j)
      [] v.op = "FIRST" -> /\ v.val = col[Least(known)]
                           /\ v.when = src.start + (Least(known) - 1) * src.step
      [] v.op = "LAST"  -> /\ v.val = col[Greatest(known)]
                           /\ v.when = src.start + Greatest(known) * src.step
      [] v.op = "TOTAL" -> v.val = FoldFunctionOnSet(DAdd, 0, col, known) * src.step
      [] v.op = "AVERAGE" ->
             v.val = FoldFunctionOnSet(DAdd, 0, col, known) \div Cardinality(known)
      [] v.op = "STDEV" -> (v.val = 0) <=> \A j, k \in known : col[j] = col[k]
      [] v.op = "PERCENT" -> AtRank(col, v.val, Rank(v.param, Len(col)))
      [] v.op = "PERCENTNAN" ->
             AtRank(SelectSeq(col, Known), v.val, Rank(v.param, Cardinality(known)))
      [] OTHER ->
             \A j, k \in known : j < k =>
               \E b \in {(col[k] - col[j]) \div (k - j)} : \E a \in {col[j] - b * (j - 1)} :
                 OnALine(col, a, b) =>
                   CASE v.op = "LSLSLOPE" -> v.val = b [] v.op = "LSLINT" -> v.val = a
                     [] v.op = "LSLCORREL" -> Known(v.val) => v.val - (IF b > 0 THEN Unit ELSE -Unit) \in -2 .. 2
Summarises(v, src, col, known) ==
    IF known = {} THEN (v.op /= "PERCENTNAN" => ~Known(v.val)) /\ v.when = 0
    ELSE AllFinite(col) => SummaryOf(v, src, col, known)
SummariesAgree ==
    [][Calculates("VDEF") =>
         \E src \in {gdes[gdes[cursor].vidx]} : \E col \in {Column(src)} :
           Summarises(gdes'[cursor], src, col, {k \in DOMAIN col : Known(col[k])})]_vars

(* PrintsAgree: a PRINT of a series with a consolidation function shows the  *)
(* consolidation of its finite values, and what a VDEF of that name says.    *)
Named(cf) == CASE cf = "MIN" -> "MINIMUM" [] cf = "MAX" -> "MAXIMUM"
               [] cf = "LAST" -> "LAST" [] OTHER -> "AVERAGE"
PrintAgrees(p, line) ==
    \E col \in {Column(gdes[p.vidx])} :
        /\ line = OfKnown(p.cf, {k \in DOMAIN col : Finite(col[k])}, col)
        /\ AllFinite(col) => \A k \in DOMAIN gdes :
             gdes[k].gf = "VDEF" /\ gdes[k].vidx = p.vidx /\ gdes[k].op = Named(p.cf)
             => gdes[k].val = line
PrintsAgree ==
    out.kind \in {"printed", "painted"} =>
    \A i \in DOMAIN out.prints : \E p \in {Elements({"PRINT"})[i]} :
        IsSeries(p.vidx) => PrintAgrees(p, out.prints[i])

(* PictureShowsData: the pixel of an element is the value its series has at  *)
(* that time on top of those it is stacked on, back to the last unstacked.   *)
Drawn(e, t) ==
    IF Known(e.yrule) /\ e.gf /= "TICK" THEN e.yrule
    ELSE IF gdes[e.vidx].gf = "VDEF" THEN gdes[e.vidx].val
    ELSE \* the row whose time begins at t or before it
         IF t < gdes[e.vidx].start THEN NaN ELSE AtTime(gdes[e.vidx], t + 1)
Bottom(k) == Greatest({j \in 1 .. k : Paints(gdes[j]) /\ ~gdes[j].stack} \cup {1})
Height(k, t) ==
    LET below == {j \in Bottom(k) .. k : Paints(gdes[j]) /\ Known(Drawn(gdes[j], t))}
    IN  IF k \in below
        THEN FoldFunctionOnSet(DAdd, 0, [j \in below |-> Drawn(gdes[j], t)], below) ELSE NaN
PictureShowsData ==
    out.kind = "painted" =>
    \A i \in 1 .. im.xsize, k \in DOMAIN gdes : Paints(gdes[k]) =>
        out.canvas[i].pixels[k] = Height(k, PixelTime(im, i - 1))

(* RangeHoldsPicture: unless --rigid, the axis holds everything painted and  *)
(* the limits given, and is not empty.                                       *)
RangeHoldsPicture ==
    out.kind = "painted" /\ ~im.rigid =>
    /\ out.min < out.max /\ out.min <= im.lower
    /\ Known(im.upper) => im.upper <= out.max
    /\ \A i \in 1 .. im.xsize, k \in DOMAIN gdes :
         gdes[k].gf \in {"LINE", "AREA"} /\ Finite(out.canvas[i].pixels[k])
         => out.canvas[i].pixels[k] \in out.min .. out.max

(* ExportAligned: an exported row holds for its time what every column has   *)
(* for that time; only columns that were moved or have times of their own    *)
(* leave rows uncovered, and the rows cover the interval asked for.          *)
Moved(g) ==
    \/ g.shift /= 0
    \/ g.gf = "DEF" /\ (g.startOrig /= im.start \/ g.endOrig /= im.end)
    \/ \E i \in DOMAIN g.toks : IsVariable(g.toks[i]) /\
         LET src == gdes[g.toks[i].ptr] IN
         src.shift /= 0 \/ src.startOrig /= im.start \/ src.endOrig /= im.end
ExportAligned ==
    out.kind = "exported" =>
    /\ out.start <= im.start /\ out.end >= im.end
    /\ Len(out.rows) = (out.end - out.start) \div out.step
    /\ \A r \in DOMAIN out.rows, c \in DOMAIN Exported :
         \E t \in {out.start + r * out.step} :
           IF t > Exported[c].start /\ t <= Exported[c].end
           THEN out.rows[r][c] = AtTime(Exported[c], t)
           ELSE Moved(Exported[c])

(* TimesMeanWhatTheySay: a specification built from a reference and offsets  *)
(* is the time they describe.  A request carries what its times say: ref,    *)
(* the calendar date and seconds of the day of the reference, or the other   *)
(* end of the interval, and the sums of its offsets.                         *)
IsLeap(y) == y % 4 = 0 /\ (y % 100 /= 0 \/ y % 400 = 0)
DaysIn(y, m) ==
    CASE m = 2 -> (IF IsLeap(y) THEN 29 ELSE 28) [] m \in {4, 6, 9, 11} -> 30 [] OTHER -> 31
CivilDays(y, m, d) ==
    FoldLeft(LAMBDA acc, k : acc + (IF IsLeap(k) THEN 366 ELSE 365), 0,
             [i \in 1 .. y - 1970 |-> 1969 + i])
    + FoldLeft(LAMBDA acc, k : acc + DaysIn(y, k), 0, [i \in 1 .. m - 1 |-> i]) + d - 1
At(year, month, mday, seconds) ==
    CivilDays(year + (month - 1) \div 12, ((month - 1) % 12) + 1, 1) * 86400
    + (mday - 1) * 86400 + seconds
Offset(date, delta) ==
    At(date.y + delta.years, date.m + delta.months, date.d + delta.days, date.s) + delta.seconds
DateOf(t) ==
    LET tm == localtime(t)
    IN  [y |-> 1900 + tm.year, m |-> tm.mon + 1, d |-> tm.mday, s |-> t % 86400]
Said(time, other) ==
    Offset(IF time.ref = "other" THEN DateOf(other) ELSE time.date, time.delta)
TimesMeanWhatTheySay ==
    pc = "script" /\ req.says /= <<>> =>
    /\ im.start = Said(req.says[1], im.end)
    /\ im.end = Said(req.says[2], im.start)
===============================================================================
