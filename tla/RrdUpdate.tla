------------------------------ MODULE RrdUpdate ------------------------------
(* rrd_update.c: one call of _rrd_update feeds a list of lines, each a time  *)
(* and one reading per data source of the template, into an RRD.             *)
(*                                                                           *)
(* A reading is an integer, U or Bad.  Times are whole seconds: last_up_usec *)
(* is left out.                                                              *)
EXTENDS RrdHw, Rpn
CONSTANTS Wrap32, Wrap64    \* 2^32 and 2^64 - 2^32, scaled to the instance

Indices(s) == [i \in 1 .. Len(s) |-> i]
IsNumber(v) == v \notin {U, Bad}

(* parse_template: the data sources the readings of a line belong to.        *)
DefaultTemplate(rrd) ==
    SelectSeq(Indices(rrd.ds), LAMBDA d : rrd.ds[d].dst /= "COMPUTE")
parse_template(rrd, tmplt) ==
    [ok |-> /\ Len(tmplt) <= Len(rrd.ds)
            /\ \A k \in 1 .. Len(tmplt) : ds_match(rrd, tmplt[k]) /= 0,
     idx |-> [k \in 1 .. Len(tmplt) |-> ds_match(rrd, tmplt[k])]]

(* parse_ds: the reading of every data source, U for the ones the template   *)
(* leaves out; the last of two readings for one data source counts.          *)
Updvals(rrd, idx, values) ==
    [d \in Dss(rrd) |->
        LET ks == {k \in 1 .. Len(idx) : idx[k] = d}
        IN  IF ks = {} THEN U ELSE values[CHOOSE k \in ks : \A j \in ks : j <= k]]
parse_ds(rrd, idx, line) ==
    [ok |-> Len(line.values) = Len(idx) /\ line.time > rrd.lastUp,
     vals |-> Updvals(rrd, idx, line.values)]

(* rrd_diff: unknown when a number is missing or the signs differ.           *)
rrd_diff(a, b) ==
    IF IsNumber(a) /\ IsNumber(b) /\ (a < 0 <=> b < 0) THEN (a - b) * Unit ELSE NaN

(* The value a reading adds for `interval' seconds: rate times seconds.      *)
OverflowCaught(diff) ==
    LET once == IF DLess(diff, 0) THEN diff + Wrap32 * Unit ELSE diff
    IN  IF DLess(once, 0) THEN once + Wrap64 * Unit ELSE once
Measured(def, last, val, interval) ==
    CASE def.dst = "GAUGE"    -> val * interval * Unit
      [] def.dst = "ABSOLUTE" -> val * Unit
      [] last = U           -> NaN
      [] def.dst = "COUNTER"  -> OverflowCaught(rrd_diff(val, last))
      [] def.dst = "DERIVE"   -> rrd_diff(val, last)
InRange(def, rate) ==
    Known(rate) => /\ ~DLess(def.max, rate)
                   /\ ~DLess(rate, def.min)

(* update_pdp_prep for one data source.                                      *)
Expired(def, interval) == def.mrhb < interval
Used(def, val, interval) ==
    val /= U /\ def.dst /= "COMPUTE" /\ ~Expired(def, interval)
Malformed(def, val, interval) ==
    /\ Used(def, val, interval)
    /\ val = Bad \/ (def.dst = "COUNTER" /\ val < 0)
PdpNew(def, last, val, interval) ==
    LET m == Measured(def, last, val, interval)
    IN  IF Used(def, val, interval) /\ InRange(def, DOver(m, interval)) THEN m ELSE NaN

(* The data sources before the first malformed reading have taken over their *)
(* new reading when the line fails.                                          *)
update_pdp_prep(rrd, vals, interval) ==
    LET bad == {d \in Dss(rrd) : Malformed(rrd.ds[d], vals[d], interval)}
        Reached(d) == \A b \in bad : d < b
    IN  [ok |-> bad = {},
         pdpNew |-> [d \in Dss(rrd) |->
             IF Reached(d)
             THEN PdpNew(rrd.ds[d], rrd.pdp[d].last, vals[d], interval) ELSE NaN],
         rrd |-> [rrd EXCEPT !.pdp = [d \in Dss(rrd) |->
             IF Reached(d) THEN [@[d] EXCEPT !.last = vals[d]] ELSE @[d]]]]

(* calculate_elapsed_steps.                                                  *)
StepStart(rrd, t) == t - (t % rrd.step)
ElapsedSteps(rrd, t) ==
    (StepStart(rrd, t) - StepStart(rrd, rrd.lastUp)) \div rrd.step

simple_update(rrd, interval, pdpNew) ==
    [rrd EXCEPT !.pdp = [d \in Dss(rrd) |->
        LET pdp == rrd.pdp[d]
        IN  IF ~Known(pdpNew[d]) THEN [pdp EXCEPT !.unkn = pdp.unkn + interval]
            ELSE [pdp EXCEPT !.val = DAdd(IfNaN(pdp.val, 0), pdpNew[d])]]]

(* process_pdp_st for a data source that is not computed: the rate of the    *)
(* finished steps.                                                           *)
PdpRate(rrd, d, interval, pre, elapsed, pdpNew) ==
    LET pdp == rrd.pdp[d]
        known == Known(pdpNew)
        total == IF known THEN DAdd(IfNaN(pdp.val, 0), DScale(DOver(pdpNew, interval), pre))
                 ELSE pdp.val
        seconds == elapsed * rrd.step - pdp.unkn - (IF known THEN 0 ELSE pre)
    IN  IF interval > rrd.ds[d].mrhb \/ rrd.step < 2 * pdp.unkn THEN NaN
        ELSE DOver(total, seconds)

(* A COMPUTE data source: the variables become the rates of the data sources *)
(* before it.                                                                *)
Substituted(nodes, rates) ==
    [i \in 1 .. Len(nodes) |->
        IF nodes[i].op = "VARIABLE"
        THEN [op |-> "NUMBER", val |-> rates[nodes[i].ptr]] ELSE nodes[i]]
ComputedRate(def, d, rates) ==
    rpn_calc(Substituted(rpn_expand(def.cdef), rates),
             [idx |-> d - 1, out |-> rates, time |-> 0, now |-> 0, tzoffset |-> 0])

(* process_all_pdp_st: the data sources in order, up to the first computed   *)
(* one that fails.                                                           *)
Carried(pdp, interval, post, new) ==
    IF Known(new) THEN [pdp EXCEPT !.unkn = 0, !.val = DScale(DOver(new, interval), post)]
    ELSE [pdp EXCEPT !.unkn = post, !.val = NaN]
WithRate(st, d, calc, carried) ==
    IF ~calc.ok THEN [st EXCEPT !.ok = FALSE]
    ELSE [ok |-> TRUE, rates |-> Append(st.rates, calc.val),
          rrd |-> [st.rrd EXCEPT !.pdp[d] = carried]]
process_all_pdp_st(rrd, interval, pre, post, elapsed, pdpNew) ==
    FoldLeft(LAMBDA st, d :
                IF ~st.ok THEN st
                ELSE WithRate(st, d,
                    IF rrd.ds[d].dst = "COMPUTE" THEN ComputedRate(rrd.ds[d], d, st.rates)
                    ELSE [ok |-> TRUE,
                          val |-> PdpRate(rrd, d, interval, pre, elapsed, pdpNew[d])],
                    Carried(rrd.pdp[d], interval, post, pdpNew[d])),
             [ok |-> TRUE, rates |-> <<>>, rrd |-> rrd], Indices(rrd.ds))

(* initialize_cdp_val, initialize_carry_over, calculate_cdp_val.             *)
Neutral(cf) == CASE cf = "MAX" -> -Inf [] cf = "MIN" -> Inf
                 [] cf = "AVERAGE" -> 0 [] OTHER -> NaN
initialize_cdp_val(cf, cdp, rate, offset, pdpCnt) ==
    CASE cf = "AVERAGE" -> DOver(DAdd(IfNaN(cdp.val, 0), DScale(IfNaN(rate, 0), offset)),
                                 pdpCnt - cdp.unkn)
      [] cf = "MAX" -> DMax(IfNaN(cdp.val, -Inf), IfNaN(rate, -Inf))
      [] cf = "MIN" -> DMin(IfNaN(cdp.val, Inf), IfNaN(rate, Inf))
      [] OTHER -> rate
carry_over_always(cf, rate, into) ==    \* a mutant: also at the end of a row
    IF ~Known(rate) THEN Neutral(cf) ELSE IF cf = "AVERAGE" THEN DScale(rate, into) ELSE rate
initialize_carry_over(cf, rate, into) ==
    IF into = 0 \/ ~Known(rate) THEN Neutral(cf)
    ELSE IF cf = "AVERAGE" THEN DScale(rate, into) ELSE rate
calculate_cdp_val(cf, val, rate, elapsed) ==
    LET new == IF cf = "AVERAGE" THEN DScale(rate, elapsed) ELSE rate
    IN  IF ~Known(val) THEN new
        ELSE CASE cf = "AVERAGE" -> DAdd(val, new)
               [] cf = "MIN" -> DMin(val, rate)
               [] cf = "MAX" -> DMax(val, rate)
               [] OTHER -> rate

(* update_cdp, for an archive of several primary data points per row.  The   *)
(* xff is a fraction of Unit.                                                *)
update_cdp(cdp, def, rate, steps, elapsed, offset) ==
    LET unknown == ~Known(rate)
        counted == [cdp EXCEPT !.unkn = IF unknown THEN @ + offset ELSE @]
        into == (elapsed - offset) % def.pdpCnt
    IN  IF steps = 0 THEN
            IF unknown THEN [cdp EXCEPT !.unkn = @ + elapsed]
            ELSE [cdp EXCEPT !.val = calculate_cdp_val(def.cf, @, rate, elapsed)]
        ELSE [val |-> initialize_carry_over(def.cf, rate, into),
              unkn |-> IF unknown THEN into ELSE 0,
              primary |-> IF counted.unkn * Unit > def.pdpCnt * def.xff THEN NaN
                          ELSE initialize_cdp_val(def.cf, counted, rate, offset, def.pdpCnt),
              secondary |-> rate]

(* reset_cdp: an archive of one primary data point per row after a gap of    *)
(* more than two steps.                                                      *)
reset_cdp(rrd, elapsed, rate, last, next, i, d) ==
    LET cf == rrd.rra[i].cf
        unknown == [rrd.cdp[i][d] EXCEPT !.primary = NaN, !.secondary = NaN]
    IN  CASE cf \in SeasonCfs ->
                [rrd EXCEPT !.cdp[i][d].lastCoef = last[d], !.cdp[i][d].coef = next[d]]
          [] cf \in PredictionCfs ->
                [rrd EXCEPT !.cdp[i][d] =
                    [unknown EXCEPT !.nulls = @ + elapsed, !.lastNulls = @ + elapsed - 1]]
          [] cf = "DEVPREDICT" -> [rrd EXCEPT !.cdp[i][d] = unknown]
          [] cf = "FAILURES" ->
                [erase_violations(rrd, i, d) EXCEPT !.cdp[i][d].primary = 0,
                                                    !.cdp[i][d].secondary = 0]
          [] OTHER -> [rrd EXCEPT !.cdp[i][d].primary = rate, !.cdp[i][d].secondary = rate]

(* do_schedule_smooth: whether to smooth a seasonal array after this update, *)
(* and the burn-in cycle it marks off.                                       *)
BurningIn(rrd, i) == rrd.cdp[i][1].init <= BURNIN_CYCLES
SmoothDue(rrd, i, elapsed) ==
    LET n == rrd.rra[i].rowCnt
        at == rrd.cur[i] + elapsed
        idx == rrd.rra[i].smoothIdx
    IN  IF BurningIn(rrd, i) THEN at >= n
        ELSE IF idx > rrd.cur[i] THEN at >= idx ELSE at >= n + idx
MarkBurnIn(rrd, i, elapsed) ==
    IF BurningIn(rrd, i) /\ SmoothDue(rrd, i, elapsed)
    THEN [rrd EXCEPT !.cdp[i][1].init = @ + 1] ELSE rrd

(* The rows an archive gains, and the steps that complete the first of them. *)
StartOffset(rrd, i, procPdps) ==
    rrd.rra[i].pdpCnt - (procPdps % rrd.rra[i].pdpCnt)
StepCount(rrd, i, procPdps, elapsed) ==
    LET offset == StartOffset(rrd, i, procPdps)
    IN  IF offset <= elapsed THEN (elapsed - offset) \div rrd.rra[i].pdpCnt + 1 ELSE 0
Skipped(rrd, i, steps) == rrd.rra[i].cf \in SeasonCfs /\ steps[i] > 1

(* update_all_cdp_prep and update_cdp_prep.                                  *)
update_cdp_prep(rrd, i, elapsed, procPdps, rates, steps) ==
    FoldLeft(LAMBDA r, d :
                IF rrd.rra[i].pdpCnt > 1 THEN
                    [r EXCEPT !.cdp[i][d] = update_cdp(@, rrd.rra[i], rates[d], steps[i],
                                                elapsed, StartOffset(rrd, i, procPdps))]
                ELSE IF elapsed > 2 THEN
                    reset_cdp(r, elapsed, rates[d], lookup_seasonal(rrd, i, elapsed),
                              lookup_seasonal(rrd, i, elapsed + 1), i, d)
                ELSE r,
             rrd, Indices(rrd.ds))
update_all_cdp_prep(rrd, elapsed, procPdps, rates, steps) ==
    FoldLeft(LAMBDA r, i :
                update_cdp_prep(IF rrd.rra[i].cf \in SeasonCfs
                                THEN MarkBurnIn(r, i, elapsed) ELSE r,
                                i, elapsed, procPdps, rates, steps),
             rrd, Indices(rrd.rra))

(* update_aberrant_cdps: for one or two elapsed steps, the archives in file  *)
(* order, first into the primary slot of every archive, then the secondary.  *)
AberrantPass(rrd, s, rates, ahead) ==
    FoldLeft(LAMBDA r, i :
                IF r.rra[i].pdpCnt /= 1 THEN r
                ELSE FoldLeft(LAMBDA q, d : update_aberrant_CF(q, rates[d], i, d, s,
                                                lookup_seasonal(rrd, i, ahead)),
                              r, Indices(r.ds)),
             rrd, Indices(rrd.rra))
update_aberrant_cdps(rrd, elapsed, rates) ==
    CASE elapsed = 1 -> AberrantPass(rrd, "primary", rates, 2)
      [] elapsed = 2 -> AberrantPass(AberrantPass(rrd, "primary", rates, 3),
                                     "secondary", rates, 4)
      [] OTHER -> rrd

(* write_to_rras: the primary value, then the secondary one for every other  *)
(* row; a skipped archive only moves on.                                     *)
RowValues(rrd, i, s) == [d \in Dss(rrd) |-> rrd.cdp[i][d][s]]
write_to_rras(rrd, steps) ==
    LET n(i) == rrd.rra[i].rowCnt
        put(i, rows, k) ==
            [rows EXCEPT ![(rrd.cur[i] + k) % n(i)] =
                RowValues(rrd, i, IF k = 1 THEN "primary" ELSE "secondary")]
        written(i) == IF Skipped(rrd, i, steps) THEN rrd.data[i]
                      ELSE FoldLeft(LAMBDA rows, k : put(i, rows, k), rrd.data[i],
                                    [k \in 1 .. steps[i] |-> k])
    IN  [rrd EXCEPT !.data = [i \in Rras(rrd) |-> written(i)],
                    !.cur = [i \in Rras(rrd) |-> (@[i] + steps[i]) % n(i)]]

(* process_arg: one line.  Consolidated: what follows once all steps the line *)
(* completes have their rates.                                               *)
Consolidated(rrd, time, elapsed, procPdps, pdps) ==
    LET steps == [i \in Rras(rrd) |-> StepCount(rrd, i, procPdps, elapsed)]
        cdps == update_all_cdp_prep(pdps.rrd, elapsed, procPdps, pdps.rates, steps)
        done == write_to_rras(update_aberrant_cdps(cdps, elapsed, pdps.rates), steps)
    IN  IF ~pdps.ok THEN [ok |-> FALSE, smooth |-> FALSE, rrd |-> pdps.rrd]
        ELSE [ok |-> TRUE, rrd |-> [done EXCEPT !.lastUp = time],
              smooth |-> \E i \in Rras(rrd) :
                            rrd.rra[i].cf \in SeasonCfs /\ SmoothDue(rrd, i, elapsed)]
Accounted(rrd, time, prep) ==
    LET interval == time - rrd.lastUp
        elapsed == ElapsedSteps(rrd, time)
    IN  IF ~prep.ok THEN [ok |-> FALSE, smooth |-> FALSE, rrd |-> prep.rrd]
        ELSE IF elapsed = 0 THEN
            [ok |-> TRUE, smooth |-> FALSE,
             rrd |-> [simple_update(prep.rrd, interval, prep.pdpNew) EXCEPT !.lastUp = time]]
        ELSE Consolidated(rrd, time, elapsed, StepStart(rrd, rrd.lastUp) \div rrd.step,
                          process_all_pdp_st(prep.rrd, interval,
                              StepStart(rrd, time) - rrd.lastUp, time % rrd.step,
                              elapsed, prep.pdpNew))
process_arg(rrd, idx, line) ==
    LET parsed == parse_ds(rrd, idx, line)
    IN  IF ~parsed.ok THEN [ok |-> FALSE, smooth |-> FALSE, rrd |-> rrd]
        ELSE Accounted(rrd, line.time,
                       update_pdp_prep(rrd, parsed.vals, line.time - rrd.lastUp))

smooth_all_rras(rrd) ==
    FoldLeft(LAMBDA r, i : IF r.rra[i].cf \in SeasonCfs THEN apply_smoother(r, i) ELSE r,
             rrd, Indices(rrd.rra))

(* _rrd_update: the lines in order up to the first that fails; the file is   *)
(* mapped, so what the lines before it changed stays.  Only a call without a *)
(* failure smooths.                                                          *)
Noting(smooth, r) == [r EXCEPT !.smooth = @ \/ smooth]
UpdateLines(rrd, idx, lines) ==
    FoldLeft(LAMBDA st, line :
                IF ~st.ok THEN st
                ELSE Noting(st.smooth, process_arg(st.rrd, idx, line)),
             [ok |-> TRUE, smooth |-> FALSE, rrd |-> rrd], lines)
Smoothed(end) ==
    [ok |-> end.ok,
     rrd |-> IF end.ok /\ end.smooth THEN smooth_all_rras(end.rrd) ELSE end.rrd]
rrd_update(rrd, tmplt, lines) ==
    LET template == IF tmplt = <<>> THEN [ok |-> TRUE, idx |-> DefaultTemplate(rrd)]
                    ELSE parse_template(rrd, tmplt)
    IN  IF ~template.ok THEN [ok |-> FALSE, rrd |-> rrd]
        ELSE Smoothed(UpdateLines(rrd, template.idx, lines))
===============================================================================
