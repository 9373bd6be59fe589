-------------------------------- MODULE RrdHw --------------------------------
(* Holt-Winters forecasting and failure detection: rrd_hw_math.c,            *)
(* rrd_hw_update.c and rrd_hw.c.  An operator of a C function takes the RRD  *)
(* it works on and gives the RRD it leaves; i and d index the archive and    *)
(* the data source, s is the scratch slot ("primary" or "secondary") that    *)
(* holds the observed value on entry and the value to write on return.       *)
EXTENDS RrdFormat, SequencesExt

BURNIN_CYCLES == 3

(* Exponential smoothing of a new value over the old one.                    *)
Smooth(rate, new, old) ==
    DAdd(DMul(rate, new), DMul(Unit - rate, old))

(* The two models: seasonality is added to the baseline (HWPREDICT) or       *)
(* multiplies it (MHWPREDICT).                                               *)
Baseline(cdp) == DAdd(cdp.coef, DScale(cdp.slope, cdp.nulls))
predict(cf, intercept, slope, nulls, season) ==
    LET base == DAdd(intercept, DScale(slope, nulls))
    IN  IF cf = "HWPREDICT" THEN DAdd(base, season) ELSE DMul(base, season)
WithoutSeason(cf, x, season) ==
    IF cf = "HWPREDICT" THEN DAdd(x, DNeg(season))
    ELSE IF Known(season) /\ season <= 0 THEN NaN ELSE DDiv(x, season)
calculate_intercept(cf, alpha, observed, season, cdp) ==
    Smooth(alpha, WithoutSeason(cf, observed, season), Baseline(cdp))
calculate_seasonality(cf, gamma, observed, intercept, season) ==
    Smooth(gamma, WithoutSeason(cf, observed, intercept), season)
init_seasonality(cf, observed, intercept) ==
    WithoutSeason(cf, observed, intercept)
calculate_slope(beta, newIntercept, lastIntercept, slope) ==
    Smooth(beta, DAdd(newIntercept, DNeg(lastIntercept)), slope)
init_seasonal_deviation(prediction, observed) ==
    DAbs(DAdd(prediction, DNeg(observed)))
calculate_seasonal_deviation(gamma, prediction, observed, last) ==
    Smooth(gamma, init_seasonal_deviation(prediction, observed), last)
identity(cf) == IF cf = "HWPREDICT" THEN 0 ELSE Unit

hw_is_violation(observed, prediction, deviation, pos, neg) ==
    \/ DLess(DAdd(prediction, DMul(pos, deviation)), observed)
    \/ DLess(observed, DAdd(prediction, DNeg(DMul(neg, deviation))))

(* The archive another one depends on, and whether it comes earlier in the   *)
(* file: then this update has already moved its coefficients to the "last"   *)
(* fields.                                                                   *)
Dep(rrd, i) == rrd.rra[i].dep
CoefAlwaysLast(rrd, dep, i, d) == rrd.cdp[dep][d].lastCoef   \* a mutant: no order test
CoefAt(rrd, dep, i, d) ==
    IF dep < i THEN rrd.cdp[dep][d].lastCoef ELSE rrd.cdp[dep][d].coef

init_hwpredict_cdp ==
    [coef |-> NaN, lastCoef |-> NaN, slope |-> NaN, lastSlope |-> NaN,
     nulls |-> 1, lastNulls |-> 1, primary |-> 0, secondary |-> 0]
init_seasonal_cdp ==
    [coef |-> NaN, lastCoef |-> NaN, init |-> 1, primary |-> 0, secondary |-> 0]
NoViolations == [k \in 1 .. MAX_FAILURES_WINDOW_LEN |-> 0]

init_slope_intercept(cdp, observed) ==
    [cdp EXCEPT !.coef = observed, !.lastCoef = observed,
                !.slope = 0, !.lastSlope = 0, !.nulls = 1, !.lastNulls = 1]

update_hwpredict(rrd, i, d, s) ==
    LET def == rrd.rra[i]
        cdp == rrd.cdp[i][d]
        observed == cdp[s]
        season == CoefAt(rrd, Dep(rrd, i), i, d)
        saved == [cdp EXCEPT !.lastCoef = cdp.coef, !.lastSlope = cdp.slope,
                             !.lastNulls = cdp.nulls]
        ready == Known(cdp.coef) /\ Known(cdp.slope) /\ Known(season)
        intercept == calculate_intercept(def.cf, def.alpha, observed, season, cdp)
        learnt ==
            IF ready /\ ~Known(observed) THEN [saved EXCEPT !.nulls = @ + 1]
            ELSE IF ready THEN
                [saved EXCEPT !.coef = intercept, !.nulls = 1,
                     !.slope = calculate_slope(def.beta, intercept, cdp.coef, cdp.slope)]
            ELSE IF ~Known(cdp.coef) /\ Known(observed)
                 THEN init_slope_intercept(saved, observed)
            ELSE saved
    IN  [rrd EXCEPT !.cdp[i][d] = [learnt EXCEPT ![s] =
            IF ready THEN predict(def.cf, cdp.coef, cdp.slope, cdp.nulls, season)
            ELSE NaN]]

update_seasonal(rrd, i, d, s, next) ==
    LET def == rrd.rra[i]
        hw == Dep(rrd, i)
        cf == rrd.rra[hw].cf
        model == rrd.cdp[hw][d]
        cdp == rrd.cdp[i][d]
        observed == cdp[s]
        season == cdp.coef
        afterHw ==       \* the HWPREDICT archive has been updated
            IF ~Known(model.lastCoef) \/ ~Known(model.lastSlope) THEN NaN
            ELSE IF ~Known(season)
                 THEN init_seasonality(cf, observed, model.lastCoef)
            ELSE calculate_seasonality(cf, def.gamma, observed, model.coef, season)
        beforeHw ==
            IF ~Known(model.coef) \/ ~Known(model.slope) THEN identity(cf)
            ELSE IF ~Known(season)
                 THEN init_seasonality(cf, observed, model.coef)
            ELSE calculate_seasonality(cf, def.gamma, observed,
                     calculate_intercept(cf, rrd.rra[hw].alpha, observed, season, model),
                     season)
    IN  [rrd EXCEPT !.cdp[i][d] =
            [cdp EXCEPT !.lastCoef = season, !.coef = next[d],
                        ![s] = IF ~Known(observed) THEN season
                               ELSE IF hw < i THEN afterHw ELSE beforeHw]]

update_devpredict(rrd, i, d, s) ==
    [rrd EXCEPT !.cdp[i][d][s] = CoefAt(rrd, Dep(rrd, i), i, d)]

(* The prediction for the value being recorded, from the HWPREDICT fields    *)
(* as they were before it.                                                   *)
PredictionAt(rrd, hw, i, d, season) ==
    LET c == rrd.cdp[hw][d]
        cf == rrd.rra[hw].cf
    IN  IF hw < i THEN predict(cf, c.lastCoef, c.lastSlope, c.lastNulls, season)
        ELSE predict(cf, c.coef, c.slope, c.nulls, season)

update_devseasonal(rrd, i, d, s, next) ==
    LET hw == Dep(rrd, i)
        cdp == rrd.cdp[i][d]
        observed == cdp[s]
        last == cdp.coef
        season == CoefAt(rrd, Dep(rrd, hw), i, d)
        prediction == PredictionAt(rrd, hw, i, d, season)
    IN  [rrd EXCEPT !.cdp[i][d] =
            [cdp EXCEPT !.lastCoef = last, !.coef = next[d],
                        ![s] = IF ~Known(prediction) THEN NaN
                               ELSE IF ~Known(observed) THEN last
                               ELSE IF ~Known(last)
                                    THEN init_seasonal_deviation(prediction, observed)
                               ELSE calculate_seasonal_deviation(
                                        rrd.rra[i].gamma, prediction, observed, last)]]

update_failures(rrd, i, d, s) ==
    LET def == rrd.rra[i]
        dev == Dep(rrd, i)
        hw == Dep(rrd, dev)
        seasonal == Dep(rrd, hw)
        cdp == rrd.cdp[i][d]
        \* the order test of the deviation is against the SEASONAL archive
        deviation == IF i < seasonal THEN rrd.cdp[dev][d].coef
                     ELSE rrd.cdp[dev][d].lastCoef
        prediction == PredictionAt(rrd, hw, i, d, CoefAt(rrd, seasonal, i, d))
        violation ==
            IF /\ Known(deviation)
               /\ \/ ~Known(cdp[s])
                  \/ hw_is_violation(cdp[s], prediction, deviation,
                                     def.deltaPos, def.deltaNeg)
            THEN 1 ELSE 0
        window == [k \in 1 .. MAX_FAILURES_WINDOW_LEN |->
                      IF k = 1 THEN violation
                      ELSE IF k <= def.window THEN cdp.viol[k - 1]
                      ELSE cdp.viol[k]]
        count == FoldLeft(LAMBDA x, y : x + y, 0, SubSeq(window, 1, def.window))
    IN  [rrd EXCEPT !.cdp[i][d] =
            [cdp EXCEPT !.viol = window,
                        ![s] = IF count < def.threshold THEN 0 ELSE Unit]]

update_aberrant_CF(rrd0, pdpVal, i, d, s, next) ==
    LET rrd == [rrd0 EXCEPT !.cdp[i][d][s] = pdpVal]
        cf == rrd.rra[i].cf
    IN  CASE cf \in PredictionCfs -> update_hwpredict(rrd, i, d, s)
          [] cf = "DEVPREDICT"    -> update_devpredict(rrd, i, d, s)
          [] cf = "SEASONAL"      -> update_seasonal(rrd, i, d, s, next)
          [] cf = "DEVSEASONAL"   -> update_devseasonal(rrd, i, d, s, next)
          [] cf = "FAILURES"      -> update_failures(rrd, i, d, s)
          [] OTHER                -> rrd

(* The row `offset' rows past the one written last.                          *)
lookup_seasonal(rrd, i, offset) ==
    rrd.data[i][(rrd.cur[i] + offset) % rrd.rra[i].rowCnt]

erase_violations(rrd, i, d) ==
    [rrd EXCEPT !.cdp[i][d].viol =
        [k \in 1 .. MAX_FAILURES_WINDOW_LEN |->
            IF k <= rrd.rra[i].window THEN 0 ELSE @[k]]]

MyMod(val, mod) ==
    IF val < 0 THEN mod - ((-val) % mod) ELSE val % mod

(* Half of the moving-average window, in rows.                               *)
SmootherOffset(rrd, i) ==
    LET n == rrd.rra[i].rowCnt
    IN  IF rrd.version >= 4 THEN (rrd.rra[i].smoothing * n) \div (2 * Unit)
        ELSE n \div 40

(* One column of a seasonal array after the moving average.  The loop adds   *)
(* the row `offset' ahead, replaces the row in the middle of the window and  *)
(* subtracts the row that leaves it, whose old value is in the queue.        *)
Slid(st, new, i, n, offset) ==
    LET sum == DAdd(st.sum, new)
        queue == Append(st.queue, new)
    IN  [rows |-> [st.rows EXCEPT ![MyMod(i - offset, n)] = DOver(sum, 2 * offset + 1)],
         queue |-> Tail(queue),
         sum |-> DAdd(sum, DNeg(Head(queue)))]
MovingAverage(column, n, offset) ==
    LET first == [k \in 1 .. 2 * offset |-> column[MyMod(k - 1 - offset, n)]]
    IN  FoldLeft(LAMBDA st, i : Slid(st, st.rows[MyMod(i, n)], i, n, offset),
                 [rows |-> column, queue |-> first, sum |-> FoldLeft(DAdd, 0, first)],
                 [k \in 1 .. n |-> offset + k - 1]).rows

apply_smoother(rrd, i) ==
    LET n == rrd.rra[i].rowCnt
        offset == SmootherOffset(rrd, i)
        rows == 0 .. n - 1
        hw == Dep(rrd, i)
        averaged == [d \in Dss(rrd) |->
                        MovingAverage([r \in rows |-> rrd.data[i][r][d]], n, offset)]
        baseline == [d \in Dss(rrd) |->
            DOver(FoldLeft(DAdd, 0, [k \in 1 .. n |-> averaged[d][k - 1]]), n)]
        seasonal == rrd.rra[i].cf = "SEASONAL"
        model == rrd.cdp[hw]
        final(r, d) == IF seasonal
                       THEN init_seasonality(rrd.rra[hw].cf, averaged[d][r], baseline[d])
                       ELSE averaged[d][r]
    IN  IF \/ offset = 0
           \/ \E r \in rows, d \in Dss(rrd) : ~Known(rrd.data[i][r][d])
        THEN rrd
        ELSE [rrd EXCEPT
                !.data[i] = [r \in rows |-> [d \in Dss(rrd) |-> final(r, d)]],
                !.cdp = IF seasonal
                        THEN [rrd.cdp EXCEPT ![hw] = [d \in Dss(rrd) |->
                                [model[d] EXCEPT !.coef = DAdd(model[d].coef, baseline[d])]]]
                        ELSE rrd.cdp]

(* reset_aberrant_coefficients, for one data source (rrdtool tune            *)
(* --aberrant-reset).                                                        *)
reset_aberrant_coefficients(rrd, d) ==
    LET forget(r, i) ==
            LET cf == r.rra[i].cf IN
            CASE cf \in PredictionCfs ->
                    [r EXCEPT !.cdp[i][d] =
                        [init_hwpredict_cdp EXCEPT !.primary = r.cdp[i][d].primary,
                                                   !.secondary = r.cdp[i][d].secondary]]
              [] cf \in SeasonCfs ->
                    [r EXCEPT !.cdp[i][d].coef = NaN, !.cdp[i][d].lastCoef = NaN,
                              !.data[i] = [k \in DOMAIN @ |-> [@[k] EXCEPT ![d] = NaN]]]
              [] cf = "FAILURES" -> erase_violations(r, i, d)
              [] OTHER -> r
    IN  FoldLeft(forget, rrd, [i \in Rras(rrd) |-> i])
===============================================================================
