----------------------------- MODULE RrdAberrant -----------------------------
(* What the aberrant behaviour archives of an RrdFile have to say, from the  *)
(* history alone: the Holt-Winters model over the observed values in the     *)
(* order of time, whatever the order of the archives in the file.            *)
EXTENDS RrdFile

TheArchive(cfs) ==
    LET is == {i \in Rras(Rrd) : Rrd.rra[i].cf \in cfs}
    IN  IF is = {} THEN 0 ELSE CHOOSE i \in is : TRUE
HW == TheArchive(PredictionCfs)
SEASONAL == TheArchive({"SEASONAL"})
DEVSEASONAL == TheArchive({"DEVSEASONAL"})
DEVPREDICT == TheArchive({"DEVPREDICT"})
FAILURES == TheArchive({"FAILURES"})
Period == Rrd.rra[SEASONAL].rowCnt
Phase(t) == (t \div Created.step) % Period

(* The model before the first observation: the baseline, its slope, the      *)
(* steps since it was learnt, the seasonal effects and deviations by phase,  *)
(* the violations, newest first, and the last rows of the other archives.    *)
Unlearnt ==
    [base |-> NaN, slope |-> NaN, steps |-> 1,
     season |-> [p \in 0 .. Period - 1 |-> NaN],
     deviation |-> [p \in 0 .. Period - 1 |-> NaN],
     violations |-> <<>>, prediction |-> NaN, band |-> NaN, failure |-> NaN]

(* One observed value (or an unknown one) at the end of a step.              *)
Observe(m, y, p, rra) ==
    LET multiplicative == rra[HW].cf = "MHWPREDICT"
        With(x, s) == IF multiplicative THEN DMul(x, s) ELSE DAdd(x, s)
        Without(x, s) == IF ~multiplicative THEN DAdd(x, DNeg(s))
                         ELSE IF Known(s) /\ s <= 0 THEN NaN ELSE DDiv(x, s)
        Mix(weight, new, old) == DAdd(DMul(weight, new), DMul(Unit - weight, old))
        s == m.season[p]
        level == DAdd(m.base, DScale(m.slope, m.steps))
        forecast == With(level, s)
        base == Mix(rra[HW].alpha, Without(y, s), level)
        learns == Known(forecast) /\ Known(y)
        first == ~Known(m.base) /\ Known(y)
        error == DAbs(DAdd(forecast, DNeg(y)))
        violated == /\ Known(m.deviation[p])
                    /\ \/ ~Known(y)
                       \/ DLess(DMul(rra[FAILURES].deltaPos, m.deviation[p]),
                                DAdd(y, DNeg(forecast)))
                       \/ DLess(DMul(rra[FAILURES].deltaNeg, m.deviation[p]),
                                DAdd(forecast, DNeg(y)))
        window == rra[FAILURES].window
        violations == SubSeq(<<violated>> \o m.violations, 1,
                             IF Len(m.violations) < window THEN Len(m.violations) + 1
                             ELSE window)
    IN  [base |-> IF learns THEN base ELSE IF first THEN y ELSE m.base,
         slope |-> IF learns THEN Mix(rra[HW].beta, DAdd(base, DNeg(m.base)), m.slope)
                   ELSE IF first THEN 0 ELSE m.slope,
         steps |-> IF learns \/ first THEN 1
                   ELSE IF Known(forecast) THEN m.steps + 1 ELSE m.steps,
         season |-> [m.season EXCEPT ![p] =
             IF ~Known(y) THEN @
             ELSE IF learns THEN Mix(rra[SEASONAL].gamma, Without(y, base), @)
             ELSE Without(y, IF first THEN y ELSE m.base)],
         deviation |-> [m.deviation EXCEPT ![p] =
             IF ~Known(forecast) THEN NaN
             ELSE IF ~Known(y) THEN @
             ELSE IF Known(@) THEN Mix(rra[DEVSEASONAL].gamma, error, @) ELSE error],
         violations |-> violations,
         prediction |-> forecast,
         band |-> m.deviation[p],
         failure |-> IF Cardinality({k \in DOMAIN violations : violations[k]})
                          >= rra[FAILURES].threshold THEN Unit ELSE 0]

(* More than two steps at once: nothing is learnt.                           *)
Skip(m, n) ==
    [m EXCEPT !.steps = @ + n, !.violations = <<>>, !.prediction = NaN,
              !.band = NaN, !.failure = 0]

StepsOf(k) == (Floor(TimeOf(k)) - Floor(TimeOf(Previous(k)))) \div Created.step
Model(d) ==
    FoldLeft(LAMBDA m, k :
                CASE Log[k].kind = "line" /\ StepsOf(k) = 1 ->
                        Observe(m, Point(d, k), Phase(TimeOf(k)), Log[k].rra)
                  [] Log[k].kind = "line" /\ StepsOf(k) > 2 -> Skip(m, StepsOf(k))
                  [] Log[k].kind = "reset" /\ Log[k].d = d ->
                        [Unlearnt EXCEPT !.prediction = m.prediction,
                             !.band = m.band, !.failure = m.failure]
                  [] Log[k].kind = "erased" -> [m EXCEPT !.violations = <<>>]
                  [] OTHER -> m,
             Unlearnt, Indices(Log))

NewestRow(i) == Rrd.data[i][Rrd.cur[i]]
SeasonRow(i, p) ==      \* the row of a seasonal array for a phase
    Rrd.data[i][(Rrd.cur[i] + p - Phase(Rrd.lastUp)) % Period]
StepsTaken == \E k \in Lines : StepsOf(k) > 0
OneStepOrManySteps == \A k \in Lines : StepsOf(k) /= 2

(* Whatever the order of the archives in the file, the forecast, the band,   *)
(* the failures and the seasonal arrays are those of the Holt-Winters model  *)
(* of the values observed, while no update spans exactly two steps and no    *)
(* restore --range-check has applied the limits of the readings to them.     *)
AberrantMatchesModel ==
    (Holds /\ HW /= 0) =>
        (OneStepOrManySteps /\ ~past.file.checked =>
            \A d \in Dss(Rrd) :
                LET m == Model(d) IN
                /\ \A p \in 0 .. Period - 1 :
                     /\ SeasonRow(SEASONAL, p)[d] = m.season[p]
                     /\ SeasonRow(DEVSEASONAL, p)[d] = m.deviation[p]
                /\ StepsTaken =>
                     /\ NewestRow(HW)[d] = m.prediction
                     /\ NewestRow(DEVPREDICT)[d] = m.band
                     /\ NewestRow(FAILURES)[d] = m.failure)
===============================================================================
