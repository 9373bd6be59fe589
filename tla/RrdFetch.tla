------------------------------- MODULE RrdFetch -------------------------------
(* The readers: rrd_fetch.c, rrd_first.c, rrd_last.c, rrd_lastupdate.c and   *)
(* rrd_info.c.  They open the file read-only and take no lock.               *)
EXTENDS RrdFormat, SequencesExt
CONSTANTS MinFetchStart      \* fetching starts after 1980

RowStep(rrd, i) == rrd.step * rrd.rra[i].pdpCnt
Span(rrd, i) == RowStep(rrd, i) * rrd.rra[i].rowCnt
Distance(x, y) == IF x > y THEN x - y ELSE y - x

(* rrd_fetch: the requests it refuses.                                       *)
FetchArgsOk(start, end, step) ==
    start >= MinFetchStart /\ end >= start /\ step >= 1

(* The archive that answers: of those that reach back to the start the one   *)
(* whose step is closest; else the one that covers most of the interval, and *)
(* of those the one whose step is closest.  The first one in the file wins a *)
(* tie.                                                                      *)
ChosenRra(rrd, cf, start, end, step) ==
    LET candidates == {i \in Rras(rrd) : rrd.rra[i].cf = cf}
        calStart(i) == LastRowTime(rrd, i) - Span(rrd, i)
        diff(i) == Distance(step, RowStep(rrd, i))
        match(i) == (end - start) - (calStart(i) - start)
        full == {i \in candidates : calStart(i) <= start}
        part == candidates \ full
        Better(i, j) == diff(i) < diff(j) \/ (diff(i) = diff(j) /\ i <= j)
        Covers(i, j) == match(i) > match(j) \/ (match(i) = match(j) /\ Better(i, j))
    IN  IF full /= {} THEN CHOOSE i \in full : \A j \in full : Better(i, j)
        ELSE IF part /= {} THEN CHOOSE i \in part : \A j \in part : Covers(i, j)
        ELSE 0

(* rrd_fetch_fn: the interval is widened to whole rows; the rows are read    *)
(* from the oldest one on, and what the archive does not hold is unknown.    *)
FetchedFromCursor(rrd, i, k) ==         \* a mutant: the oldest row is the current one
    IF k \in 0 .. rrd.rra[i].rowCnt - 1
    THEN rrd.data[i][(rrd.cur[i] + k) % rrd.rra[i].rowCnt] ELSE AllNaN(rrd)
Fetched(rrd, i, k) ==
    IF k \in 0 .. rrd.rra[i].rowCnt - 1
    THEN rrd.data[i][(rrd.cur[i] + 1 + k) % rrd.rra[i].rowCnt] ELSE AllNaN(rrd)
rrd_fetch_fn(rrd, cf, start0, end0, step0) ==
    LET i == ChosenRra(rrd, cf, start0, end0, step0)
        n == rrd.rra[i].rowCnt
        step == RowStep(rrd, i)
        start == start0 - (start0 % step)
        end == end0 + (step - (end0 % step))
        rraEnd == LastRowTime(rrd, i)
        rraStart == rraEnd - step * (n - 1)
        startOffset == (start + step - rraStart) \div step
        endOffset == (rraEnd - end) \div step
    IN  IF i = 0 THEN [ok |-> FALSE]
        ELSE [ok |-> TRUE, start |-> start, end |-> end, step |-> step,
              rows |-> [k \in 1 .. n - endOffset - startOffset |-> Fetched(rrd, i, startOffset + k - 1)]]

(* rrd_first_r, rrd_last_r: a time, or -1.                                   *)
rrd_first_r(content, i) ==
    IF CanOpen(content) /\ i \in Rras(content.rrd)
    THEN LastRowTime(content.rrd, i)
            - (content.rrd.rra[i].rowCnt - 1) * RowStep(content.rrd, i)
    ELSE -1
rrd_last_r(content) == IF CanOpen(content) THEN content.rrd.lastUp ELSE -1

(* rrd_lastupdate_r.                                                         *)
rrd_lastupdate_r(content) ==
    IF CanOpen(content)
    THEN [ok |-> TRUE, time |-> content.rrd.lastUp,
          last |-> [d \in Dss(content.rrd) |->
                       <<content.rrd.ds[d].nam, content.rrd.pdp[d].last>>]]
    ELSE [ok |-> FALSE]

(* rrd_info_r: the definitions and the scratch areas, an archive's by its cf. *)
InfoRra(rrd, i) ==
    LET def == rrd.rra[i]
        cf == def.cf
        params == CASE cf \in PredictionCfs -> <<def.alpha, def.beta>>
                    [] cf \in SeasonCfs ->
                          IF rrd.version >= 4 THEN <<def.gamma, def.smoothing>>
                          ELSE <<def.gamma>>
                    [] cf = "FAILURES" ->
                          <<def.deltaPos, def.deltaNeg, def.threshold, def.window>>
                    [] cf = "DEVPREDICT" -> <<>>
                    [] OTHER -> <<def.xff>>
        cdp(c) == CASE cf \in PredictionCfs -> <<c.coef, c.slope, c.nulls>>
                    [] cf \in SeasonCfs     -> <<c.coef>>
                    [] cf = "DEVPREDICT"    -> <<>>
                    [] cf = "FAILURES"      -> SubSeq(c.viol, 1, def.window)
                    [] OTHER                -> <<c.val, c.unkn>>
    IN  [cf |-> cf, rows |-> def.rowCnt, cur_row |-> rrd.cur[i], pdp_per_row |-> def.pdpCnt,
         params |-> params, cdp_prep |-> [d \in Dss(rrd) |-> cdp(rrd.cdp[i][d])]]
rrd_info_r(content) ==
    LET rrd == content.rrd IN
    IF ~CanOpen(content) THEN [ok |-> FALSE]
    ELSE [ok |-> TRUE, version |-> rrd.version, step |-> rrd.step,
          lastUp |-> rrd.lastUp, ds |-> rrd.ds, pdp |-> rrd.pdp,
          rra |-> [i \in Rras(rrd) |-> InfoRra(rrd, i)]]
===============================================================================
