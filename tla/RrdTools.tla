------------------------------- MODULE RrdTools -------------------------------
(* The tools that rewrite an RRD: rrd_resize.c, rrd_tune.c, rrd_dump.c and   *)
(* rrd_restore.c.                                                            *)
EXTENDS RrdHw

(* rrd_resize: `modify' rows more (GROW) or, negative, less (SHRINK).  New   *)
(* rows go after the current one; so do the ones to remove, and when they    *)
(* reach past the end of the array the first rows of it go as well.          *)
ResizeOk(rrd, i, modify) ==
    /\ i \in Rras(rrd)
    /\ modify /= 0
    /\ modify < 0 => rrd.rra[i].rowCnt > -modify
    /\ rrd.version \in {1, 3, 4}
Grown(rrd, i, k) ==
    LET n == rrd.rra[i].rowCnt
        cur == rrd.cur[i]
    IN  [rrd EXCEPT !.rra[i].rowCnt = n + k,
            !.data[i] = [r \in 0 .. n + k - 1 |->
                IF r <= cur THEN @[r] ELSE IF r <= cur + k THEN AllNaN(rrd) ELSE @[r - k]]]
ShrunkKeepingCursor(rrd, i, k) ==       \* a mutant: cur_row is not lowered
    [rrd EXCEPT !.rra[i].rowCnt = @ - k,
        !.data[i] = [r \in 0 .. rrd.rra[i].rowCnt - k - 1 |-> @[r]]]
Shrunk(rrd, i, k) ==
    LET n == rrd.rra[i].rowCnt
        cur == rrd.cur[i]
        removeEnd == (cur + k) % n
        wraps == removeEnd <= cur
        front == IF wraps THEN removeEnd + 1 ELSE 0       \* rows gone from the start
        back == k - front                                 \* and after the current one
    IN  [rrd EXCEPT !.rra[i].rowCnt = n - k,
            !.cur[i] = cur - front,
            !.data[i] = [r \in 0 .. n - k - 1 |->
                IF r <= cur - front THEN @[r + front] ELSE @[r + front + back]]]
rrd_resize(rrd, i, modify) ==
    LET new == IF modify > 0 THEN Grown(rrd, i, modify) ELSE Shrunk(rrd, i, -modify)
    IN  [new EXCEPT !.version = IF @ = 1 THEN 3 ELSE @]

(* rrd_tune: one option, [opt |-> name, ds |-> name of a data source or "",  *)
(* val |-> value].                                                           *)
FirstOf(rrd, cf) ==
    LET is == {i \in Rras(rrd) : rrd.rra[i].cf = cf}
    IN  IF is = {} THEN 0 ELSE CHOOSE i \in is : \A j \in is : i <= j
SetRra(rrd, i, valid, field, v) ==
    IF valid /\ i /= 0 THEN [ok |-> TRUE, rrd |-> [rrd EXCEPT !.rra[i][field] = v]]
    ELSE [ok |-> FALSE, rrd |-> rrd]
Fraction(v) == 0 < v /\ v < Unit

(* --alpha and --beta are for the first HWPREDICT, or MHWPREDICT, archive.   *)
set_hwarg(rrd, cf, field, v) ==
    LET first == FirstOf(rrd, cf)
        i == IF cf = "HWPREDICT" /\ first = 0 THEN FirstOf(rrd, "MHWPREDICT") ELSE first
    IN  SetRra(rrd, i, Fraction(v), field, v)
set_hwsmootharg(rrd, cf, v) ==
    SetRra([rrd EXCEPT !.version = RRD_VERSION], FirstOf(rrd, cf),
           0 <= v /\ v <= Unit, "smoothing", v)
set_deltaarg(rrd, field, v) ==
    SetRra(rrd, FirstOf(rrd, "FAILURES"), 10 * v >= Unit, field, v)
set_windowarg(rrd, field, v) ==
    LET i == FirstOf(rrd, "FAILURES")
        set == SetRra(rrd, i, v \in 1 .. MAX_FAILURES_WINDOW_LEN, field, v)
    IN  IF set.ok
        THEN [set EXCEPT !.rrd = FoldLeft(LAMBDA r, d : erase_violations(r, i, d), @,
                                          [d \in Dss(rrd) |-> d])]
        ELSE set

SetDs(rrd, nam, field, v) ==
    LET d == ds_match(rrd, nam) IN
    IF d = 0 THEN [ok |-> FALSE, rrd |-> rrd]
    ELSE [ok |-> TRUE, rrd |-> [rrd EXCEPT !.ds[d][field] = v]]
(* A new type forgets the last reading.                                      *)
SetTypeOnly(rrd, nam, dst) ==           \* a mutant: the last reading stays
    IF dst \in Dsts THEN SetDs(rrd, nam, "dst", dst) ELSE [ok |-> FALSE, rrd |-> rrd]
SetType(rrd, nam, dst) ==
    LET d == ds_match(rrd, nam)
        set == SetDs(rrd, nam, "dst", dst)
    IN  IF dst \notin Dsts THEN [ok |-> FALSE, rrd |-> rrd]
        ELSE IF set.ok /\ rrd.ds[d].dst /= dst
        THEN [set EXCEPT !.rrd.pdp[d].last = U]
        ELSE set
AberrantReset(rrd, nam) ==
    LET d == ds_match(rrd, nam) IN
    IF d = 0 THEN [ok |-> FALSE, rrd |-> rrd]
    ELSE [ok |-> TRUE, rrd |-> reset_aberrant_coefficients(rrd, d)]

TuneOption(rrd, o) ==
    CASE o.opt = "heartbeat"         -> SetDs(rrd, o.ds, "mrhb", o.val)
      [] o.opt = "minimum"           -> SetDs(rrd, o.ds, "min", o.val)
      [] o.opt = "maximum"           -> SetDs(rrd, o.ds, "max", o.val)
      [] o.opt = "data-source-type"  -> SetType(rrd, o.ds, o.val)
      [] o.opt = "data-source-rename" -> SetDs(rrd, o.ds, "nam", o.val)
      [] o.opt = "deltapos"          -> set_deltaarg(rrd, "deltaPos", o.val)
      [] o.opt = "deltaneg"          -> set_deltaarg(rrd, "deltaNeg", o.val)
      [] o.opt = "failure-threshold" -> set_windowarg(rrd, "threshold", o.val)
      [] o.opt = "window-length"     -> set_windowarg(rrd, "window", o.val)
      [] o.opt = "alpha"             -> set_hwarg(rrd, "HWPREDICT", "alpha", o.val)
      [] o.opt = "beta"              -> set_hwarg(rrd, "HWPREDICT", "beta", o.val)
      [] o.opt = "gamma"             -> set_hwarg(rrd, "SEASONAL", "gamma", o.val)
      [] o.opt = "gamma-deviation"   -> set_hwarg(rrd, "DEVSEASONAL", "gamma", o.val)
      [] o.opt = "smoothing-window"  -> set_hwsmootharg(rrd, "SEASONAL", o.val)
      [] o.opt = "smoothing-window-deviation" ->
                                        set_hwsmootharg(rrd, "DEVSEASONAL", o.val)
      [] o.opt = "aberrant-reset"    -> AberrantReset(rrd, o.ds)
      [] OTHER                       -> [ok |-> FALSE, rrd |-> rrd]

(* The options in order up to the first that fails.  The file is mapped: the *)
(* ones before it stay in effect.                                            *)
rrd_tune(rrd, options) ==
    FoldLeft(LAMBDA st, o : IF st.ok THEN TuneOption(st.rrd, o) ELSE st,
             [ok |-> TRUE, rrd |-> rrd], options)

(* rrd_dump: the XML text, an element for every data source and archive, the *)
(* rows of an archive from the oldest on.  A version 3 file keeps no         *)
(* smoothing window, a history no more violations than its window.           *)
DumpedDs(rrd, d) == [def |-> rrd.ds[d], pdp |-> rrd.pdp[d]]
DumpedParams(rrd, i) ==
    IF rrd.rra[i].cf \in SeasonCfs /\ rrd.version < 4
    THEN [rrd.rra[i] EXCEPT !.smoothing = 0] ELSE rrd.rra[i]
DumpedCdp(rrd, i, d) ==
    IF rrd.rra[i].cf = "FAILURES"
    THEN [rrd.cdp[i][d] EXCEPT !.viol = SubSeq(@, 1, rrd.rra[i].window)]
    ELSE rrd.cdp[i][d]
rrd_dump(rrd) ==
    [version |-> IF rrd.version <= 3 THEN 3 ELSE RRD_VERSION,
     step |-> rrd.step, lastUp |-> rrd.lastUp,
     ds |-> [d \in Dss(rrd) |-> DumpedDs(rrd, d)],
     rra |-> [i \in Rras(rrd) |->
        [def |-> DumpedParams(rrd, i),
         cdp |-> [d \in Dss(rrd) |-> DumpedCdp(rrd, i, d)],
         rows |-> RowsOldestFirst(rrd, i)]]]

(* rrd_restore.  The rows are written so that the newest is at cur_row,      *)
(* which is 0: parse_tag_rra returns at </rra>, before it would pick a       *)
(* random one.  --range-check forgets what the limits exclude, in every      *)
(* archive.                                                                  *)
value_check_range(def, check, x) ==
    IF check /\ (DLess(x, def.min) \/ DLess(def.max, x)) THEN NaN ELSE x
parse_tag_rra_database(xml, i, check) ==
    [k \in 1 .. Len(xml.rra[i].rows) |->
        [d \in 1 .. Len(xml.ds) |->
            value_check_range(xml.ds[d].def, check, xml.rra[i].rows[k][d])]]
parse_tag_rra_cdp_prep_ds(cdp, cf) ==
    IF cf = "FAILURES"
    THEN [cdp EXCEPT !.viol = [k \in 1 .. MAX_FAILURES_WINDOW_LEN |->
                                  IF k <= Len(cdp.viol) THEN @[k] ELSE 0]]
    ELSE cdp
parse_tag_rra(xml, i, check) ==
    [def |-> xml.rra[i].def, cur |-> 0,
     cdp |-> [d \in 1 .. Len(xml.ds) |->
                 parse_tag_rra_cdp_prep_ds(xml.rra[i].cdp[d], xml.rra[i].def.cf)],
     rows |-> parse_tag_rra_database(xml, i, check)]
write_file_unturned(rows, cur) == [r \in 0 .. Len(rows) - 1 |-> rows[r + 1]]   \* a mutant
write_file(rows, cur) ==
    LET n == Len(rows)
    IN  [r \in 0 .. n - 1 |-> IF r <= cur THEN rows[n - cur + r] ELSE rows[r - cur]]
rrd_restore(xml, check) ==
    LET rra == [i \in 1 .. Len(xml.rra) |-> parse_tag_rra(xml, i, check)]
    IN  [version |-> IF xml.version < 3 THEN 3 ELSE xml.version,
         step |-> xml.step, lastUp |-> xml.lastUp,
         ds |-> [d \in 1 .. Len(xml.ds) |-> xml.ds[d].def],
         pdp |-> [d \in 1 .. Len(xml.ds) |-> xml.ds[d].pdp],
         rra |-> [i \in DOMAIN rra |-> rra[i].def],
         cdp |-> [i \in DOMAIN rra |-> rra[i].cdp],
         cur |-> [i \in DOMAIN rra |-> rra[i].cur],
         data |-> [i \in DOMAIN rra |-> write_file(rra[i].rows, rra[i].cur)]]
===============================================================================
