------------------------------ MODULE RrdCreate ------------------------------
(* rrd_create.c: from the arguments of one call to the empty RRD it writes.  *)
(* The request is                                                            *)
(*   [start |-> t, step |-> s, noOverwrite |-> b, args |-> <<arg, ...>>]     *)
(* with arguments                                                            *)
(*   [arg |-> "DS", nam |-> x, dst |-> type, mrhb |-> n, min |-> m, max |-> M] *)
(*   [arg |-> "DS", nam |-> x, dst |-> "COMPUTE", toks |-> <<...>>]          *)
(*   [arg |-> "RRA", cf |-> cf, tokens |-> <<...>>]   the tokens after the cf *)
(* Fractions are in units of 1/Unit.                                         *)
EXTENDS RrdHw, Rpn
CONSTANTS MinStart,      \* ten years after the epoch
          FnvHash        \* the hash of the file name

CONSTANT Permille(_)     \* n thousandths, as a double

(* The fields the tokens of an archive set, in order.  The case of the sixth *)
(* token does not look at the cf.                                            *)
Fields(cf) ==
    CASE cf \in PredictionCfs -> <<"rowCnt", "alpha", "beta", "period", "dep">>
      [] cf \in SeasonCfs     -> <<"rowCnt", "gamma", "dep", "smoothing", "dep">>
      [] cf = "DEVPREDICT"    -> <<"rowCnt", "dep">>
      [] cf = "FAILURES"      -> <<"rowCnt", "threshold", "window", "dep", "dep">>
      [] OTHER                -> <<"xff", "pdpCnt", "rowCnt">>

(* The least number of tokens after the cf.                                  *)
TokenMin(cf) ==
    CASE cf \in PredictionCfs \cup {"FAILURES"} -> 4
      [] cf \in {"DEVSEASONAL", "DEVPREDICT"}   -> 2
      [] OTHER                                  -> 3

FieldOk(def, f, v) ==
    CASE f \in {"rowCnt", "pdpCnt"} -> v >= 1
      [] f = "xff"                  -> 0 <= v /\ v < Unit
      [] f \in {"alpha", "gamma"}   -> 0 < v /\ v < Unit
      [] f \in {"beta", "smoothing"} -> 0 <= v /\ v <= Unit
      [] f = "threshold"            -> v \in 1 .. MAX_FAILURES_WINDOW_LEN
      [] f = "window"               -> v \in def.threshold .. MAX_FAILURES_WINDOW_LEN
      [] f = "period"               -> v <= def.rowCnt
      [] OTHER                      -> TRUE

NoDep == 0      \* the index -1 of an archive without one
Defaults(cf, own) ==
    CASE cf \in PredictionCfs ->
            [cf |-> cf, pdpCnt |-> 1, rowCnt |-> 0, alpha |-> Permille(100),
             beta |-> Unit \div 288, period |-> 0, dep |-> own]
      [] cf \in SeasonCfs ->
            [cf |-> cf, pdpCnt |-> 1, rowCnt |-> 0, gamma |-> Permille(100),
             smoothing |-> Permille(50), smoothIdx |-> 0, dep |-> NoDep]
      [] cf = "DEVPREDICT" -> [cf |-> cf, pdpCnt |-> 1, rowCnt |-> 0, dep |-> NoDep]
      [] cf = "FAILURES" ->
            [cf |-> cf, pdpCnt |-> 1, rowCnt |-> 0, threshold |-> 2, window |-> 3,
             deltaPos |-> 2 * Unit, deltaNeg |-> 2 * Unit, dep |-> NoDep]
      [] OTHER -> [cf |-> cf, pdpCnt |-> 1, rowCnt |-> 0, xff |-> 0]

(* The RRA argument as the `own'-th archive of the file.                     *)
WithField(def, f, v) ==
    LET with == [def EXCEPT ![f] = v]
    IN  IF f = "gamma" /\ def.rowCnt > 0
        THEN [with EXCEPT !.smoothIdx = FnvHash % def.rowCnt] ELSE with
ParsedRra(req, own) ==
    LET fields == Fields(req.cf)
        count == Len(req.tokens)
    IN  IF req.cf \notin Cfs \/ count > Len(fields)
        THEN [ok |-> FALSE, def |-> Defaults("LAST", own)]
        ELSE FoldLeft(LAMBDA st, k :
                         [ok |-> st.ok /\ FieldOk(st.def, fields[k], req.tokens[k]),
                          def |-> WithField(st.def, fields[k], req.tokens[k])],
                      [ok |-> count >= TokenMin(req.cf), def |-> Defaults(req.cf, own)],
                      [k \in 1 .. count |-> k])

(* create_hw_contingent_rras: the archives a HWPREDICT without an index of a *)
(* SEASONAL array brings along.                                              *)
create_hw_contingent_rras(hw, own) ==
    LET seasonal(cf) ==
            [cf |-> cf, pdpCnt |-> 1, rowCnt |-> hw.period, gamma |-> hw.alpha,
             smoothing |-> 0, smoothIdx |-> FnvHash % hw.period, dep |-> own]
    IN  << [hw EXCEPT !.dep = own + 1],
           seasonal("SEASONAL"),
           seasonal("DEVSEASONAL"),
           [cf |-> "DEVPREDICT", pdpCnt |-> 1, rowCnt |-> hw.rowCnt, dep |-> own + 2],
           [cf |-> "FAILURES", pdpCnt |-> 1, rowCnt |-> hw.period, threshold |-> 7,
            window |-> 9, deltaPos |-> 2 * Unit, deltaNeg |-> 2 * Unit, dep |-> own + 2] >>

(* The DS argument, parseGENERIC_DS and parseCDEF_DS.                        *)
ParsedDs(a, before) ==
    LET cdef == parseCDEF_DS(a.toks)
        fresh == \A i \in 1 .. Len(before) : before[i].nam /= a.nam
        bound == \A i \in 1 .. Len(a.toks) :
                    a.toks[i].op \in VariableOps => a.toks[i].ptr \in 1 .. Len(before)
    IN  IF a.dst = "COMPUTE"
        THEN [ok |-> fresh /\ bound /\ cdef.ok,
              def |-> [nam |-> a.nam, dst |-> a.dst, mrhb |-> 0, min |-> NaN,
                       max |-> NaN, cdef |-> cdef.nodes]]
        ELSE [ok |-> fresh /\ a.dst \in Dsts
                     /\ ~(Known(a.min) /\ Known(a.max) /\ a.min >= a.max),
              def |-> [nam |-> a.nam, dst |-> a.dst, mrhb |-> a.mrhb, min |-> a.min,
                       max |-> a.max, cdef |-> <<>>]]

(* rrd_create_r's loop over the arguments.                                   *)
WithDs(st, ds) == [st EXCEPT !.ok = ds.ok, !.ds = Append(@, ds.def)]
WithRra(st, rra, own) ==
    [st EXCEPT !.ok = rra.ok,
        !.rra = @ \o (IF rra.def.cf \in PredictionCfs /\ rra.def.dep = own
                      THEN create_hw_contingent_rras(rra.def, own) ELSE << rra.def >>)]
ParsedArgs(args) ==
    FoldLeft(LAMBDA st, a :
                IF ~st.ok THEN st
                ELSE IF a.arg = "DS" THEN WithDs(st, ParsedDs(a, st.ds))
                ELSE WithRra(st, ParsedRra(a, Len(st.rra) + 1), Len(st.rra) + 1),
             [ok |-> TRUE, ds |-> <<>>, rra |-> <<>>], args)

(* MHWPREDICT and an explicit smoothing window need version 4.               *)
NeedsVersion4(a) ==
    a.arg = "RRA" /\ (a.cf = "MHWPREDICT" \/ (a.cf \in SeasonCfs /\ Len(a.tokens) >= 4))
Version(args) ==
    IF \E k \in 1 .. Len(args) : NeedsVersion4(args[k]) THEN RRD_VERSION ELSE 3

(* rrd_create_fn: the scratch areas of an empty RRD.                         *)
initial_pdp(start, step) == [last |-> U, val |-> 0, unkn |-> start % step]
initial_cdp(def, start, step) ==
    CASE def.cf \in PredictionCfs -> init_hwpredict_cdp
      [] def.cf \in SeasonCfs     -> init_seasonal_cdp
      [] def.cf = "FAILURES"      -> [viol |-> NoViolations, primary |-> 0, secondary |-> 0]
      [] OTHER ->
            [val |-> NaN, primary |-> 0, secondary |-> 0,
             unkn |-> ((start - (start % step)) % (step * def.pdpCnt)) \div step]
rrd_create_fn(version, step, start, ds, rra, rows) ==
    [version |-> version, step |-> step, lastUp |-> start, ds |-> ds, rra |-> rra,
     pdp |-> [d \in 1 .. Len(ds) |-> initial_pdp(start, step)],
     cdp |-> [i \in 1 .. Len(rra) |->
                 [d \in 1 .. Len(ds) |-> initial_cdp(rra[i], start, step)]],
     cur |-> rows,
     data |-> [i \in 1 .. Len(rra) |->
                 [r \in 0 .. rra[i].rowCnt - 1 |-> [d \in 1 .. Len(ds) |-> NaN]]]]

(* rrd_select_initial_row: a random row of every archive.                    *)
InitialRows(rra) ==
    LET most == Max({rra[i].rowCnt : i \in 1 .. Len(rra)})
    IN  {rows \in [1 .. Len(rra) -> 0 .. most - 1] :
            \A i \in 1 .. Len(rra) : rows[i] < rra[i].rowCnt}

(* rrd_create: whether the request is accepted, the definitions it asks for. *)
rrd_create_r(req) ==
    LET parsed == ParsedArgs(req.args)
    IN  [ok |-> parsed.ok /\ parsed.rra /= <<>> /\ parsed.ds /= <<>>,
         ds |-> parsed.ds, rra |-> parsed.rra, version |-> Version(req.args)]
OptionsOk(req) == req.step >= 1 /\ req.start >= MinStart
===============================================================================
