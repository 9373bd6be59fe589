------------------------------ MODULE RrdGraph ------------------------------
(* rrdtool graph and rrdtool xport: rrd_graph_options, the script parser of  *)
(* rrd_graph_helper.c, then data_fetch, data_calc and print_calc of          *)
(* rrd_graph.c element by element, and the picture or the exported table.    *)
(* Files are updated by others while a request runs.  The colours, fonts and *)
(* placement of a picture are left out.                                      *)
EXTENDS RrdGraphCalc, RrdTime
CONSTANTS Requests,   \* the command lines
          Versions,   \* for every file, the contents it goes through
          Strays      \* what may lie in memory that holds no data

VARIABLES req, disk, im, gdes, cursor, lastGf, err, pc, out
vars == <<req, disk, im, gdes, cursor, lastGf, err, pc, out>>

Files == DOMAIN Versions
Nothing == [kind |-> "none"]
Init ==
    /\ req \in Requests
    /\ disk = [f \in Files |-> 1]
    /\ im = [xsize |-> req.xsize, lower |-> req.lower, upper |-> req.upper,
             rigid |-> req.rigid, scale |-> req.scale, grid |-> req.grid,
             start |-> 0, end |-> 0, step |-> 0]
    /\ gdes = <<>> /\ cursor = 1 /\ lastGf = "PRINT" /\ err = FALSE
    /\ pc = "options" /\ out = Nothing

Ends(outcome) == pc' = "done" /\ out' = outcome
Stops == Ends([kind |-> "failed"])
Goes(phase) == pc' = phase /\ UNCHANGED out

(* The first element from i on of one of these kinds.                        *)
FirstFrom(elements, i, kinds) ==
    LET found == {k \in i .. Len(elements) : elements[k].gf \in kinds}
    IN  IF found = {} THEN Len(elements) + 1
        ELSE CHOOSE k \in found : \A j \in found : k <= j

(* rrd_graph_options; rrd_xport's own options and connection are alike, but  *)
(* it connects after the script.                                             *)
IntervalOk(iv) == iv.ok /\ iv.start >= MinFetchStart /\ iv.end >= iv.start
PreferredStep(iv) ==
    LET perPixel == (iv.end - iv.start) \div req.xsize
    IN  IF req.step > perPixel THEN req.step ELSE perPixel
Options(iv) ==
    IF \/ req.xsize < 10
       \/ ~IntervalOk(iv)
       \/ req.tool = "graph" /\ req.daemon = "down"
    THEN Stops /\ UNCHANGED im
    ELSE /\ Goes("script")
         /\ im' = [im EXCEPT !.start = iv.start, !.end = iv.end, !.step = PreferredStep(iv)]
ParseOptions ==
    /\ pc = "options"
    /\ \E start \in {rrd_parsetime(req.start, req.now)}, end \in {rrd_parsetime(req.end, req.now)} :
           \E iv \in {IF start.ok /\ end.ok THEN rrd_proc_start_end(start, end)
                      ELSE [ok |-> FALSE]} : Options(iv)
    /\ UNCHANGED <<req, disk, gdes, cursor, lastGf, err>>

(* gdes_alloc; 0 is no element and no data source.  from is the version read. *)
gdes_alloc(gf) ==
    [gf |-> gf, vname |-> "", vidx |-> 0, shidx |-> 0, shval |-> 0, shift |-> 0,
     rrd |-> "", dsnam |-> "", cf |-> "AVERAGE", reduce |-> "AVERAGE",
     step |-> im.step, stepOrig |-> im.step, start |-> im.start, startOrig |-> im.start,
     end |-> im.end, endOrig |-> im.end, rows |-> <<>>, ds |-> 0, from |-> 0,
     toks |-> <<>>, op |-> "", param |-> NaN, val |-> NaN, when |-> 0,
     stack |-> FALSE, yrule |-> NaN, xrule |-> 0, show |-> ""]

find_var(name) ==
    LET found == {k \in 1 .. Len(gdes) :
                     gdes[k].gf \in {"DEF", "VDEF", "CDEF"} /\ gdes[k].vname = name}
    IN  IF found = {} THEN 0 ELSE CHOOSE k \in found : \A j \in found : k <= j
IsSeries(k) == k > 0 /\ gdes[k].gf \in {"DEF", "CDEF"}
IsSummary(k) == k > 0 /\ gdes[k].gf = "VDEF"

(* What parsing one argument gives: ok, unless it stops the script; err, the *)
(* error message that is set; e, the element.                                *)
Element(ok, e) == [ok |-> ok, err |-> err \/ ~ok, e |-> e]
Refused == Element(FALSE, gdes_alloc("COMMENT"))

rrd_parse_print(arg, k) ==
    Element(IF arg.cf = "" THEN IsSummary(k) ELSE IsSeries(k) /\ arg.cf \in Cfs
                                                  /\ arg.show /= "time",
            [gdes_alloc(arg.f) EXCEPT !.vidx = k, !.show = arg.show,
                                      !.cf = IF arg.cf = "" THEN @ ELSE arg.cf])

(* An offset that is no name clears the error of an earlier argument.        *)
rrd_parse_shift(arg, k) ==
    IF "name" \in DOMAIN arg.by
    THEN Element(IsSeries(k) /\ IsSummary(find_var(arg.by.name)),
                 [gdes_alloc("SHIFT") EXCEPT !.vidx = k, !.shidx = find_var(arg.by.name)])
    ELSE [ok |-> IsSeries(k), err |-> ~IsSeries(k),
          e |-> [gdes_alloc("SHIFT") EXCEPT !.vidx = k, !.shval = arg.by.num]]

rrd_parse_xport(arg, k) == Element(IsSeries(k), [gdes_alloc("XPORT") EXCEPT !.vidx = k])

(* VRULE, HRULE, LINE, AREA, STACK and TICK.  A legend needs a colour.       *)
TickFraction(arg) == IF Known(arg.fraction) THEN arg.fraction ELSE Unit \div 10
rrd_parse_PVHLAST(arg) ==
    LET named == "name" \in DOMAIN arg.src
        k == IF named THEN find_var(arg.src.name) ELSE 0
        gf == IF arg.f = "STACK" THEN lastGf ELSE arg.f
        number == IF named \/ arg.f = "TICK" THEN NaN ELSE arg.src.num * Unit
    IN  Element(/\ named => k > 0
                /\ named /\ arg.f \in {"VRULE", "HRULE"} => IsSummary(k)
                /\ arg.f = "TICK" => TickFraction(arg) \in -Unit .. Unit
                /\ arg.legend => arg.color
                /\ arg.stack => arg.f \in {"LINE", "AREA", "STACK"}
                /\ gf \in {"LINE", "AREA", "TICK", "HRULE", "VRULE"}
                /\ arg.f = "STACK" => gf \in {"LINE", "AREA"},
                [gdes_alloc(gf) EXCEPT
                    !.vidx = k, !.stack = arg.stack \/ arg.f = "STACK",
                    !.yrule = IF arg.f = "TICK" THEN TickFraction(arg) ELSE number,
                    !.xrule = IF arg.f = "VRULE" /\ ~named THEN arg.src.num ELSE 0])

(* DEF: options are taken one after the other; start and end are those of    *)
(* the graph unless given.                                                   *)
Instant(t) == [ok |-> TRUE, type |-> "ABSOLUTE", offset |-> 0, tm |-> localtime(t)]
WithTime(acc, opt, tv) ==
    IF ~tv.ok THEN [acc EXCEPT !.ok = FALSE]
    ELSE IF opt.k = "start" THEN [acc EXCEPT !.start = tv] ELSE [acc EXCEPT !.end = tv]
WithOption(acc, opt) ==
    CASE opt.k = "step" -> [acc EXCEPT !.step = opt.step]
      [] opt.k = "reduce" -> [acc EXCEPT !.reduce = opt.cf, !.ok = @ /\ opt.cf \in Cfs]
      [] opt.k \in {"start", "end"} -> WithTime(acc, opt, rrd_parsetime(opt.at, req.now))
      [] OTHER -> [acc EXCEPT !.ok = FALSE]
DefElement(arg, opts, iv) ==
    IF ~(find_var(arg.vname) = 0 /\ arg.cf \in Cfs /\ (arg.opts = <<>> \/ IntervalOk(iv)))
    THEN Refused
    ELSE Element(TRUE,
            [gdes_alloc("DEF") EXCEPT
                !.vname = arg.vname, !.rrd = arg.rrd, !.dsnam = arg.ds, !.cf = arg.cf,
                !.reduce = opts.reduce, !.step = opts.step, !.stepOrig = opts.step,
                !.start = iv.start, !.startOrig = iv.start,
                !.end = iv.end, !.endOrig = iv.end])
DefOptions(arg, opts) ==
    IF opts.ok THEN DefElement(arg, opts, rrd_proc_start_end(opts.start, opts.end)) ELSE Refused
rrd_parse_def(arg) ==
    DefOptions(arg, FoldLeft(WithOption,
        [ok |-> TRUE, step |-> im.step, reduce |-> arg.cf,
         start |-> Instant(im.start), end |-> Instant(im.end)], arg.opts))

(* VDEF: a wrong function or parameter sets the error and goes on.           *)
Percentiles == {"PERCENT", "PERCENTNAN"}
Summaries == Percentiles \cup {"MAXIMUM", "MINIMUM", "AVERAGE", "STDEV", "TOTAL", "FIRST",
                               "LAST", "LSLSLOPE", "LSLINT", "LSLCORREL"}
vdef_parse(op, param) ==
    /\ op \in Summaries
    /\ IF op \in Percentiles THEN param \in 0 .. 100 ELSE ~Known(param)
rrd_parse_vdef(arg, k) ==
    LET ok == find_var(arg.vname) = 0 /\ IsSeries(k)
    IN  [ok |-> ok, err |-> err \/ ~ok \/ ~vdef_parse(arg.op, arg.param),
         e |-> [gdes_alloc("VDEF") EXCEPT !.vname = arg.vname, !.vidx = k, !.op = arg.op,
                                          !.param = arg.param]]

(* CDEF: names are looked up; a number needs a token behind it.              *)
rpn_parse(toks) ==
    [ok |-> /\ toks[Len(toks)].op /= "NUMBER"
            /\ \A i \in DOMAIN toks : IsVariable(toks[i]) => find_var(toks[i].name) > 0,
     toks |-> [i \in DOMAIN toks |->
                  IF IsVariable(toks[i]) THEN [op |-> toks[i].op, ptr |-> find_var(toks[i].name)]
                  ELSE toks[i]]]
rrd_parse_cdef(arg) ==
    Element(find_var(arg.vname) = 0 /\ rpn_parse(arg.toks).ok,
            [gdes_alloc("CDEF") EXCEPT !.vname = arg.vname, !.toks = rpn_parse(arg.toks).toks])

(* rrd_graph_script, one argument.                                           *)
Parsed(arg) ==
    CASE arg.f = "DEF" -> rrd_parse_def(arg)
      [] arg.f = "CDEF" -> rrd_parse_cdef(arg)
      [] arg.f = "VDEF" -> rrd_parse_vdef(arg, find_var(arg.of))
      [] arg.f \in {"PRINT", "GPRINT"} -> rrd_parse_print(arg, find_var(arg.of))
      [] arg.f = "SHIFT" -> rrd_parse_shift(arg, find_var(arg.of))
      [] arg.f = "XPORT" -> rrd_parse_xport(arg, find_var(arg.of))
      [] arg.f \in {"LINE", "AREA", "STACK", "TICK", "HRULE", "VRULE"} -> rrd_parse_PVHLAST(arg)
      [] arg.f = "COMMENT" -> Element(TRUE, gdes_alloc("COMMENT"))
      [] OTHER -> Refused
ParseArgument ==
    /\ pc = "script" /\ cursor <= Len(req.script)
    /\ \E r \in {Parsed(req.script[cursor])} :
         IF r.ok
         THEN /\ gdes' = Append(gdes, r.e) /\ cursor' = cursor + 1 /\ err' = r.err
              /\ lastGf' = IF r.e.gf \in {"VRULE", "HRULE", "LINE", "AREA", "TICK"}
                           THEN r.e.gf ELSE lastGf
              /\ UNCHANGED <<pc, out>>
         ELSE Stops /\ err' = TRUE /\ UNCHANGED <<gdes, cursor, lastGf>>
    /\ UNCHANGED <<req, disk, im>>

(* The end of the script.  rrd_xport hands the errno of a daemon it cannot   *)
(* reach to rrd_tool, which takes it for success and prints its variables.   *)
ScriptEnds ==
    /\ pc = "script" /\ cursor > Len(req.script)
    /\ IF err \/ (req.tool = "xport" /\ gdes = <<>>) THEN Stops
       ELSE IF req.tool = "xport" /\ req.daemon = "down" THEN Ends([kind |-> "undefined"])
       ELSE Goes("fetch")
    /\ cursor' = FirstFrom(gdes, 1, {"DEF"})
    /\ UNCHANGED <<req, disk, im, gdes, lastGf, err>>

(* data_fetch, one DEF: the data of an equal earlier one, or what the file   *)
(* holds, flushed by the daemon when the file occurs for the first time.     *)
(* The last data source of the name counts.                                  *)
SameRounded(d, e) ==                    \* a mutant: compared with what was read
    /\ e.gf = "DEF" /\ d.rrd = e.rrd /\ d.cf = e.cf /\ d.start = e.start /\ d.end = e.end
SameData(d, e) ==
    /\ e.gf = "DEF" /\ d.rrd = e.rrd /\ d.cf = e.cf /\ d.reduce = e.reduce
    /\ d.startOrig = e.startOrig /\ d.endOrig = e.endOrig /\ d.stepOrig = e.stepOrig
Fetchable(content, d) ==
    CanOpen(content) /\ FetchArgsOk(d.start, d.end, d.step)
FetchedSeries(content, d) ==
    IF Fetchable(content, d) THEN rrd_fetch_fn(content.rrd, d.cf, d.start, d.end, d.step)
    ELSE [ok |-> FALSE]
LastNamed(rrd, nam) ==
    LET named == {d \in Dss(rrd) : rrd.ds[d].nam = nam}
    IN  IF named = {} THEN 0 ELSE CHOOSE d \in named : \A e \in named : e <= d
WithData(f, version, ds) ==
    IF ~f.ok THEN Ends([kind |-> "aborted"]) /\ UNCHANGED <<gdes, cursor>>
    ELSE IF ds = 0 THEN Stops /\ UNCHANGED <<gdes, cursor>>
    ELSE /\ gdes' = [gdes EXCEPT
                ![cursor].start = f.start, ![cursor].end = f.end, ![cursor].step = f.step,
                ![cursor].rows = f.rows, ![cursor].from = version, ![cursor].ds = ds]
         /\ cursor' = FirstFrom(gdes, cursor + 1, {"DEF"})
         /\ UNCHANGED <<pc, out>>
FromFile(d, f, version, rrd) ==
    WithData(IF f.step < d.step THEN reduce_data(f, d.step, d.reduce) ELSE f,
             version, LastNamed(rrd, d.dsnam))
ShareData ==
    /\ pc = "fetch" /\ cursor <= Len(gdes)
    /\ \E k \in 1 .. cursor - 1 :
         /\ SameData(gdes[cursor], gdes[k])
         /\ \A j \in 1 .. k - 1 : ~SameData(gdes[cursor], gdes[j])
         /\ WithData([ok |-> TRUE, start |-> gdes[k].start, end |-> gdes[k].end,
                      step |-> gdes[k].step, rows |-> gdes[k].rows], gdes[k].from,
                     LastNamed(Versions[gdes[k].rrd][gdes[k].from].rrd, gdes[cursor].dsnam))
    /\ UNCHANGED <<req, disk, im, lastGf, err>>
Occurs(file) == \E k \in 1 .. cursor - 1 : gdes[k].rrd = file
FetchData ==
    /\ pc = "fetch" /\ cursor <= Len(gdes)
    /\ \A k \in 1 .. cursor - 1 : ~SameData(gdes[cursor], gdes[k])
    /\ \E d \in {gdes[cursor]} :
       \E version \in {IF req.daemon = "up" /\ ~Occurs(d.rrd) THEN Len(Versions[d.rrd])
                       ELSE disk[d.rrd]} :
       \E f \in {FetchedSeries(Versions[d.rrd][version], d)} :
         /\ disk' = [disk EXCEPT ![d.rrd] = version]
         /\ IF f.ok THEN FromFile(d, f, version, Versions[d.rrd][version].rrd)
            ELSE Stops /\ UNCHANGED <<gdes, cursor>>
    /\ UNCHANGED <<req, im, lastGf, err>>
AllFetched ==
    /\ pc = "fetch" /\ cursor > Len(gdes)
    /\ Goes("calc") /\ cursor' = FirstFrom(gdes, 1, {"SHIFT", "VDEF", "CDEF"})
    /\ UNCHANGED <<req, disk, im, gdes, lastGf, err>>

(* Somebody updates a file.                                                  *)
Advance(f) ==
    /\ pc = "fetch" /\ disk[f] < Len(Versions[f])
    /\ disk' = [disk EXCEPT ![f] = @ + 1]
    /\ UNCHANGED <<req, im, gdes, cursor, lastGf, err, pc, out>>

(* data_calc, one element.                                                   *)
Calculated(elements) ==
    /\ gdes' = elements
    /\ cursor' = FirstFrom(gdes, cursor + 1, {"SHIFT", "VDEF", "CDEF"})
    /\ UNCHANGED <<pc, out>>
Calculates(gf) == pc = "calc" /\ cursor <= Len(gdes) /\ gdes[cursor].gf = gf
CalcShift ==
    /\ Calculates("SHIFT")
    /\ \E s \in {gdes[cursor]} : \E g \in {gdes[s.vidx]} :
         Calculated([gdes EXCEPT ![s.vidx] = ShiftedBy(g,
             Truncated(IF s.shidx > 0 THEN ToInt(gdes[s.shidx].val) ELSE s.shval, g.step))])
    /\ UNCHANGED <<req, disk, im, lastGf, err>>
CalcVdef ==
    /\ Calculates("VDEF")
    /\ \E v \in {gdes[cursor]}, stray \in Strays : \E src \in {gdes[v.vidx]} :
       \E r \in {vdef_calc(src, Column(src), v.op, v.param, stray)} :
         Calculated([gdes EXCEPT ![cursor].val = r.val, ![cursor].when = r.when])
    /\ UNCHANGED <<req, disk, im, lastGf, err>>
CalcCdef ==
    /\ Calculates("CDEF")
    /\ \E r \in {cdef_calc(gdes, gdes[cursor].toks, req.now)} :
         IF r.ok
         THEN Calculated([gdes EXCEPT ![cursor].start = r.start, ![cursor].end = r.end,
                  ![cursor].step = r.step, ![cursor].rows = r.rows, ![cursor].ds = 1])
         ELSE Stops /\ UNCHANGED <<gdes, cursor>>
    /\ UNCHANGED <<req, disk, im, lastGf, err>>
AllCalculated ==
    /\ pc = "calc" /\ cursor > Len(gdes)
    /\ Goes(IF req.tool = "graph" THEN "print" ELSE "export")
    /\ UNCHANGED <<req, disk, im, gdes, cursor, lastGf, err>>

(* print_calc.  A script that draws nothing ends here.                       *)
Elements(gfs) == SelectSeq(gdes, LAMBDA e : e.gf \in gfs)
PrintLine(e) ==
    IF gdes[e.vidx].gf = "VDEF"
    THEN (IF e.show = "time" THEN gdes[e.vidx].when ELSE gdes[e.vidx].val)
    ELSE Printed(e.cf, SelectSeq(Column(gdes[e.vidx]), Finite))
Ruled(e) ==
    CASE e.gf = "HRULE" /\ ~Known(e.yrule) -> [e EXCEPT !.yrule = gdes[e.vidx].val]
      [] e.gf = "VRULE" /\ e.xrule = 0 -> [e EXCEPT !.xrule = gdes[e.vidx].when]
      [] OTHER -> e
PrintCalc ==
    /\ pc = "print"
    /\ IF \E k \in DOMAIN gdes : gdes[k].show = "bad" THEN Stops /\ UNCHANGED gdes
       ELSE /\ gdes' = [k \in DOMAIN gdes |-> Ruled(gdes[k])]
            /\ \E prints \in {Elements({"PRINT"})} :
               \E lines \in {[i \in DOMAIN prints |-> PrintLine(prints[i])]} :
                 IF Elements({"GPRINT", "LINE", "AREA", "TICK", "HRULE", "VRULE"}) = <<>>
                 THEN Ends([kind |-> "printed", prints |-> lines])
                 ELSE pc' = "paint" /\ out' = [kind |-> "none", prints |-> lines]
    /\ UNCHANGED <<req, disk, im, cursor, lastGf, err>>

(* The rest of graph_paint.                                                  *)
Paint ==
    /\ pc = "paint"
    /\ \E canvas \in {Canvas(im, gdes)} : \E range \in {AxisRange(im, canvas)} :
         Ends([kind |-> "painted", prints |-> out.prints, canvas |-> canvas,
               min |-> range.min, max |-> range.max])
    /\ UNCHANGED <<req, disk, im, gdes, cursor, lastGf, err>>

Exported == [i \in 1 .. Len(Elements({"XPORT"})) |-> gdes[Elements({"XPORT"})[i].vidx]]
XportRows ==
    /\ pc = "export"
    /\ \E columns \in {Exported}, stray \in Strays :
         IF columns = <<>> THEN Stops
         ELSE Ends([kind |-> "exported"] @@ rrd_xport_fn(im, columns, stray))
    /\ UNCHANGED <<req, disk, im, gdes, cursor, lastGf, err>>

Next ==
    \/ ParseOptions \/ ParseArgument \/ ScriptEnds
    \/ ShareData \/ FetchData \/ AllFetched \/ \E f \in Files : Advance(f)
    \/ CalcShift \/ CalcVdef \/ CalcCdef \/ AllCalculated
    \/ PrintCalc \/ Paint \/ XportRows
Spec == Init /\ [][Next]_vars
===============================================================================
