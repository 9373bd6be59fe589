------------------------------- MODULE RrdFile -------------------------------
(* An RRD over its life: rrdtool create, update, tune, resize, dump and      *)
(* restore on one path, the file resize.rrd that a resize leaves and the     *)
(* administrator moves over the original, and the last XML dump.             *)
(*                                                                           *)
(* Every command is one step: update, resize and restore hold the lock or    *)
(* own the file while they work.                                             *)
(*                                                                           *)
(* A path holds its content and, as a history, `past': what was asked of it. *)
(*   log   the commands that reached it: [kind |-> "created"], "line" (a line *)
(*         that was accepted), "tried" (a line that failed after some data   *)
(*         sources had taken over its readings), "retyped" (a new type),     *)
(*         "reset" (the coefficients of a data source), "erased" (violations) *)
(*   kept  for every archive, how many of its newest rows no resize has      *)
(*         thrown away                                                       *)
(*   checked   whether a restore with --range-check was among them           *)
EXTENDS RrdCreate, RrdUpdate, RrdFetch, RrdTools
CONSTANTS
    Requests,      \* rrdtool create command lines
    Updates,       \* rrdtool update command lines: [tmplt |-> --template or <<>>,
                   \* lines |-> <<[gap |-> seconds since the last update,
                   \*              values |-> <<reading, ...>>], ...>>]
    Tunings,       \* lists of options of rrdtool tune
    Resizings,     \* <<archive, rows>> of rrdtool resize
    Restores,      \* whether rrdtool restore checks the range: a subset of
                   \* BOOLEAN, {} for no dumps and restores at all
    MaxCommands    \* bound on the commands after the first

(* The command lines are lists, their counts and times numbers, and no       *)
(* HWPREDICT asks for a period of 0: rrd_create_r divides by it.             *)
IsList(s) == Len(s) \in Nat /\ s = [k \in 1 .. Len(s) |-> s[k]]
ASSUME CommandsAssumption ==
    /\ \A req \in Requests :
         /\ req.step \in Int /\ req.start \in Int /\ IsList(req.args)
         /\ \A k \in DOMAIN req.args :
              LET a == req.args[k] IN
              \/ a.arg = "DS"
              \/ /\ a.arg = "RRA" /\ a.tokens \in Seq(Int)
                 /\ a.cf \in PredictionCfs /\ Len(a.tokens) >= 4 => a.tokens[4] >= 1
    /\ \A u \in Updates : IsList(u.lines) /\ \A k \in DOMAIN u.lines : u.lines[k].gap \in Int
    /\ \A options \in Tunings : IsList(options)
    /\ \A r \in Resizings : r[2] \in Int

VARIABLES file,      \* the path of the RRD
          resized,   \* resize.rrd
          xml,       \* the last dump, <<>> before there is one
          past,      \* [file, resized, xml |-> history]
          commands   \* how many there were, to bound them
vars == <<file, resized, xml, past, commands>>

NoPast == [log |-> <<>>, kept |-> <<>>, checked |-> FALSE]
Rrd == file.rrd
Command == commands < MaxCommands /\ commands' = commands + 1

Init ==
    /\ file = Absent /\ resized = Absent /\ xml = <<>>
    /\ past = [file |-> NoPast, resized |-> NoPast, xml |-> NoPast]
    /\ commands = 0

(* rrdtool create.  With --no-overwrite the open is exclusive.               *)
Create(req) ==
    \E r \in {rrd_create_r(req)} :
        /\ Command
        /\ OptionsOk(req) /\ r.ok
        /\ req.noOverwrite => file = Absent
        /\ \E rows \in InitialRows(r.rra) :
             file' = Holding(rrd_create_fn(r.version, req.step, req.start, r.ds, r.rra, rows))
        /\ past' = [past EXCEPT !.file =
             [log |-> << [kind |-> "created", time |-> req.start, step |-> req.step] >>,
              kept |-> [i \in 1 .. Len(r.rra) |-> r.rra[i].rowCnt], checked |-> FALSE]]
        /\ UNCHANGED <<resized, xml>>

(* The entries the lines of an update leave in the log.                      *)
Entry(rrd, idx, line) ==
    LET parsed == parse_ds(rrd, idx, line)
        interval == line.time - rrd.lastUp
        bad == {d \in Dss(rrd) : Malformed(rrd.ds[d], parsed.vals[d], interval)}
        taken == {d \in Dss(rrd) : \A b \in bad : d < b}
    IN  IF ~parsed.ok THEN <<>>
        ELSE IF bad /= {}
        THEN << [kind |-> "tried", vals |-> [d \in taken |-> parsed.vals[d]]] >>
        ELSE << [kind |-> "line", time |-> line.time, vals |-> parsed.vals,
                ds |-> rrd.ds, rra |-> rrd.rra] >>
Logged(r, log) == [ok |-> r.ok, rrd |-> r.rrd, log |-> log]
Entries(rrd, idx, lines) ==
    FoldLeft(LAMBDA st, line :
                IF ~st.ok THEN st
                ELSE Logged(process_arg(st.rrd, idx, line),
                            st.log \o Entry(st.rrd, idx, line)),
             [ok |-> TRUE, rrd |-> rrd, log |-> <<>>], lines).log

(* Rows an archive gains between two times.                                  *)
RowsBetween(rrd, i, from, to) ==
    (to \div RowStep(rrd, i)) - (from \div RowStep(rrd, i))
KeptAfter(rrd, kept, to) ==
    [i \in Rras(rrd) |->
        LET all == kept[i] + RowsBetween(rrd, i, rrd.lastUp, to)
        IN  IF all > rrd.rra[i].rowCnt THEN rrd.rra[i].rowCnt ELSE all]

(* rrdtool update.                                                           *)
Update(tmplt, spaced) ==
    LET lines == [k \in 1 .. Len(spaced) |-> [time |-> Rrd.lastUp + spaced[k].gap,
                                              values |-> spaced[k].values]]
        template == IF tmplt = <<>> THEN DefaultTemplate(Rrd)
                    ELSE parse_template(Rrd, tmplt).idx
        r == rrd_update(Rrd, tmplt, lines)
    IN  /\ CanOpen(file) /\ Command
        /\ file' = Holding(r.rrd)
        /\ past' = [past EXCEPT
             !.file.log = IF tmplt /= <<>> /\ ~parse_template(Rrd, tmplt).ok THEN @
                          ELSE @ \o Entries(Rrd, template, lines),
             !.file.kept = KeptAfter(Rrd, @, r.rrd.lastUp)]
        /\ UNCHANGED <<resized, xml>>

(* rrdtool tune, and what its options up to the first that fails make the    *)
(* RRD forget.                                                               *)
Forgotten(rrd, o) ==
    LET d == IF o.ds = "" THEN 0 ELSE ds_match(rrd, o.ds)
    IN  CASE o.opt = "data-source-type" /\ rrd.ds[d].dst /= o.val ->
                << [kind |-> "retyped", d |-> d] >>
          [] o.opt = "aberrant-reset" -> << [kind |-> "reset", d |-> d] >>
          [] o.opt \in {"failure-threshold", "window-length"} -> << [kind |-> "erased"] >>
          [] OTHER -> <<>>
TuneLog(rrd, options) ==
    FoldLeft(LAMBDA st, o :
                LET r == TuneOption(st.rrd, o)
                IN  IF ~st.ok THEN st
                    ELSE [ok |-> r.ok, rrd |-> r.rrd,
                          log |-> IF r.ok THEN st.log \o Forgotten(st.rrd, o) ELSE st.log],
             [ok |-> TRUE, rrd |-> rrd, log |-> <<>>], options).log
Tune(options) ==
    /\ CanOpen(file) /\ Command
    /\ file' = Holding(rrd_tune(Rrd, options).rrd)
    /\ past' = [past EXCEPT !.file.log = @ \o TuneLog(Rrd, options)]
    /\ UNCHANGED <<resized, xml>>

(* rrdtool resize writes resize.rrd; the administrator moves it.             *)
Resize(i, modify) ==
    /\ CanOpen(file) /\ Command
    /\ ResizeOk(Rrd, i, modify)
    /\ resized' = Holding(rrd_resize(Rrd, i, modify))
    /\ past' = [past EXCEPT !.resized =
         [past.file EXCEPT !.kept[i] =
             LET n == Rrd.rra[i].rowCnt + modify IN IF @ > n THEN n ELSE @]]
    /\ UNCHANGED <<file, xml>>
Move ==
    /\ resized /= Absent
    /\ file' = resized /\ resized' = Absent
    /\ past' = [past EXCEPT !.file = past.resized, !.resized = NoPast]
    /\ UNCHANGED <<xml, commands>>

(* rrdtool dump and rrdtool restore --force-overwrite; without the option    *)
(* restore refuses a path that exists.                                       *)
Dump ==
    /\ CanOpen(file) /\ Restores /= {} /\ Command
    /\ xml' = << rrd_dump(Rrd) >>
    /\ past' = [past EXCEPT !.xml = past.file]
    /\ UNCHANGED <<file, resized>>
Restore(check) ==
    /\ xml /= <<>> /\ Command
    /\ file' = Holding(rrd_restore(xml[1], check))
    /\ past' = [past EXCEPT !.file = [past.xml EXCEPT !.checked = @ \/ check]]
    /\ UNCHANGED <<resized, xml>>

Next ==
    \/ \E req \in Requests : Create(req)
    \/ \E u \in Updates : Update(u.tmplt, u.lines)
    \/ \E options \in Tunings : Tune(options)
    \/ \E r \in Resizings : Resize(r[1], r[2])
    \/ Move \/ Dump \/ \E check \in Restores : Restore(check)
Spec == Init /\ [][Next]_vars
-------------------------------------------------------------------------------
(* What the archives have to say, from the history alone.                    *)
CONSTANTS ComputeMeaning(_, _)   \* the value of a COMPUTE data source: its
                                 \* index and the rates of all data sources

Log == past.file.log
Lines == {k \in 1 .. Len(Log) : Log[k].kind = "line"}
Created == Log[1]
TimeOf(k) == Log[k].time
Previous(k) == CHOOSE j \in Lines \cup {1} :       \* the line before, or the creation
                   j < k /\ \A h \in Lines : h < k => h <= j

(* The reading of d before entry k: the last one a line brought to it, not   *)
(* counting what a change of type made it forget.                            *)
Sets(e, d) == \/ e.kind = "line"
              \/ e.kind = "tried" /\ d \in DOMAIN e.vals
              \/ e.kind = "retyped" /\ e.d = d
LastReading(d, k) ==
    LET js == {j \in 1 .. k - 1 : Sets(Log[j], d)}
        j == CHOOSE j \in js : \A h \in js : h <= j
    IN  IF js = {} \/ Log[j].kind = "retyped" THEN U ELSE Log[j].vals[d]

(* The rate of d over the interval that line k ends.                         *)
Rate(d, k) ==
    LET def == Log[k].ds[d]
        v == Log[k].vals[d]
        u == LastReading(d, k)
        seconds == TimeOf(k) - TimeOf(Previous(k))
        wrapped == {x \in {v - u, v - u + Wrap32, v - u + Wrap32 + Wrap64} : x >= 0}
        amount == CASE def.dst = "GAUGE"    -> v * seconds
                    [] def.dst = "ABSOLUTE" -> v
                    [] def.dst = "DERIVE"   -> v - u
                    [] def.dst = "COUNTER"  -> Min(wrapped)
        rate == (amount * Unit) \div seconds
    IN  IF \/ v = U \/ def.dst = "COMPUTE" \/ seconds > def.mrhb
           \/ /\ def.dst \in {"COUNTER", "DERIVE"}
              /\ u \in {U, Bad} \/ (v < 0) /= (u < 0)
           \/ def.min /= NaN /\ rate < def.min
           \/ def.max /= NaN /\ rate > def.max
        THEN NaN ELSE rate

(* The rate of d in one second; before the creation it is unknown.           *)
RateAt(d, s) ==
    IF s <= Created.time THEN NaN
    ELSE Rate(d, CHOOSE k \in Lines : s <= TimeOf(k) /\ TimeOf(Previous(k)) < s)

(* The primary data points that line k completes all have one value: the     *)
(* average over the seconds whose rate is known.  It is unknown when the line *)
(* came later than the heartbeat allows, or when more than half a step was   *)
(* unknown before it.                                                        *)
Floor(t) == t - (t % Created.step)
MeanRate(rates, from) ==
    LET known == {s \in DOMAIN rates : rates[s] /= NaN}
        before == {s \in DOMAIN rates : s <= from} \ known
    IN  IF 2 * Cardinality(before) > Created.step \/ known = {} THEN NaN
        ELSE MapThenSumSet(LAMBDA s : rates[s], known) \div Cardinality(known)
MeasuredPoint(d, k) ==
    LET from == TimeOf(Previous(k))
        seconds == Floor(from) + 1 .. Floor(TimeOf(k))
    IN  IF TimeOf(k) - from > Log[k].ds[d].mrhb THEN NaN
        ELSE MeanRate([s \in seconds |-> RateAt(d, s)], from)
Point(d, k) ==
    LET ds == Log[k].ds IN
    IF ds[d].dst = "COMPUTE"
    THEN ComputeMeaning(d, [c \in 1 .. d - 1 |->
                               IF ds[c].dst = "COMPUTE" THEN NaN ELSE MeasuredPoint(c, k)])
    ELSE MeasuredPoint(d, k)

(* The primary data point of the step that ends at e.                        *)
PointAt(d, e) ==
    IF e <= Floor(Created.time) THEN NaN
    ELSE Point(d, CHOOSE k \in Lines : e <= TimeOf(k) /\ TimeOf(Previous(k)) < e)

(* The value of the row of an archive whose interval ends at e.              *)
Consolidation(def, points, e) ==
    LET known == {x \in DOMAIN points : points[x] /= NaN}
    IN  IF (def.pdpCnt - Cardinality(known)) * Unit > def.pdpCnt * def.xff THEN NaN
        ELSE CASE def.cf = "AVERAGE" ->
                     MapThenSumSet(LAMBDA x : points[x], known) \div Cardinality(known)
               [] def.cf = "MAX"  -> Max({points[x] : x \in known})
               [] def.cf = "MIN"  -> Min({points[x] : x \in known})
               [] def.cf = "LAST" -> points[e]
RowAt(i, d, e) ==
    Consolidation(Rrd.rra[i],
        [x \in {e - j * Created.step : j \in 0 .. Rrd.rra[i].pdpCnt - 1} |-> PointAt(d, x)],
        e)

Consolidating == {i \in Rras(Rrd) : Rrd.rra[i].cf \in ConsolidatingCfs}
Holds == file.kind = "rrd"

(* What the archives should hold: a value for each row that is kept, newest  *)
(* first.  What is outside of an archive is unknown, and a restore with      *)
(* --range-check may have forgotten more.                                    *)
Expected ==
    [i \in Consolidating |-> [k \in 0 .. past.file.kept[i] - 1 |-> [d \in Dss(Rrd) |->
        RowAt(i, d, LastRowTime(Rrd, i) - k * RowStep(Rrd, i))]]]
Agrees(row, i, k, expected) ==
    LET right == IF k \in DOMAIN expected[i] THEN expected[i][k] ELSE AllNaN(Rrd)
    IN  \A d \in Dss(Rrd) : row[d] = right[d] \/ (past.file.checked /\ row[d] = NaN)

(* The cursor of every archive stays inside it, the archive has its rows and *)
(* the scratch areas one entry per data source.                              *)
TypeOK ==
    Holds =>
        /\ \A i \in Rras(Rrd) :
             /\ Rrd.cur[i] \in 0 .. Rrd.rra[i].rowCnt - 1
             /\ DOMAIN Rrd.data[i] = 0 .. Rrd.rra[i].rowCnt - 1
             /\ \A r \in DOMAIN Rrd.data[i] : Len(Rrd.data[i][r]) = Len(Rrd.ds)
             /\ Len(Rrd.cdp[i]) = Len(Rrd.ds)
             /\ past.file.kept[i] \in 1 .. Rrd.rra[i].rowCnt
        /\ Len(Rrd.pdp) = Len(Rrd.ds)

(* However the readings came - several to a step, one for many steps, late,  *)
(* malformed, partly by template, by several updates, between changes of     *)
(* type and limits, resizes, dumps and restores - every row of every archive *)
(* is the consolidation of the rates over its interval.                      *)
ArchiveMatchesHistory ==
    Holds =>
        LET expected == Expected IN
        \A i \in Consolidating : \A k \in 0 .. Rrd.rra[i].rowCnt - 1 :
            Agrees(Rrd.data[i][(Rrd.cur[i] - k) % Rrd.rra[i].rowCnt], i, k, expected)

CONSTANT Fetches     \* <<cf, start, end, step>>, asked in every state
(* A fetch answers with one value for each interval from start to end, each  *)
(* the one its interval should have, from an archive that reaches back to    *)
(* the start if there is one.                                                *)
FetchAgreesWithHistory ==
    Holds =>
        LET expected == Expected IN
        \A asked \in Fetches :
            LET cf == asked[1]
                start == asked[2]
                end == asked[3]
                step == asked[4]
                with == {i \in Rras(Rrd) : Rrd.rra[i].cf = cf}
                r == rrd_fetch_fn(Rrd, cf, start, end, step)
                Reaches(i) == rrd_first_r(file, i) - RowStep(Rrd, i) <= start
            IN  FetchArgsOk(start, end, step) =>
                /\ r.ok <=> with /= {}
                /\ r.ok =>
                    \E i \in with :
                        /\ r.step = RowStep(Rrd, i)
                        /\ (\E j \in with : Reaches(j)) => Reaches(i)
                        /\ r.start \in start - r.step + 1 .. start
                        /\ r.end \in end + 1 .. end + r.step
                        /\ Len(r.rows) = (r.end - r.start) \div r.step
                        /\ \A k \in 1 .. Len(r.rows) :
                             Agrees(r.rows[k], i,
                                 (LastRowTime(Rrd, i) - (r.start + k * r.step)) \div r.step,
                                 expected)
(* rrdtool lastupdate, first and last: the time is that of the last line     *)
(* taken, the reading of a data source is the last one any line brought it,  *)
(* a line that failed at a later data source included.                       *)
ReadersAgreeWithHistory ==
    Holds =>
        LET shown == rrd_lastupdate_r(file)
            taken == CHOOSE k \in Lines \cup {1} : \A j \in Lines : j <= k
        IN  /\ shown.time = TimeOf(taken) /\ rrd_last_r(file) = TimeOf(taken)
            /\ \A d \in Dss(Rrd) : shown.last[d][2] = LastReading(d, Len(Log) + 1)
            /\ \A i \in Rras(Rrd) :
                  /\ rrd_first_r(file, i) % RowStep(Rrd, i) = 0
                  /\ TimeOf(taken) - rrd_first_r(file, i)
                       \in Span(Rrd, i) - RowStep(Rrd, i) .. Span(Rrd, i) - 1

(* A dump that is restored without a range check shows what the RRD showed:  *)
(* the same definitions, scratch areas and rows; the cursors are back at 0.  *)
RestoreIsFaithful ==
    Holds =>
        LET back == rrd_restore(rrd_dump(Rrd), FALSE)
            before == rrd_info_r(file)
        IN  /\ rrd_info_r(Holding(back)) =
                 [before EXCEPT !.rra = [i \in DOMAIN @ |-> [@[i] EXCEPT !.cur_row = 0]]]
            /\ \A i \in Rras(Rrd) : RowsOldestFirst(back, i) = RowsOldestFirst(Rrd, i)
===============================================================================
