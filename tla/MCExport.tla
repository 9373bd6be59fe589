------------------------------ MODULE MCExport ------------------------------
(* Instances of RrdGraph for model checking.                                 *)
EXTENDS RrdGraphProperties

(* LibM: a square root rounded down; nothing else is used.                   *)
MCLibM(op, x) == CHOOSE r \in 0 .. 46340 : r * r <= x * Unit /\ (r + 1) * (r + 1) > x * Unit
MCStrays == {NaN, 7 * Unit}

(* Files: "a" with hourly readings of x and y, averages of one and of four   *)
(* hours and maxima of three; "b" with two-hourly ones; one that is missing. *)
(* Both are in the middle of their archives and have unknown rows.           *)
Hour == 3600
Reading(t, d) ==
    IF (t \div Hour) % 9 = 4 THEN NaN ELSE ((((t \div Hour) * (d + 2)) % 11) + d) * Unit
Archive(cf, pdpCnt, rowCnt) == [cf |-> cf, pdpCnt |-> pdpCnt, rowCnt |-> rowCnt, xff |-> Unit \div 2]
Rrd(step, names, archives, lastUp) ==
    LET row(i) == (lastUp \div (step * archives[i].pdpCnt)) % archives[i].rowCnt
    IN  [step |-> step, version |-> 3, lastUp |-> lastUp,
         ds |-> [d \in DOMAIN names |-> [nam |-> names[d]]],
         rra |-> archives,
         cur |-> [i \in DOMAIN archives |-> row(i)],
         data |-> [i \in DOMAIN archives |->
             [r \in 0 .. archives[i].rowCnt - 1 |->
                 [d \in DOMAIN names |->
                     Reading(lastUp - (lastUp % (step * archives[i].pdpCnt))
                               - ((row(i) - r) % archives[i].rowCnt) * step * archives[i].pdpCnt,
                             d)]]]]
ArchivesA == <<Archive("AVERAGE", 1, 30), Archive("AVERAGE", 4, 10), Archive("MAX", 3, 12),
               Archive("LAST", 1, 20), Archive("MIN", 1, 20)>>
ArchivesB == <<Archive("AVERAGE", 1, 16)>>
MCVersions ==
    [a |-> <<Holding(Rrd(Hour, <<"x", "y">>, ArchivesA, 55 * Hour)),
             Holding(Rrd(Hour, <<"x", "y">>, ArchivesA, 56 * Hour + 100))>>,
     b |-> <<Holding(Rrd(2 * Hour, <<"x">>, ArchivesB, 55 * Hour))>>,
     none |-> <<Absent>>]

(* The command lines.                                                        *)
W(w) == [w |-> w]
N(n, len) == [n |-> n, len |-> len]
NowIs == <<W("now")>>
Ago(hours) == <<W("now"), W("-"), N(hours, 2), W("h")>>
AgoMinutes(m) == <<W("now"), W("-"), N(m, 3), W("m")>>
Clock == 57 * Hour + 30
Request(tool, start, end, xsize, script) ==
    [tool |-> tool, now |-> Clock, start |-> start, end |-> end, step |-> 0, xsize |-> xsize,
     lower |-> 0, upper |-> NaN, rigid |-> FALSE, scale |-> "auto", grid |-> 0,
     daemon |-> "none", script |-> script, says |-> <<>>]

Def(v, file, ds, cf, opts) ==
    [f |-> "DEF", vname |-> v, rrd |-> file, ds |-> ds, cf |-> cf, opts |-> opts]
X == Def("x", "a", "x", "AVERAGE", <<>>)
Y == Def("y", "a", "y", "AVERAGE", <<>>)
B == Def("b", "b", "x", "AVERAGE", <<>>)
Var(name) == [op |-> "VARIABLE", name |-> name]
Prev(name) == [op |-> "PREV_OTHER", name |-> name]
Num(x) == [op |-> "NUMBER", val |-> x * Unit]
Op(o) == [op |-> o]
Cdef(v, toks) == [f |-> "CDEF", vname |-> v, toks |-> toks]
Vdef(v, of, op, param) == [f |-> "VDEF", vname |-> v, of |-> of, op |-> op, param |-> param]
Shift(of, by) == [f |-> "SHIFT", of |-> of, by |-> by]
By(n) == [num |-> n]
Name(v) == [name |-> v]
Xport(v) == [f |-> "XPORT", of |-> v]
Show(of, cf) == [f |-> "PRINT", of |-> of, cf |-> cf, show |-> "value"]
Draw(f, src) ==
    [f |-> f, src |-> src, color |-> TRUE, legend |-> TRUE, stack |-> FALSE, fraction |-> NaN]
Plus == Cdef("s", <<Var("x"), Var("b"), Op("ADD")>>)

Pictures ==
    << << X, B, Plus, Vdef("m", "s", "MAXIMUM", NaN), Draw("LINE", Name("s")),
          Draw("AREA", Name("x")), Draw("STACK", Name("b")),
          [Draw("LINE", Name("m")) EXCEPT !.stack = TRUE], Draw("TICK", Name("b")),
          Draw("LINE", By(4)), [Draw("AREA", Name("y")) EXCEPT !.f = "HRULE", !.src = Name("m")],
          Draw("VRULE", Name("m")), Show("s", "AVERAGE"), Show("s", "MAX"),
          Show("m", ""), [Show("m", "") EXCEPT !.show = "time", !.f = "GPRINT"],
          [f |-> "COMMENT"] >>,
       << X, Draw("LINE", Name("x")), Cdef("n", <<Var("x"), Num(-3), Op("MUL")>>),
          Draw("AREA", Name("n")), Draw("VRULE", By(200000)), Draw("HRULE", By(3)) >>,
       << X, Cdef("u", <<Var("x"), Op("UNKN"), Op("MUL")>>), Draw("LINE", Name("u")) >> >>
Settings ==
    {[lower |-> 0, upper |-> NaN, rigid |-> FALSE, scale |-> "auto", grid |-> 0],
     [lower |-> 5 * Unit, upper |-> 8 * Unit, rigid |-> FALSE, scale |-> "auto", grid |-> 0],
     [lower |-> 5 * Unit, upper |-> 3 * Unit, rigid |-> TRUE, scale |-> "auto", grid |-> 0],
     [lower |-> -2 * Unit, upper |-> 60 * Unit, rigid |-> FALSE, scale |-> "alt", grid |-> 0],
     [lower |-> 0, upper |-> NaN, rigid |-> FALSE, scale |-> "min", grid |-> 0],
     [lower |-> 0, upper |-> NaN, rigid |-> FALSE, scale |-> "max", grid |-> 0],
     [lower |-> 0, upper |-> NaN, rigid |-> FALSE, scale |-> "auto", grid |-> 3 * Unit]}
Graphs == {s @@ Request("graph", Ago(12), NowIs, 12, Pictures[p]) : s \in Settings, p \in 1 .. 3}

(* Summaries and what is printed of them, over two spans of a series.        *)
AllSummaries(v) ==
    << Vdef("m1", v, "MAXIMUM", NaN), Vdef("m2", v, "MINIMUM", NaN), Vdef("f", v, "FIRST", NaN),
       Vdef("l", v, "LAST", NaN), Vdef("t", v, "TOTAL", NaN), Vdef("av", v, "AVERAGE", NaN),
       Vdef("sd", v, "STDEV", NaN), Vdef("p", v, "PERCENT", 60), Vdef("pn", v, "PERCENTNAN", 40),
       Vdef("ls", v, "LSLSLOPE", NaN), Vdef("li", v, "LSLINT", NaN),
       Vdef("lc", v, "LSLCORREL", NaN),
       Show(v, "MIN"), Show(v, "MAX"), Show(v, "LAST"), Show(v, "AVERAGE") >>
Ramp == Cdef("r", <<Op("COUNT"), Num(3), Op("MUL"), Var("x"), Num(0), Op("MUL"), Op("ADD")>>)
Flat == Cdef("c", <<Var("x"), Num(0), Op("MUL"), Num(4), Op("ADD")>>)
Gone == Cdef("g", <<Var("x"), Op("UNKN"), Op("ADD")>>)
Endless == Cdef("e", <<Var("x"), Num(5), Op("GT"), Op("INF"), Var("x"), Op("IF")>>)
SummaryScripts ==
    { <<X>> \o AllSummaries("x"), <<X, Ramp>> \o AllSummaries("r"),
      <<X, Flat>> \o AllSummaries("c"), <<X, Gone>> \o AllSummaries("g"),
      <<X, Endless>> \o AllSummaries("e"),
      << Def("x", "a", "x", "MAX", <<>>) >> \o AllSummaries("x") }
Summarising == {Request("graph", Ago(h), NowIs, 10, s) : h \in {10, 6}, s \in SummaryScripts}

(* Reduction: steps that divide and that do not, cf and reduce, intervals    *)
(* that begin and end between rows, and one within a single reduced row.     *)
Stepped(v, cf, step, more) == Def(v, "a", "x", cf, <<[k |-> "step", step |-> step]>> \o more)
Reduce(cf) == <<[k |-> "reduce", cf |-> cf]>>
From(hours) == <<[k |-> "start", at |-> Ago(hours)]>>
Until(hours) == <<[k |-> "end", at |-> Ago(hours)]>>
Reductions ==
    {Request("xport", h[1], h[2], 400,
         << Stepped("v", cf[1], step, Reduce(cf[2])), Cdef("w", <<Var("v"), Op("DUP"), Op("ADD")>>),
            Xport("v"), Xport("w") >>) :
        h \in {<<Ago(20), Ago(10)>>, <<Ago(19), Ago(9)>>, <<Ago(18), Ago(11)>>,
               <<Ago(12), Ago(11)>>, <<Ago(11), AgoMinutes(630)>>},
        cf \in {<<"MIN", "MIN">>, <<"MIN", "AVERAGE">>, <<"LAST", "LAST">>, <<"LAST", "MAX">>},
        step \in {2 * Hour, 3 * Hour, 4 * Hour, 10000}}

(* Expressions over different steps, spans and shifts.                       *)
Mixed == <<Var("x"), Var("b"), Op("ADDNAN"), Prev("b"), Op("ADDNAN"), Op("PREV"), Op("ADDNAN")>>
Own == Def("o", "a", "y", "AVERAGE", From(9) \o Until(5))
Far == Def("z", "a", "y", "AVERAGE", From(30) \o Until(25))
Expressions ==
    { << X, B, Cdef("c", Mixed), Xport("c"), Xport("b") >>,
      << X, B, Shift("b", By(2 * Hour + 7)), Cdef("c", Mixed), Xport("c"), Xport("x") >>,
      << X, B, Shift("b", By(-5 * Hour)), Shift("b", By(-4 * Hour)), Cdef("c", Mixed), Xport("c") >>,
      << X, Own, Cdef("c", <<Var("x"), Var("o"), Op("MAX"), Prev("o"), Op("SUB")>>), Xport("c") >>,
      << X, Own, Vdef("v", "o", "MAXIMUM", NaN), Cdef("c", <<Var("x"), Var("v"), Op("GT"), Var("o"),
         Op("TIME"), Num(3600), Op("DIV"), Op("IF")>>), Xport("c"), Xport("o") >>,
      << X, Cdef("d", <<Num(3600), Op("MIN")>>), Xport("x") >>,
      << X, Far, Cdef("c", <<Var("x"), Var("z"), Op("ADD")>>), Xport("c") >>,
      << X, Cdef("t", <<Var("x"), Num(7200), Op("TRENDNAN")>>), Shift("t", By(Hour)), Xport("t") >>,
      << X, Vdef("v", "x", "MAXIMUM", NaN), Shift("x", Name("v")),
         Cdef("c", <<Var("v"), Op("TIME"), Op("ADD")>>), Xport("x") >>,
      << X, Cdef("k", <<Var("x"), Num(60), Op("MUL"), Num(60), Op("MUL"), Op("CEIL")>>),
         Vdef("v", "k", "MINIMUM", NaN), Shift("x", Name("v")), Xport("x"), Xport("k") >> }
Exports == {Request("xport", Ago(h), Ago(2), 400, s) : h \in {14, 8}, s \in Expressions}

(* One file read twice, by equal and by different DEFs, while it changes.    *)
Twice ==
    {[Request("xport", Ago(6), NowIs, 400,
         << X, Def("q", "a", "x", "AVERAGE", Reduce("MAX")), Y, Def("x2", "a", "x", "AVERAGE", <<>>),
            Cdef("d", <<Var("x"), Var("x2"), Op("SUB")>>), Xport("d"), Xport("y") >>)
         EXCEPT !.daemon = d] : d \in {"none", "up", "down"}}

(* Scripts the parser or the readers refuse, and one it should have.         *)
Wrong ==
    { <<>>, <<X>>, <<X, X>>, <<[f |-> "PIE"]>>, <<Xport("x")>>, <<X, Vdef("v", "x", "LAST", NaN), Xport("v")>>,
      <<X, Draw("STACK", Name("x"))>>, <<X, [Draw("LINE", Name("x")) EXCEPT !.color = FALSE]>>,
      <<X, Draw("HRULE", Name("x"))>>, <<X, [Draw("TICK", Name("x")) EXCEPT !.fraction = 2 * Unit]>>,
      <<X, Show("x", "")>>, <<X, Show("x", "MEDIAN")>>, <<X, [Show("x", "MAX") EXCEPT !.show = "bad"]>>,
      <<X, Vdef("v", "x", "MEDIAN", NaN), Show("x", "MAX")>>,
      <<X, Vdef("v", "x", "MAXIMUM", 5), Shift("x", By(0)), Show("x", "MAX"), Xport("x")>>,
      <<X, Shift("x", Name("x"))>>, <<X, Cdef("c", <<Var("nosuch"), Op("DUP")>>)>>,
      <<X, Cdef("c", <<Var("x"), Num(1)>>)>>, <<X, Cdef("c", <<Op("ADD"), Var("x")>>), Xport("c")>>,
      <<X, Cdef("c", <<Op("TIME"), Op("DUP"), Op("ADD")>>), Xport("c")>>,
      <<Def("d", "a", "nosuch", "AVERAGE", <<>>), Xport("d")>>, <<Def("d", "none", "x", "AVERAGE", <<>>)>>,
      <<Def("d", "b", "x", "MAX", <<>>)>>, <<Def("d", "a", "x", "AVERAGE", <<[k |-> "pace", step |-> 1]>>)>>,
      <<Def("d", "a", "x", "AVERAGE", From(1) \o Until(9))>>, <<Def("d", "a", "x", "AVERAGE",
        <<[k |-> "start", at |-> <<W("noon"), W("noon")>>]>>)>> }
Refusals ==
    {Request(tool, Ago(6), NowIs, 400, s) : tool \in {"graph", "xport"}, s \in Wrong}
        \cup {Request("graph", Ago(1), Ago(6), 400, <<X>>), Request("graph", Ago(6), NowIs, 9, <<X>>),
              Request("graph", Ago(50), NowIs, 400, <<X>>),
              Request("graph", <<W("end"), W("-"), N(1, 1)>>, <<W("start"), W("+"), N(1, 1)>>, 400, <<X>>)}
        \cup {[Request("graph", Ago(6), NowIs, 400, <<X, Draw("LINE", Name("x"))>>) EXCEPT
                  !.daemon = d, !.step = 2 * Hour] : d \in {"up", "down"}}

(* Times: references and offsets, what they say and how they are written.    *)
Now2012 == 1330518896                       \* 12:34:56 on 29 February 2012
Today(days, seconds) == [y |-> 2012, m |-> 2, d |-> 29 + days, s |-> seconds]
Ref(words, date) == [words |-> words, ref |-> "date", date |-> date]
Noon == 12 * Hour
References ==
    { Ref(<<W("now")>>, Today(0, 45296)), Ref(<<W("noon")>>, Today(0, Noon)),
      Ref(<<W("midnight"), W("tomorrow")>>, Today(1, 0)), Ref(<<W("teatime"), W("yesterday")>>,
      Today(-1, 16 * Hour)), Ref(<<N(9, 1), W(":"), N(30, 2)>>, Today(0, 9 * Hour + 1800)),
      Ref(<<N(3, 1), W("pm"), W("today")>>, Today(0, 15 * Hour)),
      Ref(<<N(12, 2), W("am"), W("tue")>>, Today(-1, 0)),
      Ref(<<W("noon"), N(1, 2), W("/"), N(31, 2), W("/"), N(12, 2)>>, [y |-> 2012, m |-> 1, d |-> 31, s |-> Noon]),
      Ref(<<N(8, 1), W(":"), N(0, 2), N(31, 2), W("."), N(12, 2), W("."), N(2011, 4)>>,
          [y |-> 2011, m |-> 12, d |-> 31, s |-> 8 * Hour]),
      Ref(<<W("midnight"), W("jan"), N(30, 2), N(99, 2)>>, [y |-> 1999, m |-> 1, d |-> 30, s |-> 0]) }
Plain ==
    { Ref(<<N(20001231, 8)>>, [y |-> 2000, m |-> 12, d |-> 31, s |-> 0]),
      Ref(<<N(1327968000, 10)>>, [y |-> 2012, m |-> 1, d |-> 31, s |-> 0]),
      Ref(<<W("mar"), N(1, 1), N(2011, 4), N(6, 1), W("pm")>>, [y |-> 2011, m |-> 3, d |-> 1, s |-> 18 * Hour]) }
Delta(years, months, days, seconds) ==
    [years |-> years, months |-> months, days |-> days, seconds |-> seconds]
Off(words, delta) == [words |-> words, delta |-> delta]
Zero == Off(<<>>, Delta(0, 0, 0, 0))
Back ==
    { Off(<<W("-"), N(1, 1), W("day")>>, Delta(0, 0, -1, 0)), Off(<<W("-"), N(1, 1), W("mon")>>, Delta(0, -1, 0, 0)),
      Off(<<W("-"), N(1, 1), W("m")>>, Delta(0, -1, 0, 0)), Off(<<W("-"), N(30, 2), W("m")>>, Delta(0, 0, 0, -1800)),
      Off(<<W("-"), N(1, 1), W("h"), N(3, 1), W("m")>>, Delta(0, 0, 0, -3780)),
      Off(<<W("-"), N(1, 1), W("y"), N(9, 1), W("m")>>, Delta(-1, -9, 0, 0)),
      Off(<<W("-"), N(2, 1), W("weeks"), W("+"), N(5, 1), W("hours")>>, Delta(0, 0, -14, 5 * Hour)),
      Off(<<W("-"), N(4, 1), W("year"), W("-"), N(59, 2), W("s")>>, Delta(-4, 0, 0, -59)),
      Off(<<W("-"), N(90, 2)>>, Delta(0, 0, 0, -90)) }
Ahead ==
    { Off(<<W("+"), N(1, 1), W("months"), N(2, 1), W("d")>>, Delta(0, 1, 2, 0)),
      Off(<<W("+"), N(24, 2), W("h")>>, Delta(0, 0, 0, 86400)), Off(<<W("+"), N(1, 1), W("year")>>, Delta(1, 0, 0, 0)) }
Says(r, o) == [ref |-> r.ref, date |-> r.date, delta |-> o.delta]
Spoken(start, end, s, e) ==
    [Request("xport", start, end, 400, <<>>) EXCEPT !.now = Now2012, !.says = <<s, e>>]
Written(r, o) == r.words \o o.words
Future == Ref(<<W("noon"), N(1, 1), W("/"), N(1, 1), W("/"), N(37, 2)>>, [y |-> 2037, m |-> 1, d |-> 1, s |-> Noon])
Other(word) == [words |-> <<W(word)>>, ref |-> "other", date |-> Today(0, 0)]
SpokenTimes ==
    {Spoken(Written(r, o), Future.words, Says(r, o), Says(Future, Zero)) :
        r \in References, o \in Back \cup Ahead}
    \cup {Spoken(Written(r, Zero), Future.words, Says(r, Zero), Says(Future, Zero)) :
        r \in References \cup Plain}
    \cup {Spoken(Written(Other("end"), o), r.words, Says(Other("end"), o), Says(r, Zero)) :
        r \in References \cup Plain, o \in Back}
    \cup {Spoken(r.words, Written(Other("start"), o), Says(r, Zero), Says(Other("start"), o)) :
        r \in References \cup Plain, o \in Ahead}
MCRequests == Graphs \cup Summarising \cup Reductions \cup Exports \cup Twice \cup Refusals \cup SpokenTimes
=============================================================================
