------------------------------ MODULE MCRrdFile ------------------------------
(* Instances of RrdFile and RrdAberrant for model checking.                  *)
EXTENDS RrdAberrant

MCPermille(n) == (n * Unit) \div 1000
MCLibM(op, x) == x

Ds(nam, dst, mrhb) ==
    [arg |-> "DS", nam |-> nam, dst |-> dst, mrhb |-> mrhb, min |-> 0, max |-> NaN]
Compute(nam, toks) == [arg |-> "DS", nam |-> nam, dst |-> "COMPUTE", toks |-> toks]
Rra(cf, tokens) == [arg |-> "RRA", cf |-> cf, tokens |-> tokens]
Var(p) == [op |-> "VARIABLE", ptr |-> p]
Num(x) == [op |-> "NUMBER", val |-> x * Unit]
Op(o) == [op |-> o]

(* Consolidation: steps of two seconds, archives of one and of two steps per *)
(* row, a rate that is twice the sum of the gauge and the counter.           *)
Plain ==
    [start |-> 3, step |-> 2, noOverwrite |-> TRUE,
     args |-> << Ds("g", "GAUGE", 4), Ds("c", "COUNTER", 4),
                 Compute("s", <<Var(1), Var(2), Op("ADD"), Num(2), Op("MUL")>>),
                 Rra("AVERAGE", <<Unit \div 2, 1, 3>>),
                 Rra("AVERAGE", <<Unit \div 2, 2, 2>>), Rra("MAX", <<0, 2, 1>>),
                 Rra("MIN", <<0, 2, 1>>), Rra("LAST", <<Unit \div 2, 2, 1>>) >>]
PlainRequests == {Plain}
L(gap, values) == [gap |-> gap, values |-> values]
One(gap, values) == [tmplt |-> <<>>, lines |-> << L(gap, values) >>]
PlainUpdates ==
    { One(1, <<1, 3>>), One(1, <<U, 0>>), One(3, <<3, 0>>), One(3, <<2, U>>),
      One(4, <<1, 5>>), One(6, <<2, 2>>), One(1, <<2, Bad>>), One(0, <<1, 1>>),
      [tmplt |-> <<"c", "g">>, lines |-> << L(2, <<2, 1>>), L(5, <<1, 3>>) >>],
      [tmplt |-> <<"g">>, lines |-> << L(1, <<3>>), L(3, <<Bad>>) >>],
      [tmplt |-> <<"nosuch">>, lines |-> << L(1, <<3>>) >>] }
PlainTunings ==
    { << [opt |-> "data-source-type", ds |-> "c", val |-> "DERIVE"],
         [opt |-> "minimum", ds |-> "c", val |-> -3 * Unit] >>,
      << [opt |-> "maximum", ds |-> "g", val |-> 2 * Unit],
         [opt |-> "heartbeat", ds |-> "nosuch", val |-> 2],
         [opt |-> "heartbeat", ds |-> "g", val |-> 1] >> }
PlainResizings == {<<1, 2>>, <<1, -1>>, <<1, -2>>, <<2, -1>>, <<2, -2>>}
PlainFetches ==
    { <<"AVERAGE", 2, 9, 1>>, <<"AVERAGE", 6, 6, 4>>, <<"AVERAGE", 5, 7, 2>>,
      <<"AVERAGE", 7, 12, 1>>, <<"LAST", 3, 9, 1>>, <<"HWPREDICT", 3, 9, 1>> }
MCCompute(d, rates) == DScale(DAdd(rates[1], rates[2]), 2)

(* Forecasting: steps of one second, a period of two rows, the archives in   *)
(* the order of a HWPREDICT's contingent ones and in others.                 *)
Half == Unit \div 2
Hw(cf, dep) == Rra(cf, <<3, Half, Half, 2, dep>>)
Season(cf, dep) == Rra(cf, <<2, Half, dep>>)
Forecasting(archives) ==
    [start |-> 2, step |-> 1, noOverwrite |-> TRUE,
     args |-> << Ds("g", "GAUGE", 2) >> \o archives]
HwRequests ==
    { Forecasting(<< Hw("HWPREDICT", 2), Season("SEASONAL", 1), Season("DEVSEASONAL", 1),
                     Rra("DEVPREDICT", <<1, 3>>), Rra("FAILURES", <<2, 1, 2, 3>>) >>),
      Forecasting(<< Rra("FAILURES", <<2, 2, 3, 4>>), Rra("DEVPREDICT", <<1, 4>>),
                     Season("SEASONAL", 5), Season("DEVSEASONAL", 5),
                     Hw("MHWPREDICT", 3) >>) }
HwUpdates ==
    { One(1, <<1>>), One(1, <<4>>), One(1, <<U>>), One(2, <<4>>), One(3, <<2>>),
      [tmplt |-> <<>>, lines |-> << L(1, <<1>>), L(1, <<4>>), L(1, <<2>>), L(1, <<4>>) >>] }
HwTunings ==
    { << [opt |-> "aberrant-reset", ds |-> "g", val |-> 0] >>,
      << [opt |-> "window-length", ds |-> "", val |-> 1],
         [opt |-> "deltapos", ds |-> "", val |-> Half],
         [opt |-> "alpha", ds |-> "", val |-> Unit] >> }
===============================================================================
