--------------------------------- MODULE Rpn ---------------------------------
(* The RPN calculator of rrd_rpncalc.c.  A token is a record:                *)
(*   [op |-> "NUMBER", val |-> x]                                            *)
(*   [op |-> "VARIABLE" or "PREV_OTHER", ptr |-> p, data |-> column,         *)
(*    pos |-> k, step |-> s]      the column is <<>> when no data is bound   *)
(*   [op |-> "ADD"], ...                                                     *)
(* data is the column of values the variable runs over, pos the row it is    *)
(* at, from 0.  What the C library computes is LibM.                         *)
EXTENDS RrdFormat, SequencesExt
CONSTANTS LibM(_, _)     \* SIN, COS, LOG, EXP, ATAN, SQRT, RAD2DEG, DEG2RAD

DS_CDEF_MAX_RPN_NODES == 26
CONSTANT ShrtMax         \* SHRT_MAX; a COMPUTE data source stores shorts

LibMOps == {"SIN", "COS", "LOG", "EXP", "ATAN", "SQRT", "RAD2DEG", "DEG2RAD"}
UnaryOps == LibMOps \cup {"FLOOR", "CEIL", "UN", "ISINF", "ABS"}
BinaryOps == {"ADD", "ADDNAN", "SUB", "MUL", "DIV", "MOD", "ATAN2",
              "LT", "LE", "GT", "GE", "NE", "EQ", "MIN", "MAX"}
ConstantOps == {"NUMBER", "COUNT", "PREV", "UNKN", "INF", "NEGINF", "NOW",
                "TIME", "LTIME"}
VariableOps == {"VARIABLE", "PREV_OTHER"}
RpnOps == UnaryOps \cup BinaryOps \cup ConstantOps \cup VariableOps
            \cup {"IF", "LIMIT", "DUP", "POP", "EXC", "SORT", "REV", "AVG",
                  "TREND", "TRENDNAN", "PREDICT", "PREDICTSIGMA"}

Truth(b) == IF b THEN Unit ELSE 0
ToInt(x) == IF x >= 0 THEN x \div Unit ELSE -((-x) \div Unit)    \* (int) x
CeilDiv(a, b) == -((-a) \div b)

Unary(op, x) ==
    CASE op \in LibMOps -> IF Known(x) THEN LibM(op, x) ELSE NaN
      [] op = "FLOOR" -> IF Known(x) /\ ~Infinite(x) THEN (x \div Unit) * Unit ELSE x
      [] op = "CEIL"  -> IF Known(x) /\ ~Infinite(x) THEN CeilDiv(x, Unit) * Unit ELSE x
      [] op = "UN"    -> Truth(~Known(x))
      [] op = "ISINF" -> Truth(Infinite(x))
      [] op = "ABS"   -> DAbs(x)

(* a is below b on the stack.  A comparison with an unknown is unknown.      *)
Compare(a, b, holds) == IF Known(a) /\ Known(b) THEN Truth(holds) ELSE NaN
fmod(a, b) ==
    IF ~Known(a) \/ ~Known(b) \/ b = 0 THEN NaN
    ELSE IF a >= 0 THEN a % DAbs(b) ELSE -((-a) % DAbs(b))
Binary(op, a, b) ==
    CASE op = "ADD" -> DAdd(a, b)
      [] op = "ADDNAN" -> IF ~Known(a) THEN b ELSE IF ~Known(b) THEN a ELSE DAdd(a, b)
      [] op = "SUB" -> DAdd(a, DNeg(b))
      [] op = "MUL" -> DMul(a, b)
      [] op = "DIV" -> DDiv(a, b)
      [] op = "MOD" -> fmod(a, b)
      [] op = "ATAN2" -> IF Known(a) /\ Known(b) THEN LibM(op, <<a, b>>) ELSE NaN
      [] op = "LT" -> Compare(a, b, a < b)
      [] op = "LE" -> Compare(a, b, a <= b)
      [] op = "GT" -> Compare(a, b, a > b)
      [] op = "GE" -> Compare(a, b, a >= b)
      [] op = "NE" -> Compare(a, b, a /= b)
      [] op = "EQ" -> Compare(a, b, a = b)
      [] op = "MIN" -> IF Known(a) /\ Known(b) THEN DMin(a, b) ELSE NaN
      [] op = "MAX" -> IF Known(a) /\ Known(b) THEN DMax(a, b) ELSE NaN

Constant(tok, env) ==
    CASE tok.op = "NUMBER" -> tok.val
      [] tok.op = "COUNT"  -> (env.idx + 1) * Unit
      [] tok.op = "PREV"   -> IF env.idx <= 0 THEN NaN ELSE env.out[env.idx]
      [] tok.op = "UNKN"   -> NaN
      [] tok.op = "INF"    -> Inf
      [] tok.op = "NEGINF" -> -Inf
      [] tok.op = "NOW"    -> env.now * Unit
      [] tok.op = "TIME"   -> env.time * Unit
      [] tok.op = "LTIME"  -> (env.time + env.tzoffset) * Unit

(* A stack of three or more: IF chooses, LIMIT keeps a value in its range.   *)
Choose3(op, c, x, y) ==
    IF op = "IF" THEN (IF ~Known(c) \/ c = 0 THEN y ELSE x)
    ELSE IF Known(c) /\ Known(x) /\ Known(y) /\ x <= c /\ c <= y THEN c ELSE NaN

Mean(values) == DOver(FoldLeft(DAdd, 0, values), Len(values))

(* The state of rpn_calc between two tokens, and how a token changes it.     *)
Failed(st) == [st EXCEPT !.ok = FALSE]
Push(st, x) == [st EXCEPT !.stack = Append(@, x)]
Pops(st, n) == [st EXCEPT !.stack = SubSeq(@, 1, Len(@) - n)]
Need(st, n, next) == IF Len(st.stack) < n THEN Failed(st) ELSE next
Peek(st, n) == st.stack[Len(st.stack) - n]        \* 0 is the top
TopN(st, n) == SubSeq(st.stack, Len(st.stack) - n + 1, Len(st.stack))

(* The value at a row of a column; a row outside of it reads memory the      *)
(* column does not own (rrd_fetch allocates one row more than it fills).     *)
Cell(column, k) == IF k \in 0 .. Len(column) - 1 THEN column[k + 1] ELSE NaN

Variable(st, env, i) ==
    LET tok == st.toks[i]
        at == IF tok.op = "VARIABLE" THEN Cell(tok.data, tok.pos)
              ELSE IF env.idx <= 0 THEN NaN ELSE Cell(tok.data, tok.pos - 1)
    IN  IF tok.data = <<>> THEN Failed(st)      \* "VDEF made it into rpn_calc"
        ELSE Push([st EXCEPT !.toks[i].pos =
                      IF env.time % tok.step = 0 THEN @ + 1 ELSE @], at)

(* rpn_compare_double: an unknown equals everything; the instances sort none. *)
Above(x, y) == DLess(x, y)

(* SORT, REV and AVG take the number of values from the top of the stack.    *)
Group(st, op) ==
    LET n == ToInt(Peek(st, 0))
        rest == Pops(st, 1)
        top == TopN(rest, n)
        known == SelectSeq(top, Known)
        out == CASE op = "SORT" -> SortSeq(top, Above)
                 [] op = "REV"  -> Reverse(top)
                 [] op = "AVG"  -> <<Mean(known)>>
    IN  IF n <= 0 THEN (IF op = "AVG" THEN Push(rest, NaN) ELSE rest)
        ELSE Need(rest, n, [rest EXCEPT !.stack = SubSeq(@, 1, Len(@) - n) \o out])

(* The variable of TREND has moved on to the row after the current one.      *)
Trend(st, env, i) ==
    LET dur == ToInt(Peek(st, 0))
        tok == st.toks[i - 2]
        n == IF dur <= 0 THEN 1 ELSE CeilDiv(dur, tok.step)
        window == [k \in 1 .. n |-> Cell(tok.data, tok.pos - (k - 1))]
        values == IF st.toks[i].op = "TREND" THEN window ELSE SelectSeq(window, Known)
    IN  IF i <= 2 \/ st.toks[i - 2].op /= "VARIABLE" THEN Failed(st)
        ELSE Push(Pops(st, 2),
                  IF env.idx > CeilDiv(dur, tok.step) THEN Mean(values) ELSE NaN)

(* PREDICT and PREDICTSIGMA: the mean, or the deviation, of the rows within a *)
(* window before each of the shifts.  A negative count n takes -n multiples  *)
(* of one shift.                                                             *)
Sigma(values) ==
    LET n == Len(values)
        sum == FoldLeft(DAdd, 0, values)
        squares == FoldLeft(LAMBDA acc, v : DAdd(acc, DMul(v, v)), 0, values)
        spread == DAdd(DScale(squares, n), DNeg(DMul(sum, sum)))
    IN  IF n <= 1 \/ ~Known(spread) \/ spread < 0 THEN NaN
        ELSE LibM("SQRT", DOver(spread, n * (n - 1)))
Predict(st, env, i) ==
    LET tok == st.toks[i - 1]
        window == CeilDiv(ToInt(Peek(st, 1)), tok.step)
        count == ToInt(Peek(st, 2))
        below == Pops(st, 3)
        used == IF count < 0 THEN 1 ELSE count
        shift == [k \in 1 .. (IF count < 0 THEN -count ELSE count) |->
                     IF count < 0 THEN ToInt((k - 1) * Peek(below, 0))
                     ELSE ToInt(Peek(below, count - k))]
        cells == [m \in 1 .. Len(shift) * (window + 1) |->
                     LET o == CeilDiv(shift[(m - 1) \div (window + 1) + 1], tok.step)
                                  + ((m - 1) % (window + 1))
                     IN  IF o < env.idx THEN Cell(tok.data, tok.pos - o) ELSE NaN]
    IN  IF Len(st.stack) < used + 3 \/ \E k \in DOMAIN shift : shift[k] < 0
        THEN Failed(st)
        ELSE Push(Pops(below, used),
                  IF st.toks[i].op = "PREDICT" THEN Mean(SelectSeq(cells, Known))
                  ELSE Sigma(SelectSeq(cells, Known)))

Step(st, env, i) ==
    LET op == st.toks[i].op IN
    IF ~st.ok THEN st
    ELSE CASE op \in ConstantOps -> Push(st, Constant(st.toks[i], env))
           [] op \in VariableOps -> Variable(st, env, i)
           [] op \in UnaryOps  -> Need(st, 1, Push(Pops(st, 1), Unary(op, Peek(st, 0))))
           [] op \in BinaryOps -> Need(st, 2,
                  Push(Pops(st, 2), Binary(op, Peek(st, 1), Peek(st, 0))))
           [] op \in {"IF", "LIMIT"} -> Need(st, 3,
                  Push(Pops(st, 3), Choose3(op, Peek(st, 2), Peek(st, 1), Peek(st, 0))))
           [] op = "DUP" -> Need(st, 1, Push(st, Peek(st, 0)))
           [] op = "POP" -> Need(st, 1, Pops(st, 1))
           [] op = "EXC" -> Need(st, 2, Push(Push(Pops(st, 2), Peek(st, 0)), Peek(st, 1)))
           [] op \in {"SORT", "REV", "AVG"} -> Need(st, 1, Group(st, op))
           [] op \in {"TREND", "TRENDNAN"} -> Need(st, 2, Trend(st, env, i))
           [] op \in {"PREDICT", "PREDICTSIGMA"} -> Need(st, 3, Predict(st, env, i))

(* env: idx, the row being computed, from 0; out, the rows computed so far;  *)
(* time, the data_idx argument; now and tzoffset, the clock.                 *)
Result(end) ==
    [ok |-> end.ok /\ Len(end.stack) = 1,
     val |-> IF end.ok /\ end.stack /= <<>> THEN end.stack[1] ELSE NaN,
     toks |-> end.toks]
rpn_calc(toks, env) ==
    Result(FoldLeft(LAMBDA st, i : Step(st, env, i),
                    [ok |-> TRUE, stack |-> <<>>, toks |-> toks],
                    [i \in 1 .. Len(toks) |-> i]))

(* rpn_compact and rpn_expand: what a COMPUTE data source keeps of a number. *)
rpn_compact(toks) ==
    [ok |-> /\ Len(toks) < DS_CDEF_MAX_RPN_NODES
            /\ \A i \in 1 .. Len(toks) : toks[i].op = "NUMBER" =>
                 toks[i].val \div Unit \in -ShrtMax - 1 .. ShrtMax,
     nodes |-> [i \in 1 .. Len(toks) |->
                   IF toks[i].op = "NUMBER"
                   THEN [toks[i] EXCEPT !.val = @ \div Unit] ELSE toks[i]]]
rpn_expand(nodes) ==
    [i \in 1 .. Len(nodes) |->
        IF nodes[i].op = "NUMBER" THEN [nodes[i] EXCEPT !.val = @ * Unit] ELSE nodes[i]]

(* parseCDEF_DS: the operators a COMPUTE data source may not use.            *)
parseCDEF_DS(toks) ==
    [ok |-> /\ \A i \in 1 .. Len(toks) :
                 toks[i].op \notin {"TIME", "LTIME", "PREV", "COUNT"}
            /\ rpn_compact(toks).ok,
     nodes |-> rpn_compact(toks).nodes]
===============================================================================
