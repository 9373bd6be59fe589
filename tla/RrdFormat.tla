------------------------------ MODULE RrdFormat ------------------------------
(* The round-robin database file: the records of rrd_format.h and the        *)
(* arithmetic on the doubles they hold.  A double is a fixed-point integer   *)
(* in units of 1/Unit, NaN, or one of the two infinities.  Quotients are     *)
(* exact when Unit has the divisors that occur, which the instances arrange. *)
EXTENDS Integers, Sequences, FiniteSets
CONSTANTS NaN,    \* DNAN, "unknown"
          Inf,    \* DINF, an integer beyond every value that occurs
          Unit,   \* the fixed-point representation of 1.0
          U,      \* the reading "U", and any last_ds that begins with one
          Bad     \* a reading that is no number

ASSUME DoublesAssumption ==
    /\ Inf \in Nat \ {0}
    /\ Unit \in Nat \ {0}
    /\ NaN \notin Int

Doubles == Int \cup {NaN}
Known(x) == x /= NaN
IfNaN(x, y) == IF Known(x) THEN x ELSE y                          \* IFDNAN
Infinite(x) == x \in {Inf, -Inf}

(* Sum, product with an integer, quotient by an integer (x / 0 is NaN: the   *)
(* code divides by zero only the value 0 or NaN).                            *)
DAdd(x, y) ==
    IF ~Known(x) \/ ~Known(y) \/ (Infinite(x) /\ y = -x) THEN NaN
    ELSE IF Infinite(x) THEN x ELSE IF Infinite(y) THEN y ELSE x + y
DNeg(x) == IF Known(x) THEN -x ELSE NaN
DScale(x, n) == IF Known(x) THEN x * n ELSE NaN
DOver(x, n) ==
    IF ~Known(x) \/ n = 0 THEN NaN
    ELSE IF Infinite(x) THEN x
    ELSE IF n > 0 THEN x \div n ELSE (-x) \div (-n)

(* Product and quotient of two doubles, used by the Holt-Winters formulas    *)
(* and the RPN calculator, on finite values.                                 *)
DMul(x, y) == IF Known(x) /\ Known(y) THEN (x * y) \div Unit ELSE NaN
DDiv(x, y) ==
    IF ~Known(x) \/ ~Known(y) THEN NaN
    ELSE IF y /= 0 THEN DOver(x * Unit, y)
    ELSE IF x = 0 THEN NaN ELSE IF x > 0 THEN Inf ELSE -Inf
DAbs(x) == IF Known(x) /\ x < 0 THEN -x ELSE x

(* Comparisons with NaN are false in C.                                      *)
DLess(x, y) == Known(x) /\ Known(y) /\ x < y

DMin(x, y) == IF DLess(y, x) THEN y ELSE x
DMax(x, y) == IF DLess(x, y) THEN y ELSE x

ConsolidatingCfs == {"AVERAGE", "MIN", "MAX", "LAST"}
PredictionCfs == {"HWPREDICT", "MHWPREDICT"}
SeasonCfs == {"SEASONAL", "DEVSEASONAL"}
AberrantCfs == PredictionCfs \cup SeasonCfs \cup {"DEVPREDICT", "FAILURES"}
Cfs == ConsolidatingCfs \cup AberrantCfs                          \* cf_conv
Dsts == {"COUNTER", "ABSOLUTE", "GAUGE", "DERIVE", "COMPUTE"}     \* dst_conv

MAX_FAILURES_WINDOW_LEN == 28

Dss(rrd) == 1 .. Len(rrd.ds)
Rras(rrd) == 1 .. Len(rrd.rra)

(* ds_match: the index of a data source by name, 0 when there is none.       *)
ds_match(rrd, nam) ==
    IF \E i \in Dss(rrd) : rrd.ds[i].nam = nam
    THEN CHOOSE i \in Dss(rrd) : /\ rrd.ds[i].nam = nam
                                 /\ \A j \in 1 .. i - 1 : rrd.ds[j].nam /= nam
    ELSE 0

AllNaN(rrd) == [d \in Dss(rrd) |-> NaN]

(* The rows of an archive from the oldest to the newest: the row after       *)
(* cur_row is the oldest one.                                                *)
RowsOldestFirst(rrd, i) ==
    LET n == rrd.rra[i].rowCnt
    IN  [k \in 1 .. n |-> rrd.data[i][(rrd.cur[i] + k) % n]]

(* The end of the last finished consolidation interval of an archive.        *)
LastRowTime(rrd, i) ==
    rrd.lastUp - (rrd.lastUp % (rrd.rra[i].pdpCnt * rrd.step))

(* The contents a path may have.                                             *)
Absent == [kind |-> "absent"]
Garbage == [kind |-> "garbage"]      \* not an RRD, or truncated
Holding(rrd) == [kind |-> "rrd", rrd |-> rrd]

(* rrd_open of an existing file: the cookies, a version this code knows and  *)
(* a file as long as its header says.                                        *)
RRD_VERSION == 4
CanOpen(content) == content.kind = "rrd" /\ content.rrd.version <= RRD_VERSION
===============================================================================
