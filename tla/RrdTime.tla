------------------------------- MODULE RrdTime -------------------------------
(* rrd_parsetime.c: the AT-style time specifications of --start, --end and   *)
(* the start= and end= of a DEF.  A specification is a sequence of lexemes:  *)
(* [w |-> "noon"] for a word or a sign, [n |-> 8, len |-> 1] for a number    *)
(* and the digits it is written with.  The clock runs in UTC.                *)
EXTENDS Integers, Sequences

(* A struct tm: what mktime reads, and the day of the week.                  *)
TmFields == {"year", "mon", "mday", "hour", "min", "sec"}

(* mktime, localtime: days since the epoch from a year since 1900, a month   *)
(* from 0 and a day of the month, each possibly out of its range.  A time    *)
(* before 1904 is one time, the earliest.                                    *)
DayNumber(year, mon, mday) ==
    LET y == 1900 + year + (mon \div 12) - (IF mon % 12 < 2 THEN 1 ELSE 0)
        m == (mon + 10) % 12                          \* March is 0
        days == 365 * y + y \div 4 - y \div 100 + y \div 400
                  + (153 * m + 2) \div 5 + mday - 1 - 719468
    IN  IF days < -24107 THEN -24107 ELSE days
mktime(tm) ==
    DayNumber(tm.year, tm.mon, tm.mday) * 86400 + tm.hour * 3600 + tm.min * 60 + tm.sec
localtime(t) ==
    LET days == t \div 86400
        rest == t % 86400
        year == CHOOSE y \in 0 .. 200 :
                  DayNumber(y, 0, 1) <= days /\ days < DayNumber(y + 1, 0, 1)
        mon == CHOOSE m \in 0 .. 11 :
                  DayNumber(year, m, 1) <= days /\ days < DayNumber(year, m + 1, 1)
    IN  [year |-> year, mon |-> mon, mday |-> days - DayNumber(year, mon, 1) + 1,
         hour |-> rest \div 3600, min |-> (rest \div 60) % 60, sec |-> rest % 60,
         wday |-> (days + 4) % 7]

(* The words, by context: after a sign they are units.                       *)
Months == <<"jan", "feb", "mar", "apr", "may", "jun",
            "jul", "aug", "sep", "oct", "nov", "dec">>
Weekdays == <<"sun", "mon", "tue", "wed", "thu", "fri", "sat">>
VariousWords ==
    [n |-> "NOW", now |-> "NOW", s |-> "START", start |-> "START", e |-> "END",
     end |-> "END", epoch |-> "EPOCH", midnight |-> "MIDNIGHT", noon |-> "NOON",
     teatime |-> "TEATIME", am |-> "AM", pm |-> "PM", today |-> "TODAY",
     yesterday |-> "YESTERDAY", tomorrow |-> "TOMORROW"]
TimeMultipliers ==
    [s |-> "SECONDS", seconds |-> "SECONDS", min |-> "MINUTES", m |-> "MONTHS_MINUTES",
     h |-> "HOURS", hours |-> "HOURS", d |-> "DAYS", day |-> "DAYS", w |-> "WEEKS",
     weeks |-> "WEEKS", mon |-> "MONTHS", months |-> "MONTHS", y |-> "YEARS",
     year |-> "YEARS"]
Signs == [x \in {"+", "-", ":", ".", "/"} |->
            CASE x = "+" -> "PLUS" [] x = "-" -> "MINUS" [] x = ":" -> "COLON"
              [] x = "." -> "DOT"  [] x = "/" -> "SLASH"]
ShortWords == DOMAIN Signs \cup {"n", "s", "e", "am", "pm"}
Position(s, x) == CHOOSE i \in DOMAIN s : s[i] = x

parse_token(w, units) ==
    IF w \in DOMAIN Signs THEN Signs[w]
    ELSE IF units THEN (IF w \in DOMAIN TimeMultipliers THEN TimeMultipliers[w] ELSE "ID")
    ELSE IF w \in DOMAIN VariousWords THEN VariousWords[w]
    ELSE IF \E i \in 1 .. 12 : Months[i] = w THEN "MONTH"
    ELSE IF \E i \in 1 .. 7 : Weekdays[i] = w THEN "WEEKDAY" ELSE "ID"

(* A lexeme with what it means in either context.                            *)
Scanned(l) ==
    IF "n" \in DOMAIN l THEN [id |-> "NUMBER", unit |-> "NUMBER", n |-> l.n, len |-> l.len,
                              w |-> ""]
    ELSE [id |-> parse_token(l.w, FALSE), unit |-> parse_token(l.w, TRUE), n |-> 0,
          len |-> IF l.w \in ShortWords THEN 1 ELSE 3, w |-> l.w]

(* The parser: the current token id, n, len and w, the lexemes left, units   *)
(* the context, and what it fills in: tm, the offset in seconds and the type. *)
(* op and unit are the static variables of plus_minus.                       *)
token(p) ==
    IF p.left = <<>> THEN [p EXCEPT !.id = "EOF", !.n = 0, !.len = 0]
    ELSE [p EXCEPT !.left = Tail(@),
            !.id = IF p.units THEN p.left[1].unit ELSE p.left[1].id,
            !.n = p.left[1].n, !.len = p.left[1].len, !.w = p.left[1].w]
Fails(p) == [p EXCEPT !.ok = FALSE]
Required(p, id) == IF p.id = id THEN p ELSE Fails(p)
expect2(p, id) == Required(token(p), id)

(* Time of day: HH, HH:MM, am and pm.  A number that starts a date, or is no *)
(* hour, is left for day().  What is not a number counts as hour 0.          *)
HourAt(p, after, minute) ==
    LET half == after.id \in {"AM", "PM"}
        hour == IF after.id = "PM" /\ p.n /= 12 THEN p.n + 12
                ELSE IF after.id = "AM" /\ p.n = 12 THEN 0 ELSE p.n
    IN  IF ~after.ok \/ minute > 59 \/ (half /\ p.n > 12) THEN Fails(p)
        ELSE IF ~half /\ p.n > 23 THEN p
        ELSE [(IF half THEN token(after) ELSE after)
                EXCEPT !.tm.hour = hour, !.tm.min = minute, !.tm.sec = 0]
WithMinute(p, minutes) == HourAt(p, token(minutes), minutes.n)
tod(p) ==
    LET next == token(p)
    IN  IF p.len > 2 \/ next.id \in {"SLASH", "DOT"} THEN p
        ELSE IF next.id = "COLON" THEN WithMinute(p, expect2(next, "NUMBER"))
        ELSE HourAt(p, next, 0)

(* A two-digit year below 38 is after 2000.  p is past the date.             *)
assign_date(p, mday, mon, year) ==
    LET y == IF year > 138 THEN year - 1900
             ELSE IF year >= 0 /\ year < 38 THEN year + 100 ELSE year
    IN  IF (year > 138 /\ year <= 1970) \/ y < 70 THEN Fails(p)
        ELSE [p EXCEPT !.tm.mday = mday, !.tm.mon = mon, !.tm.year = y]
DateOk(mday, mon) == mon \in 0 .. 11 /\ mday \in 1 .. 31

day(p) ==
    LET shifted(k) == token([p EXCEPT !.tm.mday = @ + k])
        byName ==                               \* "jan 8 [1980]"
            LET d == expect2(p, "NUMBER")
                y == token(d)
                year == IF y.id = "NUMBER" THEN y.n ELSE p.tm.year
            IN  IF ~d.ok THEN d
                ELSE assign_date(IF y.id = "NUMBER" THEN token(y) ELSE y,
                                 d.n, Position(Months, p.w) - 1, year)
        dated(q, mday, mon, year) ==
            IF DateOk(mday, mon) THEN assign_date(q, mday, mon, year) ELSE Fails(q)
        separated ==                            \* MM/DD[/YY] or DD.MM[.YY]
            LET sep == token(p)
                second == expect2(sep, "NUMBER")
                next == token(second)
                third == expect2(next, "NUMBER")
                year == IF next.id = sep.id THEN third.n ELSE p.tm.year
                after == IF next.id = sep.id THEN token(third) ELSE next
            IN  IF ~second.ok \/ (next.id = sep.id /\ ~third.ok) THEN Fails(p)
                ELSE IF sep.id = "DOT" THEN dated(after, p.n, second.n - 1, year)
                ELSE dated(after, second.n, p.n - 1, year)
    IN  CASE p.id = "YESTERDAY" -> shifted(-1)
          [] p.id = "TODAY"     -> shifted(0)
          [] p.id = "TOMORROW"  -> shifted(1)
          [] p.id = "WEEKDAY"   -> shifted(Position(Weekdays, p.w) - 1 - p.tm.wday)
          [] p.id = "MONTH"     -> byName
          [] p.id = "NUMBER" /\ p.n > 10 * 365 * 24 * 60 * 60 ->
                 token([p EXCEPT !.tm = localtime(p.n)])
          [] p.id = "NUMBER" /\ p.n > 19700101 /\ p.n < 24000101 ->
                 dated(token(p), p.n % 100, ((p.n \div 100) % 100) - 1, p.n \div 10000)
          [] p.id = "NUMBER" /\ p.n <= 31 /\ token(p).id \in {"SLASH", "DOT"} -> separated
          [] p.id = "NUMBER" /\ ~(p.n <= 31 /\ token(p).id \in {"SLASH", "DOT"}) -> Fails(p)
          [] OTHER -> p

(* One number and its unit; without a sign the last one counts.  `m' means   *)
(* what the unit before suggests, else months below 6 and minutes from there. *)
AlwaysMinutes(num) == "MINUTES"         \* a mutant
MeaningOfM(num) ==
    IF num.unit \in {"DAYS", "WEEKS", "MONTHS", "YEARS"} THEN "MONTHS"
    ELSE IF num.unit \in {"SECONDS", "MINUTES", "HOURS"} THEN "MINUTES"
    ELSE IF num.n < 6 THEN "MONTHS" ELSE "MINUTES"
Shifted(p, unit, delta) ==
    CASE unit = "YEARS"   -> [p EXCEPT !.unit = unit, !.tm.year = @ + delta]
      [] unit = "MONTHS"  -> [p EXCEPT !.unit = unit, !.tm.mon = @ + delta]
      [] unit = "WEEKS"   -> [p EXCEPT !.unit = unit, !.tm.mday = @ + 7 * delta]
      [] unit = "DAYS"    -> [p EXCEPT !.unit = unit, !.tm.mday = @ + delta]
      [] unit = "HOURS"   -> [p EXCEPT !.unit = unit, !.offset = @ + delta * 3600]
      [] unit = "MINUTES" -> [p EXCEPT !.unit = unit, !.offset = @ + delta * 60]
      [] OTHER            -> [p EXCEPT !.unit = unit, !.offset = @ + delta]
WithUnit(num, next) ==
    IF ~num.ok THEN num
    ELSE Shifted(next, IF next.id = "MONTHS_MINUTES" THEN MeaningOfM(num) ELSE next.id,
                 IF num.op = "PLUS" THEN num.n ELSE -num.n)
Measured(num) == WithUnit(num, token(num))
plus_minus(p) ==
    Measured(IF p.id \in {"PLUS", "MINUS"}
             THEN expect2([p EXCEPT !.op = p.id, !.unit = ""], "NUMBER") ELSE p)

RECURSIVE Offsets(_)
Offsets(p) ==
    IF p.ok /\ p.id \in {"PLUS", "MINUS", "NUMBER"} THEN Offsets(token(plus_minus(p))) ELSE p

(* A date or a time of day that begins with a number: an hour of 30 and a    *)
(* year of 30000 stand for "not given".                                      *)
Timed(p) == IF p.ok /\ p.tm.hour = 30 /\ p.tm.year /= 30000 THEN tod(p) ELSE p
Dated(p) == IF p.ok THEN day(p) ELSE p
Given(p, hour, year) ==
    [p EXCEPT !.tm.hour = IF @ = 30 THEN hour ELSE @,
              !.tm.year = IF @ = 30000 THEN year ELSE @]
Numeric(p) ==
    Given(Timed(Dated(tod([p EXCEPT !.tm.hour = 30, !.tm.year = 30000]))),
          p.tm.hour, p.tm.year)

HourAfter(p) == IF p.ok /\ p.id = "NUMBER" THEN tod(p) ELSE p
Reference(p) ==
    LET Zero == [tm \in TmFields \cup {"wday"} |-> 0]
        Offset(q) == IF q.id \in {"PLUS", "MINUS"} THEN q ELSE Fails(q)
        anchored(type) == Offset(token([p EXCEPT !.type = type, !.tm = Zero]))
        at(hr) == day(token([p EXCEPT !.tm.hour = hr, !.tm.min = 0, !.tm.sec = 0]))
    IN  CASE p.id \in {"PLUS", "MINUS"} -> p
          [] p.id = "EPOCH" -> anchored("EPOCH")
          [] p.id = "START" -> anchored("START")
          [] p.id = "END"   -> anchored("END")
          [] p.id = "NOW"   -> IF token(p).id \in {"PLUS", "MINUS", "EOF"}
                               THEN token(p) ELSE Fails(p)
          [] p.id = "NUMBER" -> Numeric(p)
          [] p.id = "MONTH"  -> HourAfter(day(p))
          [] p.id = "TEATIME"  -> at(16)
          [] p.id = "NOON"     -> at(12)
          [] p.id = "MIDNIGHT" -> at(0)
          [] OTHER -> Fails(p)

OffsetsOf(p) ==
    IF p.ok /\ p.id \in {"PLUS", "MINUS"} THEN Offsets([p EXCEPT !.units = TRUE]) ELSE p
TimeValue(p) ==
    [ok |-> p.ok /\ p.id = "EOF", type |-> p.type, offset |-> p.offset,
     tm |-> IF p.ok /\ p.type = "ABSOLUTE" THEN localtime(mktime(p.tm)) ELSE p.tm]
rrd_parsetime(spec, now) ==
    TimeValue(OffsetsOf(Reference(token(
        [tm |-> localtime(now), offset |-> 0, type |-> "ABSOLUTE",
         left |-> [i \in 1 .. Len(spec) |-> Scanned(spec[i])],
         id |-> "EOF", n |-> 0, len |-> 0, w |-> "",
         units |-> FALSE, op |-> "PLUS", unit |-> "", ok |-> TRUE]))))

(* A time given relative to the other one: its tm holds calendar deltas.     *)
AbsoluteTime(tv) == mktime(tv.tm) + tv.offset
RelativeTo(t, tv) ==
    LET tm == localtime(t)
    IN  mktime([tm EXCEPT !.mday = @ + tv.tm.mday, !.mon = @ + tv.tm.mon,
                          !.year = @ + tv.tm.year]) + tv.offset
Resolves(start, end) ==
    /\ ~(start.type = "END" /\ end.type = "START")
    /\ start.type /= "START" /\ end.type /= "END"
rrd_proc_start_end(start, end) ==
    IF ~Resolves(start, end) THEN [ok |-> FALSE]
    ELSE [ok |-> TRUE,
          start |-> IF start.type = "END" THEN RelativeTo(AbsoluteTime(end), start)
                    ELSE AbsoluteTime(start),
          end |-> IF end.type = "START" THEN RelativeTo(AbsoluteTime(start), end)
                  ELSE AbsoluteTime(end)]
===============================================================================
